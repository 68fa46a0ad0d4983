--------------------------- MODULE ApiKeysProofs ----------------------------
(* Theorems about ApiKeys and Responders, for every set of keys, responders  *)
(* and request handlers, every workload and every number of starts; and      *)
(* about Startup, for every set of replicas, builds, databases and           *)
(* configurations.                                                           *)
EXTENDS ApiKeys, Startup, TLAPS

-----------------------------------------------------------------------------
(* The inductive invariant.                                                  *)

\* A key has a token of its own or the bootstrap token; no two rows share one;
\* before there is a pepper nothing is hashed with it.
KeysOK ==
    /\ \A k \in KeyIds : key[k].id = k /\ key[k].token \in {k, Boot}
    /\ \A k \in KeyIds : ~pepper /\ key[k].status # "none" => key[k].hash = "plain"
    /\ \A j, k \in KeyIds :
          key[j].status # "none" /\ key[k].status # "none" /\ key[j].token = key[k].token => j = k

\* A dead token is that of a disabled key.
DeadOK == \A t \in dead : \E k \in KeyIds : key[k].status = "disabled" /\ key[k].token = t

\* The successor of a key exists, the key is disabled, and no other has it.
HeirsOK ==
    /\ \A k \in KeyIds : from[k] # NoKey =>
          /\ from[k] \in KeyIds /\ key[from[k]].status = "disabled" /\ key[k].status # "none"
          /\ key[k].scopes = key[from[k]].scopes /\ key[k].expires = key[from[k]].expires
    /\ \A j, k \in KeyIds : from[k] # NoKey /\ from[j] = from[k] => j = k

\* The key that request p was read with is still what it was, or was disabled.
RowOf(p) ==
    pc[p] # "idle" =>
        /\ row[p] \in Key /\ row[p].status = "active"
        /\ key[row[p].id] \in {row[p], [row[p] EXCEPT !.status = "disabled"]}

\* The request was admitted by the scope it needs.
AdmittedOf(p) ==
    /\ pc[p] = "handle" /\ req[p] \in KeyOps => "operator" \in row[p].scopes
    /\ pc[p] = "rotate" => req[p] = "rotate"

RequestsOK == \A p \in Procs : RowOf(p) /\ AdmittedOf(p)

KeyInv == KeysOK /\ DeadOK /\ HeirsOK /\ RequestsOK

\* A handler at work has drawn an identifier, and a rotation has found a row.
WorkersOK ==
    \A p \in Procs : /\ step[p] # "idle" => new[p] \in ResponderIds
                     /\ step[p] = "replace" => current[p] \in ResponderIds

ResponderInv == RespondersTypeOK /\ WorkersOK /\ OneActiveResponder

FrontTypes ==
    /\ pc \in [Procs -> {"idle", "touch", "handle", "rotate", "responder"}]
    /\ req \in [Procs -> KeyOps \cup ResponderOps \cup {"none"}]
    /\ row \in [Procs -> Key \cup {NoKey}]

TableTypes ==
    /\ clock \in 0..MaxTime
    /\ key \in [KeyIds -> Key]
    /\ pepper \in BOOLEAN
    /\ up \in {"down", "ensure", "up"}
    /\ starts \in 0..MaxStarts
    /\ workload \in Workloads
    /\ from \in [KeyIds -> KeyIds \cup {NoKey}]
    /\ dead \subseteq Tokens

Inv == TableTypes /\ FrontTypes /\ KeyInv /\ ResponderInv

-----------------------------------------------------------------------------
(* Responders.                                                               *)

LEMMA EndStepFacts ==
    ASSUME RespondersTypeOK, WorkersOK, NEW p \in Procs, EndStep(p), responder' \in [ResponderIds -> {"none", "active", "disabled"}]
    PROVE  RespondersTypeOK' /\ WorkersOK' /\ step'[p] = "idle"
BY Zenon DEF RespondersTypeOK, WorkersOK, EndStep

\* No responder is active, and one becomes so.
LEMMA Activates ==
    ASSUME NEW table \in [ResponderIds -> {"none", "active", "disabled"}], InsertAllowed(table), NEW r \in ResponderIds,
           responder' = [table EXCEPT ![r] = "active"]
    PROVE  /\ responder' \in [ResponderIds -> {"none", "active", "disabled"}]
           /\ OneActiveResponder' /\ Active' # {}
<1>1. responder'[r] = "active" /\ \A s \in ResponderIds \ {r} : responder'[s] # "active"
    BY Zenon DEF InsertAllowed
<1>2. OneActiveResponder'
    BY Zenon, <1>1 DEF OneActiveResponder, Active
<1>3. r \in Active'
    BY Zenon, <1>1 DEF Active
<1> QED BY Zenon, <1>2, <1>3

\* A handler's step leaves at most one responder active, and one if one was.
LEMMA WorkerStep ==
    ASSUME ResponderInv, NEW p \in Procs, ResponderStep(p)
    PROVE  ResponderInv' /\ (Active # {} => Active' # {})
<1>1. RespondersTypeOK /\ WorkersOK /\ OneActiveResponder
    BY Zenon DEF ResponderInv
<1>2. responder \in [ResponderIds -> {"none", "active", "disabled"}]
    BY Zenon, <1>1 DEF RespondersTypeOK
<1>3. ASSUME EndStep(p), UNCHANGED responder
      PROVE  ResponderInv' /\ (Active # {} => Active' # {})
    BY Zenon, <1>1, <1>2, <1>3, EndStepFacts DEF ResponderInv, OneActiveResponder, Active
<1>4. CASE ValidationFails(p)
    BY Zenon, <1>3, <1>4 DEF ValidationFails
<1>5. CASE InsertResponder(p)
    <2>1. CASE UNCHANGED responder
        BY Zenon, <1>3, <1>5, <2>1 DEF InsertResponder
    <2>2. CASE InsertAllowed(responder) /\ responder' = [responder EXCEPT ![new[p]] = "active"]
        <3>1. PICK r \in ResponderIds : r = new[p]
            BY Zenon, <1>1, <1>5 DEF InsertResponder, WorkersOK
        <3>2. /\ responder' \in [ResponderIds -> {"none", "active", "disabled"}]
              /\ OneActiveResponder' /\ Active' # {}
            BY Zenon, <1>2, <2>2, <3>1, Activates
        <3> QED BY Zenon, <1>1, <1>5, <3>2, EndStepFacts DEF InsertResponder, ResponderInv
    <2> QED BY Zenon, <1>5, <2>1, <2>2 DEF InsertResponder
<1>6. CASE FindCurrent(p)
    <2>1. CASE EndStep(p)
        BY Zenon, <1>3, <1>6, <2>1 DEF FindCurrent
    <2>2. CASE ~EndStep(p)
        <3>1. PICK r \in Active : current' = [current EXCEPT ![p] = r]
            BY Zenon, <1>6, <2>2 DEF FindCurrent
        <3>2. r \in ResponderIds /\ step[p] = "find" /\ step' = [step EXCEPT ![p] = "replace"] /\ UNCHANGED <<responder, new>>
            BY Zenon, <1>6, <2>2, <3>1 DEF FindCurrent, Active
        <3>3. RespondersTypeOK' /\ WorkersOK'
            BY Zenon, <1>1, <3>1, <3>2 DEF RespondersTypeOK, WorkersOK
        <3> QED BY Zenon, <1>1, <3>2, <3>3 DEF ResponderInv, OneActiveResponder, Active
    <2> QED BY Zenon, <2>1, <2>2
<1>7. CASE Replace(p)
    <2>1. CASE UNCHANGED responder
        BY Zenon, <1>3, <1>7, <2>1 DEF Replace
    <2>2. CASE ~UNCHANGED responder
        <3>1. PICK r \in ResponderIds, c \in ResponderIds : r = new[p] /\ c = current[p]
            BY Zenon, <1>1, <1>7 DEF Replace, WorkersOK
        <3>2. /\ InsertAllowed([responder EXCEPT ![c] = "disabled"])
              /\ responder' = [responder EXCEPT ![c] = "disabled", ![r] = "active"]
            BY Zenon, <1>7, <2>2, <3>1 DEF Replace, Replaced
        <3>3. PICK table \in [ResponderIds -> {"none", "active", "disabled"}] : table = [responder EXCEPT ![c] = "disabled"]
            BY Zenon, <1>2
        <3>4. /\ responder' \in [ResponderIds -> {"none", "active", "disabled"}]
              /\ OneActiveResponder' /\ Active' # {}
            BY Zenon, <3>2, <3>3, Activates
        <3> QED BY Zenon, <1>1, <1>7, <3>4, EndStepFacts DEF Replace, ResponderInv
    <2> QED BY Zenon, <2>1, <2>2
<1> QED BY Zenon, <1>4, <1>5, <1>6, <1>7 DEF ResponderStep

\* A handler begins.
LEMMA BeginStep ==
    ASSUME ResponderInv, NEW p \in Procs, NEW r \in ResponderIds, BeginCreate(p, r) \/ BeginRotate(p, r)
    PROVE  ResponderInv' /\ Active' = Active
<1>1. PICK s \in {"insert", "find"} : /\ step' = [step EXCEPT ![p] = s] /\ new' = [new EXCEPT ![p] = r]
                                      /\ UNCHANGED <<responder, current>>
    BY Zenon DEF BeginCreate, BeginRotate
<1>2. RespondersTypeOK' /\ WorkersOK'
    BY Zenon, <1>1 DEF ResponderInv, RespondersTypeOK, WorkersOK
<1> QED BY Zenon, <1>1, <1>2 DEF ResponderInv, OneActiveResponder, Active

\* A responder is disabled.
LEMMA DisableStep ==
    ASSUME ResponderInv, NEW r \in ResponderIds, DisableResponder(r)
    PROVE  ResponderInv'
<1>1. RespondersTypeOK' /\ WorkersOK'
    BY Zenon DEF ResponderInv, RespondersTypeOK, WorkersOK, DisableResponder
<1>2. Active' \subseteq Active
    BY Zenon DEF Active, DisableResponder, ResponderInv, RespondersTypeOK
<1> QED BY Zenon, <1>1, <1>2 DEF ResponderInv, OneActiveResponder

\* Every step keeps the responders right; only a disablement takes the last.
LEMMA ResponderNext ==
    ASSUME ResponderInv, [Next]_vars
    PROVE  /\ ResponderInv'
           /\ Active # {} => Active' # {} \/ \E p \in Procs : pc[p] = "handle" /\ req[p] = "disable-responder"
<1>1. ASSUME UNCHANGED responderVars
      PROVE  ResponderInv' /\ Active' = Active
    BY Zenon, <1>1 DEF responderVars, ResponderInv, RespondersTypeOK, WorkersOK, OneActiveResponder, Active
<1>2. CASE Start \/ EnsureAPIKey \/ Tick
    BY Zenon, <1>1, <1>2 DEF Start, EnsureAPIKey, Tick
<1>3. CASE Stop
    BY Zenon, <1>3 DEF Stop, ResponderInv, RespondersTypeOK, WorkersOK, OneActiveResponder, Active
<1>4. ASSUME NEW p \in Procs, TouchKey(p) \/ (\E t \in Tokens, op \in workload : ReadKey(p, t, op))
      PROVE  ResponderInv' /\ Active' = Active
    BY Zenon, <1>1, <1>4 DEF TouchKey, ReadKey
<1>5. ASSUME NEW p \in Procs, WorkOnResponder(p)
      PROVE  ResponderInv' /\ (Active # {} => Active' # {})
    BY Zenon, <1>5, WorkerStep DEF WorkOnResponder
<1>6. ASSUME NEW p \in Procs, Fail(p)
      PROVE  ResponderInv' /\ Active' = Active
    BY Zenon, <1>6, EndStepFacts DEF Fail, ResponderInv, RespondersTypeOK, OneActiveResponder, Active
<1>7. ASSUME NEW p \in Procs, NEW k \in KeyIds,
             \/ DisableKey(p, k) \/ RotateRead(p, k) \/ RotateWrite(p, k)
             \/ \E scopes \in Grants, expires \in 0..MaxTime : CreateKey(p, k, scopes, expires)
      PROVE  ResponderInv' /\ Active' = Active
    BY Zenon, <1>1, <1>7 DEF DisableKey, RotateRead, RotateWrite, CreateKey
<1>8. ASSUME NEW p \in Procs, NEW r \in ResponderIds, HandleResponder(p, r)
      PROVE  ResponderInv' /\ Active' = Active
    BY Zenon, <1>8, BeginStep DEF HandleResponder
<1>9. ASSUME NEW p \in Procs, NEW r \in ResponderIds, HandleDisableResponder(p, r)
      PROVE  ResponderInv' /\ pc[p] = "handle" /\ req[p] = "disable-responder"
    BY Zenon, <1>9, DisableStep DEF HandleDisableResponder
<1>10. CASE UNCHANGED vars
    BY Zenon, <1>1, <1>10 DEF vars
<1> QED BY Zenon, <1>2, <1>3, <1>4, <1>5, <1>6, <1>7, <1>8, <1>9, <1>10 DEF Next

-----------------------------------------------------------------------------
(* Keys.                                                                     *)

\* A row of the key table stays, is created under a token of no other row, or
\* is disabled.
CreatedKey(k) ==
    /\ key[k].status = "none" /\ key'[k] \in Key /\ key'[k].id = k /\ key'[k].status = "active"
    /\ key'[k].token \in {k, Boot} /\ (~pepper => key'[k].hash = "plain")
    /\ \A j \in KeyIds : key[j].status # "none" => key[j].token # key'[k].token

DisabledKey(k) == key[k].status = "active" /\ key'[k] = [key[k] EXCEPT !.status = "disabled"]

KeyMoves ==
    /\ UNCHANGED pepper
    /\ \A k \in KeyIds : key'[k] = key[k] \/ CreatedKey(k) \/ DisabledKey(k)
    /\ \A j, k \in KeyIds : CreatedKey(j) /\ CreatedKey(k) => j = k

\* What such a step does to a row.
LEMMA MoveFacts ==
    ASSUME key \in [KeyIds -> Key], KeyMoves, NEW k \in KeyIds
    PROVE  /\ key'[k] \in Key
           /\ key[k].status = "disabled" => key'[k] = key[k]
           /\ key[k].status = "none" => key'[k] = key[k] \/ CreatedKey(k)
           /\ key[k].status = "active" => key'[k] \in {key[k], [key[k] EXCEPT !.status = "disabled"]}
           /\ key[k].status # "none" =>
                  /\ key'[k].status # "none" /\ key'[k].token = key[k].token /\ key'[k].hash = key[k].hash
                  /\ key'[k].id = key[k].id /\ key'[k].scopes = key[k].scopes /\ key'[k].expires = key[k].expires
<1>1. key[k] \in Key
    OBVIOUS
<1>2. CASE key'[k] = key[k]
    BY Zenon, <1>1, <1>2
<1>3. CASE CreatedKey(k)
    BY Zenon, <1>3 DEF CreatedKey
<1>4. CASE DisabledKey(k)
    BY Zenon, <1>1, <1>4 DEF DisabledKey, Key
<1> QED BY Zenon, <1>2, <1>3, <1>4 DEF KeyMoves

LEMMA MovesKeepKeys ==
    ASSUME key \in [KeyIds -> Key], KeysOK, KeyMoves
    PROVE  KeysOK'
<1>1. UNCHANGED pepper
    BY Zenon DEF KeyMoves
<1>2. ASSUME NEW k \in KeyIds
      PROVE  /\ key'[k].id = k /\ key'[k].token \in {k, Boot}
             /\ ~pepper /\ key'[k].status # "none" => key'[k].hash = "plain"
    <2>1. CASE key'[k] = key[k] \/ CreatedKey(k)
        BY Zenon, <2>1 DEF KeysOK, CreatedKey
    <2>2. CASE key[k].status # "none"
        BY <2>2, MoveFacts DEF KeysOK
    <2> QED BY Zenon, <2>1, <2>2, MoveFacts DEF KeyMoves, DisabledKey
<1>3. ASSUME NEW j \in KeyIds, NEW k \in KeyIds, key'[j].status # "none", key'[k].status # "none",
             key'[j].token = key'[k].token
      PROVE  j = k
    <2>1. \A i \in {j, k} : \/ CreatedKey(i)
                            \/ key[i].status # "none" /\ key'[i].token = key[i].token
        <3>1. \A i \in {j, k} : key[i].status = "none" => CreatedKey(i)
            BY <1>3, MoveFacts
        <3> QED BY Zenon, <3>1, MoveFacts
    <2>2. CASE CreatedKey(j) /\ CreatedKey(k)
        BY Zenon, <2>2 DEF KeyMoves
    <2>3. CASE ~CreatedKey(j) /\ ~CreatedKey(k)
        BY <1>3, <2>1, <2>3 DEF KeysOK
    <2>4. CASE CreatedKey(j) /\ ~CreatedKey(k)
        BY Zenon, <1>3, <2>1, <2>4 DEF CreatedKey
    <2>5. CASE ~CreatedKey(j) /\ CreatedKey(k)
        BY Zenon, <1>3, <2>1, <2>5 DEF CreatedKey
    <2> QED BY Zenon, <2>2, <2>3, <2>4, <2>5
<1> QED BY Zenon, <1>1, <1>2, <1>3 DEF KeysOK

LEMMA MovesKeepDead ==
    ASSUME key \in [KeyIds -> Key], DeadOK, KeyMoves,
           \A t \in dead' \ dead : \E k \in KeyIds : key'[k].status = "disabled" /\ key'[k].token = t
    PROVE  DeadOK'
BY MoveFacts DEF DeadOK

\* Successors stay successors; from may gain the key that is created.
LEMMA MovesKeepHeirs ==
    ASSUME key \in [KeyIds -> Key], HeirsOK, KeyMoves, UNCHANGED from
    PROVE  HeirsOK'
<1>1. ASSUME NEW k \in KeyIds, from[k] # NoKey
      PROVE  /\ from[k] \in KeyIds /\ key'[from[k]].status = "disabled" /\ key'[k].status # "none"
             /\ key'[k].scopes = key'[from[k]].scopes /\ key'[k].expires = key'[from[k]].expires
    <2>1. PICK f \in KeyIds : f = from[k]
        BY Zenon, <1>1 DEF HeirsOK
    <2>2. /\ key[f].status = "disabled" /\ key[k].status # "none"
          /\ key[k].scopes = key[f].scopes /\ key[k].expires = key[f].expires
        BY Zenon, <1>1, <2>1 DEF HeirsOK
    <2>3. key'[f] = key[f]
        BY Zenon, <2>2, MoveFacts
    <2>4. key'[k].status # "none" /\ key'[k].scopes = key[k].scopes /\ key'[k].expires = key[k].expires
        BY Zenon, <2>2, MoveFacts
    <2> QED BY Zenon, <2>1, <2>2, <2>3, <2>4
<1>2. \A j, k \in KeyIds : from[k] # NoKey /\ from[j] = from[k] => j = k
    BY Zenon DEF HeirsOK
<1> QED BY Zenon, <1>1, <1>2 DEF HeirsOK

\* A request that does not move keeps its row.
LEMMA MovesKeepRow ==
    ASSUME key \in [KeyIds -> Key], KeyMoves, NEW p, RowOf(p), AdmittedOf(p),
           pc'[p] = pc[p] /\ req'[p] = req[p] /\ row'[p] = row[p]
    PROVE  RowOf(p)' /\ AdmittedOf(p)'
<1>1. AdmittedOf(p)'
    BY Zenon DEF AdmittedOf
<1>2. ASSUME pc[p] # "idle"
      PROVE  key'[row[p].id] \in {row[p], [row[p] EXCEPT !.status = "disabled"]}
    <2>1. /\ row[p] \in Key /\ row[p].status = "active" /\ row[p].id \in KeyIds
          /\ key[row[p].id] \in {row[p], [row[p] EXCEPT !.status = "disabled"]}
        BY Zenon, <1>2 DEF RowOf, Key
    <2>2. CASE key[row[p].id] = row[p]
        BY Zenon, <2>1, <2>2, MoveFacts
    <2>3. CASE key[row[p].id] = [row[p] EXCEPT !.status = "disabled"]
        <3>1. key[row[p].id].status = "disabled"
            BY Zenon, <2>1, <2>3 DEF Key
        <3> QED BY Zenon, <2>1, <2>3, <3>1, MoveFacts
    <2> QED BY Zenon, <2>1, <2>2, <2>3
<1>3. RowOf(p)'
    BY Zenon, <1>2 DEF RowOf
<1> QED BY Zenon, <1>1, <1>3

\* The table stays as it is.
LEMMA StillMoves ==
    ASSUME UNCHANGED <<key, pepper>>
    PROVE  KeyMoves
<1>1. \A k : ~CreatedKey(k)
    BY Zenon DEF CreatedKey
<1> QED BY Zenon, <1>1 DEF KeyMoves

\* One row is created.
LEMMA CreateMoves ==
    ASSUME key \in [KeyIds -> Key], NEW k \in KeyIds, NEW r \in Key, key[k].status = "none", r.id = k, r.status = "active",
           r.token \in {k, Boot}, ~pepper => r.hash = "plain",
           \A j \in KeyIds : key[j].status # "none" => key[j].token # r.token,
           key' = [key EXCEPT ![k] = r], UNCHANGED pepper
    PROVE  KeyMoves
<1>1. key'[k] = r /\ \A j \in KeyIds \ {k} : key'[j] = key[j]
    OBVIOUS
<1>2. CreatedKey(k)
    BY Zenon, <1>1 DEF CreatedKey
<1>3. \A j \in KeyIds \ {k} : ~CreatedKey(j)
    BY Zenon, <1>1 DEF CreatedKey
<1> QED BY Zenon, <1>1, <1>2, <1>3 DEF KeyMoves

\* One row is disabled.
LEMMA DisableMoves ==
    ASSUME key \in [KeyIds -> Key], NEW k \in KeyIds, key[k].status = "active",
           key' = [key EXCEPT ![k].status = "disabled"], UNCHANGED pepper
    PROVE  KeyMoves /\ key'[k].status = "disabled" /\ key'[k].token = key[k].token
<1>1. key'[k] = [key[k] EXCEPT !.status = "disabled"] /\ \A j \in KeyIds \ {k} : key'[j] = key[j]
    OBVIOUS
<1>2. key[k] \in Key
    OBVIOUS
<1>3. key'[k].status = "disabled" /\ key'[k].token = key[k].token
    BY Zenon, <1>1, <1>2 DEF Key
<1>4. \A j \in KeyIds : ~CreatedKey(j)
    BY Zenon, <1>1 DEF CreatedKey
<1> QED BY Zenon, <1>1, <1>3, <1>4 DEF KeyMoves, DisabledKey

\* One row is disabled and its successor created.
LEMMA RotateMoves ==
    ASSUME key \in [KeyIds -> Key], KeysOK, NEW a \in KeyIds, NEW k \in KeyIds, NEW r \in Key,
           key[a].status = "active", key[k].status = "none", r.id = k, r.status = "active", r.token = k,
           ~pepper => r.hash = "plain",
           key' = [key EXCEPT ![a].status = "disabled", ![k] = r], UNCHANGED pepper
    PROVE  /\ KeyMoves /\ a # k /\ key'[k] = r
           /\ key'[a].status = "disabled" /\ key'[a].token = key[a].token
           /\ key'[a].scopes = key[a].scopes /\ key'[a].expires = key[a].expires
<1>1. a # k /\ key[a] \in Key
    OBVIOUS
<1>2. /\ key'[a] = [key[a] EXCEPT !.status = "disabled"] /\ key'[k] = r
      /\ \A j \in KeyIds \ {a, k} : key'[j] = key[j]
    BY Zenon, <1>1
<1>3. /\ key'[a].status = "disabled" /\ key'[a].token = key[a].token
      /\ key'[a].scopes = key[a].scopes /\ key'[a].expires = key[a].expires
    BY Zenon, <1>1, <1>2 DEF Key
<1>4. \A j \in KeyIds : key[j].status # "none" => key[j].token # k
    BY KeyAssumption DEF KeysOK
<1>5. CreatedKey(k)
    BY Zenon, <1>2, <1>4 DEF CreatedKey
<1>6. \A j \in KeyIds \ {k} : ~CreatedKey(j)
    BY Zenon, <1>1, <1>2 DEF CreatedKey
<1>7. DisabledKey(a)
    BY Zenon, <1>2 DEF DisabledKey
<1> QED BY Zenon, <1>1, <1>2, <1>3, <1>5, <1>6, <1>7 DEF KeyMoves

-----------------------------------------------------------------------------
(* Requests.                                                                 *)

\* The other requests do not move.
OnlyMoves(p) ==
    \A q \in Procs \ {p} : pc'[q] = pc[q] /\ req'[q] = req[q] /\ row'[q] = row[q]

LEMMA FinishFacts ==
    ASSUME FrontTypes, NEW p \in Procs, Finish(p)
    PROVE  FrontTypes' /\ OnlyMoves(p) /\ RowOf(p)' /\ AdmittedOf(p)'
<1>1. FrontTypes'
    BY Zenon DEF FrontTypes, Finish
<1>2. OnlyMoves(p) /\ pc'[p] = "idle"
    BY Zenon DEF FrontTypes, OnlyMoves, Finish
<1>3. RowOf(p)' /\ AdmittedOf(p)'
    BY Zenon, <1>2 DEF RowOf, AdmittedOf
<1> QED BY Zenon, <1>1, <1>2, <1>3

\* A step of request p that moves the key table and leaves from and dead alone.
LEMMA KeyStep ==
    ASSUME Inv, NEW p \in Procs, KeyMoves, OnlyMoves(p), RowOf(p)', AdmittedOf(p)'
    PROVE  /\ KeysOK' /\ RequestsOK'
           /\ UNCHANGED dead => DeadOK'
           /\ UNCHANGED from => HeirsOK'
<1>1. key \in [KeyIds -> Key] /\ KeysOK /\ DeadOK /\ HeirsOK /\ RequestsOK
    BY Zenon DEF Inv, TableTypes, KeyInv
<1>2. KeysOK' /\ (UNCHANGED from => HeirsOK')
    BY Zenon, <1>1, MovesKeepKeys, MovesKeepHeirs
<1>3. UNCHANGED dead => DeadOK'
    BY Zenon, <1>1, MovesKeepDead
<1>4. RequestsOK'
    BY Zenon, <1>1, MovesKeepRow DEF RequestsOK, OnlyMoves
<1> QED BY Zenon, <1>2, <1>3, <1>4

\* The key of a token is read.
LEMMA ReadStep ==
    ASSUME Inv, NEW p \in Procs, NEW t, NEW op \in workload, ReadKey(p, t, op)
    PROVE  FrontTypes' /\ KeyInv' /\ TableTypes'
<1>1. /\ UNCHANGED <<clock, key, from, dead, pepper, up, starts, workload>>
      /\ pc' = [pc EXCEPT ![p] = "touch"] /\ req' = [req EXCEPT ![p] = op]
    BY Zenon DEF ReadKey, keys
<1>2. PICK k \in KeyIds : key[k].status = "active" /\ row' = [row EXCEPT ![p] = key[k]]
    BY Zenon DEF ReadKey, ByToken, ByHash, Present
<1>3. key[k] \in Key /\ key[k].id = k /\ op \in KeyOps \cup ResponderOps
    BY Zenon, KeyAssumption DEF Inv, TableTypes, KeyInv, KeysOK, KeyOps, ResponderOps
<1>4. FrontTypes'
    BY Zenon, <1>1, <1>2, <1>3 DEF Inv, FrontTypes
<1>5. OnlyMoves(p) /\ pc'[p] = "touch" /\ row'[p] = key[k]
    BY Zenon, <1>1, <1>2 DEF Inv, FrontTypes, OnlyMoves
<1>6. RowOf(p)' /\ AdmittedOf(p)'
    BY Zenon, <1>1, <1>2, <1>3, <1>5 DEF RowOf, AdmittedOf
<1>7. KeyInv'
    BY Zenon, <1>1, <1>5, <1>6, StillMoves, KeyStep DEF KeyInv
<1> QED BY Zenon, <1>1, <1>4, <1>7 DEF Inv, TableTypes

\* The key is written back: as the row was read and the key is still active, the
\* table stays as it is.
LEMMA TouchStep ==
    ASSUME Inv, NEW p \in Procs, TouchKey(p)
    PROVE  UNCHANGED key /\ FrontTypes' /\ KeyInv' /\ TableTypes'
<1>1. pc[p] = "touch" /\ UNCHANGED <<clock, from, dead, pepper, up, starts, workload>> /\ FrontTypes
    BY Zenon DEF TouchKey, Inv
<1>2. /\ row[p] \in Key /\ row[p].status = "active" /\ row[p].id \in KeyIds
      /\ key[row[p].id] \in {row[p], [row[p] EXCEPT !.status = "disabled"]}
    BY Zenon, <1>1 DEF Inv, KeyInv, RequestsOK, RowOf, Key
<1>3. UNCHANGED key
    <2>1. key \in [KeyIds -> Key]
        BY Zenon DEF Inv, TableTypes
    <2>2. CASE key[row[p].id].status = "active"
        <3>1. key[row[p].id] = row[p]
            BY Zenon, <1>2, <2>2 DEF Key
        <3> QED BY Zenon, <1>2, <2>1, <2>2, <3>1 DEF TouchKey, UpdateKeyIfActive
    <2>3. CASE key[row[p].id].status # "active"
        BY Zenon, <2>3 DEF TouchKey, UpdateKeyIfActive
    <2> QED BY Zenon, <2>2, <2>3
<1>4. FrontTypes' /\ OnlyMoves(p) /\ RowOf(p)' /\ AdmittedOf(p)'
    <2>1. CASE Finish(p)
        BY Zenon, <1>1, <2>1, FinishFacts
    <2>2. CASE ~Finish(p)
        <3>1. pc' = [pc EXCEPT ![p] = "handle"] /\ UNCHANGED <<req, row>> /\ Allows(row[p].scopes, Required(req[p]))
            BY Zenon, <2>2 DEF TouchKey
        <3>2. FrontTypes' /\ OnlyMoves(p) /\ pc'[p] = "handle"
            BY Zenon, <1>1, <3>1 DEF FrontTypes, OnlyMoves
        <3>3. req[p] \in KeyOps => "operator" \in row[p].scopes
            BY Zenon, <3>1 DEF Allows, Required
        <3> QED BY Zenon, <1>2, <1>3, <3>1, <3>2, <3>3 DEF RowOf, AdmittedOf
    <2> QED BY Zenon, <2>1, <2>2
<1>5. KeyInv'
    BY Zenon, <1>1, <1>3, <1>4, StillMoves, KeyStep DEF KeyInv
<1> QED BY Zenon, <1>1, <1>3, <1>4, <1>5 DEF Inv, TableTypes

\* A key is created.
LEMMA CreateStep ==
    ASSUME Inv, NEW p \in Procs, NEW k \in KeyIds, NEW scopes \in Grants, NEW expires \in 0..MaxTime,
           CreateKey(p, k, scopes, expires)
    PROVE  FrontTypes' /\ KeyInv' /\ TableTypes'
<1>1. /\ UNCHANGED <<clock, from, dead, pepper, up, starts, workload>> /\ Finish(p) /\ FrontTypes
      /\ key \in [KeyIds -> Key] /\ KeysOK /\ pepper \in BOOLEAN
    BY Zenon DEF CreateKey, Inv, TableTypes, KeyInv
<1>2. PICK r : r = [id |-> k, status |-> "active", token |-> k, hash |-> Hash, scopes |-> scopes, expires |-> expires]
    OBVIOUS
<1>3. Hash \in {"plain", "hmac"} /\ (~pepper => Hash = "plain")
    BY Zenon DEF Hash
<1>4. r \in Key /\ r.id = k /\ r.status = "active" /\ r.token = k /\ r.hash = Hash
    BY Zenon, <1>2, <1>3, KeyAssumption DEF Key, Scopes
<1>5. key[k].status = "none" /\ key' = [key EXCEPT ![k] = r]
    BY Zenon, <1>2 DEF CreateKey, Present
<1>6. \A j \in KeyIds : key[j].status # "none" => key[j].token # r.token
    BY <1>1, <1>4, <1>5, KeyAssumption DEF KeysOK
<1>7. KeyMoves
    BY Zenon, <1>1, <1>3, <1>4, <1>5, <1>6, CreateMoves
<1>8. FrontTypes' /\ OnlyMoves(p) /\ RowOf(p)' /\ AdmittedOf(p)'
    BY Zenon, <1>1, FinishFacts
<1>9. KeyInv'
    BY Zenon, <1>1, <1>7, <1>8, KeyStep DEF KeyInv
<1>10. TableTypes'
    BY Zenon, <1>1, <1>4, <1>5 DEF Inv, TableTypes
<1> QED BY Zenon, <1>8, <1>9, <1>10

\* A key is disabled.
LEMMA DisableKeyStep ==
    ASSUME Inv, NEW p \in Procs, NEW k \in KeyIds, DisableKey(p, k)
    PROVE  FrontTypes' /\ KeyInv' /\ TableTypes'
<1>1. /\ UNCHANGED <<clock, from, pepper, up, starts, workload>> /\ Finish(p) /\ FrontTypes
      /\ key[k].status = "active" /\ key' = [key EXCEPT ![k].status = "disabled"]
      /\ dead' = dead \cup {key[k].token} /\ key \in [KeyIds -> Key] /\ DeadOK
    BY Zenon DEF DisableKey, UpdateKeyIfActive, Inv, TableTypes, KeyInv
<1>2. KeyMoves /\ key'[k].status = "disabled" /\ key'[k].token = key[k].token
    BY Zenon, <1>1, DisableMoves
<1>3. FrontTypes' /\ OnlyMoves(p) /\ RowOf(p)' /\ AdmittedOf(p)'
    BY Zenon, <1>1, FinishFacts
<1>4. KeysOK' /\ RequestsOK' /\ HeirsOK'
    BY Zenon, <1>1, <1>2, <1>3, KeyStep
<1>5. DeadOK'
    BY Zenon, <1>1, <1>2, MovesKeepDead
<1>6. TableTypes'
    <2>1. key' \in [KeyIds -> Key]
        BY <1>1 DEF Key
    <2>2. key[k].token \in Tokens
        BY Zenon, <1>1 DEF Key, Tokens
    <2> QED BY Zenon, <1>1, <2>1, <2>2 DEF Inv, TableTypes
<1> QED BY Zenon, <1>3, <1>4, <1>5, <1>6 DEF KeyInv

\* A rotation reads the key it replaces.
LEMMA RotateReadStep ==
    ASSUME Inv, NEW p \in Procs, NEW k \in KeyIds, RotateRead(p, k)
    PROVE  FrontTypes' /\ KeyInv' /\ TableTypes'
<1>1. /\ UNCHANGED <<clock, key, from, dead, pepper, up, starts, workload, req>> /\ req[p] = "rotate"
      /\ pc' = [pc EXCEPT ![p] = "rotate"] /\ row' = [row EXCEPT ![p] = key[k]] /\ key[k].status = "active"
    BY Zenon DEF RotateRead, keys
<1>2. key[k] \in Key /\ key[k].id = k /\ FrontTypes
    BY Zenon DEF Inv, TableTypes, KeyInv, KeysOK
<1>3. FrontTypes' /\ OnlyMoves(p) /\ pc'[p] = "rotate" /\ row'[p] = key[k]
    BY Zenon, <1>1, <1>2 DEF FrontTypes, OnlyMoves
<1>4. RowOf(p)' /\ AdmittedOf(p)'
    BY Zenon, <1>1, <1>2, <1>3 DEF RowOf, AdmittedOf
<1>5. KeyInv'
    BY Zenon, <1>1, <1>3, <1>4, StillMoves, KeyStep DEF KeyInv
<1> QED BY Zenon, <1>1, <1>3, <1>5 DEF Inv, TableTypes

\* A rotation replaces the key, if it is still active.
LEMMA RotateWriteStep ==
    ASSUME Inv, NEW p \in Procs, NEW k \in KeyIds, RotateWrite(p, k)
    PROVE  FrontTypes' /\ KeyInv' /\ TableTypes'
<1>1. /\ UNCHANGED <<clock, pepper, up, starts, workload>> /\ Finish(p) /\ pc[p] = "rotate" /\ key[k].status = "none"
      /\ key \in [KeyIds -> Key] /\ pepper \in BOOLEAN /\ FrontTypes /\ KeysOK /\ DeadOK /\ HeirsOK
    BY Zenon DEF RotateWrite, Present, Inv, TableTypes, KeyInv
<1>2. FrontTypes' /\ OnlyMoves(p) /\ RowOf(p)' /\ AdmittedOf(p)'
    BY Zenon, <1>1, FinishFacts
<1>3. CASE UNCHANGED keys
    <2>1. UNCHANGED <<key, from, dead>>
        BY Zenon, <1>3 DEF keys
    <2>2. KeyInv'
        BY Zenon, <1>1, <1>2, <2>1, StillMoves, KeyStep DEF KeyInv
    <2> QED BY Zenon, <1>1, <1>2, <2>1, <2>2 DEF Inv, TableTypes
<1>4. CASE ~UNCHANGED keys
    <2>1. PICK a \in KeyIds : a = row[p].id
        BY Zenon, <1>1 DEF Inv, KeyInv, RequestsOK, RowOf, Key
    <2>2. /\ key[a].status = "active" /\ key' = [key EXCEPT ![a].status = "disabled", ![k] = Successor(row[p], k)]
          /\ from' = [from EXCEPT ![k] = a] /\ dead' = dead \cup {row[p].token}
        BY Zenon, <1>4, <2>1 DEF RotateWrite, UpdateKeyIfActive
    <2>3. key[a] = row[p] /\ row[p] \in Key
        <3>1. row[p] \in Key /\ key[a] \in {row[p], [row[p] EXCEPT !.status = "disabled"]}
            BY Zenon, <1>1, <2>1 DEF Inv, KeyInv, RequestsOK, RowOf
        <3> QED BY Zenon, <2>2, <3>1 DEF Key
    <2>4. PICK r : r = Successor(row[p], k)
        OBVIOUS
    <2>5. Hash \in {"plain", "hmac"} /\ (~pepper => Hash = "plain")
        BY Zenon DEF Hash
    <2>6. /\ r \in Key /\ r.id = k /\ r.status = "active" /\ r.token = k /\ (~pepper => r.hash = "plain")
          /\ r.scopes = key[a].scopes /\ r.expires = key[a].expires
        BY Zenon, <2>3, <2>4, <2>5 DEF Successor, Key
    <2>7. key' = [key EXCEPT ![a].status = "disabled", ![k] = r]
        BY Zenon, <2>2, <2>4
    <2>8. /\ KeyMoves /\ a # k /\ key'[k] = r
          /\ key'[a].status = "disabled" /\ key'[a].token = key[a].token
          /\ key'[a].scopes = key[a].scopes /\ key'[a].expires = key[a].expires
        BY <1>1, <2>2, <2>6, <2>7, RotateMoves
    <2>9. KeysOK' /\ RequestsOK'
        BY Zenon, <1>2, <2>8, KeyStep
    <2>10. DeadOK'
        BY Zenon, <1>1, <2>2, <2>3, <2>8, MovesKeepDead
    <2>11. \A j \in KeyIds : from'[j] = IF j = k THEN a ELSE from[j]
        BY Zenon, <2>2 DEF Inv, TableTypes
    <2>12. \A j \in KeyIds : from[j] # a
        BY <1>1, <2>2, KeyAssumption DEF HeirsOK
    <2>13. HeirsOK'
        <3>1. ASSUME NEW j \in KeyIds, j # k, from[j] # NoKey
              PROVE  /\ from[j] \in KeyIds /\ key'[from[j]].status = "disabled" /\ key'[j].status # "none"
                     /\ key'[j].scopes = key'[from[j]].scopes /\ key'[j].expires = key'[from[j]].expires
            <4>1. PICK f \in KeyIds : f = from[j]
                BY Zenon, <1>1, <3>1 DEF HeirsOK
            <4>2. /\ key[f].status = "disabled" /\ key[j].status # "none"
                  /\ key[j].scopes = key[f].scopes /\ key[j].expires = key[f].expires
                BY Zenon, <1>1, <3>1, <4>1 DEF HeirsOK
            <4>3. key'[f] = key[f]
                BY Zenon, <1>1, <2>8, <4>2, MoveFacts
            <4>4. key'[j].status # "none" /\ key'[j].scopes = key[j].scopes /\ key'[j].expires = key[j].expires
                BY Zenon, <1>1, <2>8, <4>2, MoveFacts
            <4> QED BY Zenon, <4>1, <4>2, <4>3, <4>4
        <3>2. key'[k].status # "none" /\ key'[k].scopes = key'[a].scopes /\ key'[k].expires = key'[a].expires
            BY Zenon, <2>6, <2>8
        <3>3. ASSUME NEW j \in KeyIds, NEW i \in KeyIds, from'[i] # NoKey, from'[j] = from'[i]
              PROVE  j = i
            BY <1>1, <2>11, <2>12, <3>3 DEF HeirsOK
        <3> QED BY <2>8, <2>11, <3>1, <3>2, <3>3 DEF HeirsOK
    <2>14. TableTypes'
        <3>1. key' \in [KeyIds -> Key]
            BY <1>1, <2>6, <2>7 DEF Key
        <3>2. row[p].token \in Tokens
            BY Zenon, <2>3 DEF Key, Tokens
        <3> QED BY Zenon, <1>1, <2>2, <3>1, <3>2 DEF Inv, TableTypes
    <2> QED BY Zenon, <1>2, <2>9, <2>10, <2>13, <2>14 DEF KeyInv
<1> QED BY Zenon, <1>3, <1>4

\* A step that leaves the key table alone and ends, or only advances, requests.
LEMMA QuietStep ==
    ASSUME Inv, NEW p \in Procs, UNCHANGED <<clock, key, from, dead, pepper, up, starts, workload>>,
           \/ Finish(p)
           \/ pc' = [pc EXCEPT ![p] = "responder"] /\ UNCHANGED <<req, row>> /\ pc[p] = "handle"
           \/ UNCHANGED <<pc, req, row>>
    PROVE  FrontTypes' /\ KeyInv' /\ TableTypes'
<1>1. FrontTypes /\ RowOf(p) /\ AdmittedOf(p)
    BY Zenon DEF Inv, KeyInv, RequestsOK
<1>2. FrontTypes' /\ OnlyMoves(p) /\ RowOf(p)' /\ AdmittedOf(p)'
    <2>1. CASE Finish(p)
        BY Zenon, <1>1, <2>1, FinishFacts
    <2>2. CASE pc' = [pc EXCEPT ![p] = "responder"] /\ UNCHANGED <<req, row>> /\ pc[p] = "handle"
        <3>1. FrontTypes' /\ OnlyMoves(p) /\ pc'[p] = "responder"
            BY Zenon, <1>1, <2>2 DEF FrontTypes, OnlyMoves
        <3> QED BY Zenon, <1>1, <2>2, <3>1 DEF RowOf, AdmittedOf
    <2>3. CASE UNCHANGED <<pc, req, row>>
        BY Zenon, <1>1, <2>3 DEF FrontTypes, OnlyMoves, RowOf, AdmittedOf
    <2> QED BY Zenon, <2>1, <2>2, <2>3
<1>3. KeyInv'
    BY Zenon, <1>2, StillMoves, KeyStep DEF KeyInv
<1> QED BY Zenon, <1>2, <1>3 DEF Inv, TableTypes

\* The bootstrap key is ensured.
LEMMA EnsureStep ==
    ASSUME Inv, EnsureAPIKey
    PROVE  FrontTypes' /\ KeyInv' /\ TableTypes'
<1>1. /\ UNCHANGED <<clock, from, dead, pepper, starts, workload, pc, req, row>> /\ up' \in {"up", "down"}
      /\ key \in [KeyIds -> Key] /\ pepper \in BOOLEAN /\ FrontTypes /\ KeysOK /\ DeadOK /\ HeirsOK /\ RequestsOK
    BY Zenon DEF EnsureAPIKey, keys, front, Inv, TableTypes, KeyInv
<1>2. KeyMoves /\ key' \in [KeyIds -> Key]
    <2>1. CASE UNCHANGED key
        BY Zenon, <1>1, <2>1, StillMoves
    <2>2. CASE ~UNCHANGED key
        <3>1. PICK k \in KeyIds \ Present :
                 /\ ByToken(Boot) = {}
                 /\ key' = [key EXCEPT ![k] = [id |-> k, status |-> "active", token |-> Boot, hash |-> Hash,
                                               scopes |-> {"operator"}, expires |-> 0]]
            BY Zenon, <2>2 DEF EnsureAPIKey, keys
        <3>2. PICK r : r = [id |-> k, status |-> "active", token |-> Boot, hash |-> Hash,
                            scopes |-> {"operator"}, expires |-> 0]
            OBVIOUS
        <3>3. Hash \in {"plain", "hmac"} /\ (~pepper => Hash = "plain")
            BY Zenon DEF Hash
        <3>4. r \in Key /\ r.id = k /\ r.status = "active" /\ r.token = Boot /\ r.hash = Hash
            BY <3>2, <3>3, KeyAssumption DEF Key, Scopes
        <3>5. key[k].status = "none" /\ key' = [key EXCEPT ![k] = r]
            BY Zenon, <3>1, <3>2 DEF Present
        <3>6. ASSUME NEW j \in KeyIds, key[j].status # "none", key[j].token = Boot
              PROVE  FALSE
            <4>1. key[j].hash \in {"plain", "hmac"}
                BY Zenon, <1>1 DEF Key
            <4>2. j \in ByHash(Boot, key[j].hash)
                BY Zenon, <3>6 DEF ByHash, Present
            <4>3. CASE pepper
                BY Zenon, <3>1, <4>1, <4>2, <4>3 DEF ByToken
            <4>4. CASE ~pepper
                <5>1. key[j].hash = "plain"
                    BY Zenon, <1>1, <3>6, <4>4 DEF KeysOK
                <5> QED BY Zenon, <3>1, <4>2, <4>4, <5>1 DEF ByToken
            <4> QED BY Zenon, <4>3, <4>4
        <3>7. KeyMoves
            BY Zenon, <1>1, <3>3, <3>4, <3>5, <3>6, CreateMoves
        <3> QED BY Zenon, <1>1, <3>4, <3>5, <3>7
    <2> QED BY Zenon, <2>1, <2>2
<1>3. KeysOK' /\ DeadOK' /\ HeirsOK'
    BY Zenon, <1>1, <1>2, MovesKeepKeys, MovesKeepDead, MovesKeepHeirs
<1>4. RequestsOK'
    BY Zenon, <1>1, <1>2, MovesKeepRow DEF RequestsOK
<1>5. FrontTypes' /\ TableTypes'
    BY Zenon, <1>1, <1>2 DEF Inv, FrontTypes, TableTypes
<1> QED BY Zenon, <1>3, <1>4, <1>5 DEF KeyInv

\* Starts, stops and the clock.
LEMMA ServiceStep ==
    ASSUME Inv, Start \/ Stop \/ Tick
    PROVE  FrontTypes' /\ KeyInv' /\ TableTypes' /\ UNCHANGED key
<1>1. UNCHANGED <<key, from, dead, workload>>
    BY Zenon DEF Start, Stop, Tick, keys
<1>2. KeysOK' /\ DeadOK' /\ HeirsOK'
    <2>1. pepper' \in {pepper, TRUE}
        BY Zenon DEF Start, Stop, Tick
    <2>2. ~pepper' => ~pepper
        BY <2>1, Zenon
    <2>3. KeysOK'
        BY Zenon, <1>1, <2>2 DEF Inv, KeyInv, KeysOK
    <2> QED BY Zenon, <1>1, <2>3 DEF Inv, KeyInv, DeadOK, HeirsOK
<1>3. TableTypes'
    <2>1. pepper' \in BOOLEAN
        <3>1. pepper \in BOOLEAN
            BY Zenon DEF Inv, TableTypes
        <3>2. pepper' \in {pepper, TRUE}
            BY Zenon DEF Start, Stop, Tick
        <3> QED BY <3>1, <3>2, Zenon
    <2>2. clock' \in 0..MaxTime /\ starts' \in 0..MaxStarts /\ up' \in {"down", "ensure", "up"}
        <3>1. clock \in 0..MaxTime /\ starts \in 0..MaxStarts /\ up \in {"down", "ensure", "up"}
            BY Zenon DEF Inv, TableTypes
        <3>2. clock' = clock \/ (clock < MaxTime /\ clock' = clock + 1)
            BY Zenon DEF Start, Stop, Tick
        <3>3. starts' = starts \/ (starts < MaxStarts /\ starts' = starts + 1)
            BY Zenon DEF Start, Stop, Tick
        <3>4. up' \in {"down", "ensure", up}
            BY Zenon DEF Start, Stop, Tick
        <3> QED BY <3>1, <3>2, <3>3, <3>4, KeyAssumption
    <2> QED BY Zenon, <1>1, <2>1, <2>2 DEF Inv, TableTypes
<1>4. FrontTypes' /\ RequestsOK'
    <2>1. CASE Stop
        BY Zenon, <2>1 DEF Stop, FrontTypes, RequestsOK, RowOf, AdmittedOf
    <2>2. CASE Start \/ Tick
        BY Zenon, <1>1, <2>2 DEF Start, Tick, front, Inv, KeyInv, FrontTypes, RequestsOK, RowOf, AdmittedOf
    <2> QED BY Zenon, <2>1, <2>2
<1> QED BY Zenon, <1>1, <1>2, <1>3, <1>4 DEF KeyInv

\* Handlers of responders leave the keys alone.
LEMMA ResponderQuiet ==
    ASSUME Inv, NEW p \in Procs,
           WorkOnResponder(p) \/ Fail(p) \/ \E r \in ResponderIds : HandleResponder(p, r) \/ HandleDisableResponder(p, r)
    PROVE  FrontTypes' /\ KeyInv' /\ TableTypes' /\ UNCHANGED key
<1>1. UNCHANGED <<clock, key, from, dead, pepper, up, starts, workload>>
    BY Zenon DEF WorkOnResponder, Fail, HandleResponder, HandleDisableResponder, keys
<1>2. \/ Finish(p)
      \/ pc' = [pc EXCEPT ![p] = "responder"] /\ UNCHANGED <<req, row>> /\ pc[p] = "handle"
      \/ UNCHANGED <<pc, req, row>>
    BY Zenon DEF WorkOnResponder, Fail, HandleResponder, HandleDisableResponder, front
<1> QED BY Zenon, <1>1, <1>2, QuietStep

\* Who may change the key table.
MayChangeKeys ==
    key' # key => \/ up = "ensure"
                  \/ \E p \in Procs : req[p] \in KeyOps /\ (pc[p] = "rotate" \/ "operator" \in row[p].scopes)

LEMMA KeyNext ==
    ASSUME Inv, [Next]_vars
    PROVE  FrontTypes' /\ KeyInv' /\ TableTypes' /\ MayChangeKeys
<1>1. CASE UNCHANGED vars
    <2>1. UNCHANGED <<clock, key, from, dead, pepper, up, starts, workload, pc, req, row>>
        BY Zenon, <1>1 DEF vars, keys, front
    <2>2. FrontTypes' /\ TableTypes' /\ MayChangeKeys
        BY Zenon, <2>1 DEF Inv, FrontTypes, TableTypes, MayChangeKeys
    <2>3. KeyInv'
        BY <2>1 DEF Inv, KeyInv, KeysOK, DeadOK, HeirsOK, RequestsOK, RowOf, AdmittedOf
    <2> QED BY Zenon, <2>2, <2>3
<1>2. CASE Start \/ Stop \/ Tick
    BY Zenon, <1>2, ServiceStep DEF MayChangeKeys
<1>3. CASE EnsureAPIKey
    BY Zenon, <1>3, EnsureStep DEF MayChangeKeys, EnsureAPIKey
<1>4. ASSUME NEW p \in Procs, TouchKey(p)
      PROVE  FrontTypes' /\ KeyInv' /\ TableTypes' /\ MayChangeKeys
    BY Zenon, <1>4, TouchStep DEF MayChangeKeys
<1>5. ASSUME NEW p \in Procs, NEW t \in Tokens, NEW op \in workload, ReadKey(p, t, op)
      PROVE  FrontTypes' /\ KeyInv' /\ TableTypes' /\ MayChangeKeys
    <2>1. UNCHANGED key
        BY Zenon, <1>5 DEF ReadKey, keys
    <2> QED BY Zenon, <1>5, <2>1, ReadStep DEF MayChangeKeys
<1>6. ASSUME NEW p \in Procs,
             WorkOnResponder(p) \/ Fail(p) \/ \E r \in ResponderIds : HandleResponder(p, r) \/ HandleDisableResponder(p, r)
      PROVE  FrontTypes' /\ KeyInv' /\ TableTypes' /\ MayChangeKeys
    BY Zenon, <1>6, ResponderQuiet DEF MayChangeKeys
<1>7. ASSUME NEW p \in Procs, pc[p] = "handle" \/ pc[p] = "rotate", req[p] \in KeyOps
      PROVE  MayChangeKeys
    BY Zenon, <1>7 DEF MayChangeKeys, Inv, KeyInv, RequestsOK, AdmittedOf
<1>8. ASSUME NEW p \in Procs, NEW k \in KeyIds, DisableKey(p, k) \/ RotateRead(p, k)
      PROVE  FrontTypes' /\ KeyInv' /\ TableTypes' /\ MayChangeKeys
    <2>1. pc[p] = "handle" /\ req[p] \in KeyOps
        BY Zenon, <1>8 DEF DisableKey, RotateRead, KeyOps
    <2> QED BY Zenon, <1>7, <1>8, <2>1, DisableKeyStep, RotateReadStep
<1>9. ASSUME NEW p \in Procs, NEW k \in KeyIds, RotateWrite(p, k)
      PROVE  FrontTypes' /\ KeyInv' /\ TableTypes' /\ MayChangeKeys
    <2>1. pc[p] = "rotate" /\ req[p] \in KeyOps
        BY Zenon, <1>9 DEF RotateWrite, KeyOps, Inv, KeyInv, RequestsOK, AdmittedOf
    <2> QED BY Zenon, <1>7, <1>9, <2>1, RotateWriteStep
<1>10. ASSUME NEW p \in Procs, NEW k \in KeyIds, NEW scopes \in Grants, NEW expires \in 0..MaxTime,
              CreateKey(p, k, scopes, expires)
       PROVE  FrontTypes' /\ KeyInv' /\ TableTypes' /\ MayChangeKeys
    <2>1. pc[p] = "handle" /\ req[p] \in KeyOps
        BY Zenon, <1>10 DEF CreateKey, KeyOps
    <2> QED BY Zenon, <1>7, <1>10, <2>1, CreateStep
<1> QED BY Zenon, <1>1, <1>2, <1>3, <1>4, <1>5, <1>6, <1>8, <1>9, <1>10 DEF Next

-----------------------------------------------------------------------------
(* Theorems.                                                                 *)

LEMMA InitInv ==
    ASSUME Init
    PROVE  Inv
<1>1. /\ clock = 0 /\ key = [k \in KeyIds |-> NoRow(k)] /\ pepper = FALSE /\ up = "down" /\ starts = 0
      /\ workload \in Workloads /\ from = [k \in KeyIds |-> NoKey] /\ dead = {}
      /\ pc = [p \in Procs |-> "idle"] /\ req = [p \in Procs |-> "none"] /\ row = [p \in Procs |-> NoKey]
    BY Zenon DEF Init
<1>2. \A k \in KeyIds : NoRow(k) \in Key
    BY KeyAssumption DEF NoRow, Key, Scopes
<1>3. TableTypes
    <2>1. key \in [KeyIds -> Key] /\ from \in [KeyIds -> KeyIds \cup {NoKey}] /\ dead \subseteq Tokens
        BY Zenon, <1>1, <1>2
    <2>2. clock \in 0..MaxTime /\ starts \in 0..MaxStarts
        BY <1>1, KeyAssumption
    <2>3. pepper \in BOOLEAN /\ up \in {"down", "ensure", "up"} /\ workload \in Workloads
        BY Zenon, <1>1
    <2> QED BY Zenon, <2>1, <2>2, <2>3 DEF TableTypes
<1>4. KeysOK
    <2>1. \A k \in KeyIds : key[k].id = k /\ key[k].token = k /\ key[k].status = "none"
        BY Zenon, <1>1 DEF NoRow
    <2> QED BY Zenon, <2>1 DEF KeysOK
<1>5. DeadOK /\ HeirsOK /\ RequestsOK /\ FrontTypes
    BY Zenon, <1>1 DEF DeadOK, HeirsOK, RequestsOK, RowOf, AdmittedOf, FrontTypes
<1>6. ResponderInv
    BY Zenon DEF Init, RespondersInit, ResponderInv, RespondersTypeOK, WorkersOK, OneActiveResponder, Active
<1> QED BY Zenon, <1>3, <1>4, <1>5, <1>6 DEF Inv, KeyInv

LEMMA InvStep ==
    ASSUME Inv, [Next]_vars
    PROVE  Inv'
BY Zenon, KeyNext, ResponderNext DEF Inv

\* The strengthened invariant holds in every behaviour.
THEOREM Invariance == Spec => []Inv
BY InitInv, InvStep, PTL DEF Spec

\* Every variable keeps its type (AuthenticateAPIKey writes back the row it read).
THEOREM KeysTypeCorrect == Spec => []TypeOK
<1>1. Inv => TypeOK
    BY Zenon DEF Inv, TypeOK, TableTypes, FrontTypes, ResponderInv
<1> QED BY <1>1, Invariance, PTL

\* A token whose key was disabled or rotated away is never again that of an
\* active key, whatever pepper later starts bring (getAPIKeyByToken, EnsureAPIKey).
THEOREM DeadTokensStayDead == Spec => []DeadTokensRefused
<1>1. Inv => DeadTokensRefused
    <2> SUFFICES ASSUME Inv, NEW t \in dead, NEW k \in ByToken(t)
                 PROVE  key[k].status # "active"
        BY Zenon DEF DeadTokensRefused
    <2>1. k \in KeyIds /\ key[k].status # "none" /\ key[k].token = t
        BY Zenon DEF ByToken, ByHash, Present
    <2>2. PICK j \in KeyIds : key[j].status = "disabled" /\ key[j].token = t
        BY Zenon DEF Inv, KeyInv, DeadOK
    <2>3. j = k
        BY Zenon, <2>1, <2>2 DEF Inv, KeyInv, KeysOK
    <2> QED BY Zenon, <2>2, <2>3
<1> QED BY <1>1, Invariance, PTL

\* A key is rotated at most once and its successor has exactly its rights
\* (RotateAPIKey disables the old key only if it is still active).
THEOREM RotationsExclude == Spec => []RotationExclusive
<1>1. Inv => RotationExclusive
    BY Zenon DEF Inv, KeyInv, HeirsOK, RotationExclusive
<1> QED BY <1>1, Invariance, PTL

\* Only starts and requests of operators change the key table
\* (requiredScopeForRequest, apiKeyAllowsScope).
THEOREM OnlyOperatorsManageKeys == Spec => OperatorsManageKeys
<1>1. Inv /\ [Next]_vars =>
        [key' # key => \/ up = "ensure"
                       \/ \E p \in Procs : /\ req[p] \in KeyOps
                                           /\ pc[p] = "rotate" \/ "operator" \in row[p].scopes]_vars
    BY Zenon, KeyNext DEF MayChangeKeys
<1> QED BY <1>1, Invariance, PTL DEF Spec, OperatorsManageKeys

\* An issuer never has two active responders (CreateOCSPResponder,
\* RotateOCSPResponder and the unique index behind them).
THEOREM AtMostOneResponder == Spec => []OneActiveResponder
<1>1. Inv => OneActiveResponder
    BY Zenon DEF Inv, ResponderInv
<1> QED BY <1>1, Invariance, PTL

\* A rotation never takes the last responder away (RotateOCSPResponder).
THEOREM RotationsLeaveNoGap == Spec => RotationWithoutGap
<1>1. Inv /\ [Next]_vars =>
        [Active # {} => \/ Active' # {}
                        \/ \E p \in Procs : pc[p] = "handle" /\ req[p] = "disable-responder"]_vars
    BY Zenon, ResponderNext DEF Inv
<1> QED BY <1>1, Invariance, PTL DEF Spec, RotationWithoutGap

-----------------------------------------------------------------------------
(* Startup, with the processes and variables of its own: what it takes until *)
(* a replica serves, the first key among it.                                 *)

(* The inductive invariant.                                                  *)

PastMigration == {"ensure", "insert", "defaults", "issuer", "listen", "serving", "draining"}

\* A migration runs alone.
LocksOK ==
    /\ \A r \in Replicas : phase[r] \in {"script", "compat"} <=> r \in locked
    /\ \A q, r \in locked : q = r

\* What the running migration has done so far to the database it found.
WorkOf(r) ==
    /\ phase[r] = "script" => work.schema = schema /\ schema = legacy /\ migration = NoMigration
    /\ phase[r] = "compat" =>
          \/ work.schema = Whole /\ schema = Whole /\ Applied(migration, build[r])
          \/ /\ work.schema = ExecuteAll(legacy, InitialScript) /\ work.schema # Failed
             /\ schema = legacy /\ migration = NoMigration

\* A process past the migration finds the row of its build.
ServedOf(r) == phase[r] \in PastMigration => Applied(migration, build[r])

MigrationInv == MigrationAllOrNothing /\ LocksOK /\ \A r \in Replicas : WorkOf(r) /\ ServedOf(r)

\* A process that runs was started with a valid configuration.
ConfOf(r) == phase[r] # "down" => Valid(conf[r])

\* A process that has written its key serves the issuer it made of it.
KeyOf(r) ==
    /\ phase[r] = "issuer" => conf[r].defaults /\ issuer[r] = keyFile[r] /\ issuer[r] \in 1..lastKey
    /\ phase[r] \in {"listen", "serving", "draining"} /\ conf[r].defaults =>
          issuer[r] \in issuers /\ keyFile[r] = issuer[r]

DefaultsInv ==
    /\ \A r \in Replicas : ConfOf(r) /\ KeyOf(r)
    /\ issuers # {} => \E q \in Replicas : conf[q].defaults

DatabaseTypes ==
    /\ legacy \in LegacySchemas
    /\ schema \subseteq Object
    /\ migration \in [build : Builds \cup {NoBuild}, dirty : BOOLEAN]
    /\ locked \subseteq Replicas
    /\ work \in [schema : SUBSET Object, migration : [build : Builds \cup {NoBuild}, dirty : BOOLEAN]]
    /\ build \in [Replicas -> Builds]

Labels == {"down", "migrate", "script", "compat"} \cup PastMigration

ProcessTypes ==
    /\ bootKey \in BOOLEAN
    /\ lastKey \in Nat
    /\ issuers \subseteq 1..lastKey
    /\ keyFile \in [Replicas -> 0..lastKey]
    /\ phase \in [Replicas -> Labels]
    /\ conf \in [Replicas -> Configs]
    /\ issuer \in [Replicas -> 0..lastKey]
    /\ requests \in [Replicas -> {0, 1}]
    /\ launches \in [Replicas -> 0..MaxLaunches]

StartInv == DatabaseTypes /\ ProcessTypes /\ MigrationInv /\ DefaultsInv

-----------------------------------------------------------------------------
(* The database.                                                             *)

LEMMA WholeFacts ==
    /\ Whole \subseteq Object /\ NoMigration.build = NoBuild /\ NoMigration.dirty = FALSE
    /\ NoMigration \in [build : Builds \cup {NoBuild}, dirty : BOOLEAN]
    /\ \A s \in LegacySchemas : s \subseteq Object
BY Zenon DEF Whole, NoMigration, LegacySchemas, Object

\* Only process r moves, and not into or out of a migration.
LEMMA QuietKeepsMigration ==
    ASSUME StartInv, NEW r \in Replicas, NEW l \in Labels,
           phase' = [phase EXCEPT ![r] = l], UNCHANGED <<legacy, schema, migration, locked, work, build>>,
           phase[r] \notin {"script", "compat"}, l \notin {"script", "compat"},
           l \in PastMigration => phase[r] \in PastMigration
    PROVE  DatabaseTypes' /\ MigrationInv'
<1>1. phase'[r] = l /\ \A q \in Replicas \ {r} : phase'[q] = phase[q]
    BY Zenon DEF StartInv, ProcessTypes
<1>2. DatabaseTypes' /\ MigrationAllOrNothing'
    BY Zenon DEF StartInv, DatabaseTypes, MigrationInv, MigrationAllOrNothing
<1>3. LocksOK'
    BY Zenon, <1>1 DEF StartInv, MigrationInv, LocksOK
<1>4. ASSUME NEW q \in Replicas PROVE WorkOf(q)' /\ ServedOf(q)'
    BY Zenon, <1>1 DEF StartInv, MigrationInv, WorkOf, ServedOf, Applied
<1> QED BY Zenon, <1>2, <1>3, <1>4 DEF MigrationInv

\* Process r ends; a migration it was in is rolled back.
LEMMA EndKeepsMigration ==
    ASSUME StartInv, NEW r \in Replicas, Goto(r, "down"), Release(r), UNCHANGED <<legacy, schema, migration>>,
           build' \in [Replicas -> Builds], \A q \in Replicas \ {r} : build'[q] = build[q]
    PROVE  DatabaseTypes' /\ MigrationInv'
<1>1. phase'[r] = "down" /\ \A q \in Replicas \ {r} : phase'[q] = phase[q]
    BY Zenon DEF StartInv, ProcessTypes, Goto
<1>2. locked' = locked \ {r} /\ (r \in locked => work' = NoWork) /\ (r \notin locked => work' = work)
    BY Zenon DEF Release
<1>3. NoWork \in [schema : SUBSET Object, migration : [build : Builds \cup {NoBuild}, dirty : BOOLEAN]]
    BY Zenon, WholeFacts DEF NoWork, StartInv, DatabaseTypes
<1>4. DatabaseTypes'
    BY Zenon, <1>2, <1>3 DEF StartInv, DatabaseTypes
<1>5. MigrationAllOrNothing'
    BY Zenon DEF StartInv, MigrationInv, MigrationAllOrNothing
<1>6. LocksOK'
    BY Zenon, <1>1, <1>2 DEF StartInv, MigrationInv, LocksOK
<1>7. ASSUME NEW q \in Replicas PROVE WorkOf(q)' /\ ServedOf(q)'
    <2>1. CASE q = r
        BY Zenon, <1>1, <2>1 DEF WorkOf, ServedOf, PastMigration
    <2>2. CASE q # r
        <3>1. phase[q] \in {"script", "compat"} => work' = work
            BY Zenon, <1>2, <2>2 DEF StartInv, MigrationInv, LocksOK
        <3> QED BY Zenon, <1>1, <2>2, <3>1 DEF StartInv, MigrationInv, WorkOf, ServedOf, Applied
    <2> QED BY Zenon, <2>1, <2>2
<1> QED BY Zenon, <1>4, <1>5, <1>6, <1>7 DEF MigrationInv

\* Exit ends the process and leaves the database and the builds alone.
LEMMA ExitKeepsMigration ==
    ASSUME StartInv, NEW r \in Replicas, Exit(r)
    PROVE  DatabaseTypes' /\ MigrationInv'
<1>1. Goto(r, "down") /\ Release(r) /\ UNCHANGED <<legacy, schema, migration, build>>
    BY Zenon DEF Exit, db
<1> QED BY Zenon, <1>1, EndKeepsMigration DEF StartInv, DatabaseTypes

\* A migration begins: the database is as it was before all launches, or has the
\* row of this build.
LEMMA BeginKeepsMigration ==
    ASSUME StartInv, NEW r \in Replicas, BeginMigration(r)
    PROVE  DatabaseTypes' /\ MigrationInv'
<1>1. CASE Refused(migration, build[r]) /\ Exit(r)
    BY Zenon, <1>1, ExitKeepsMigration
<1>2. CASE /\ ~Refused(migration, build[r])
           /\ locked' = locked \cup {r}
           /\ work' = [schema |-> schema, migration |-> migration]
           /\ Goto(r, IF Applied(migration, build[r]) THEN "compat" ELSE "script")
    <2>1. locked = {} /\ phase[r] = "migrate" /\ UNCHANGED <<legacy, schema, migration, build>>
        BY Zenon DEF BeginMigration, LockFree, db
    <2>2. /\ \A q \in Replicas \ {r} : phase'[q] = phase[q]
          /\ Applied(migration, build[r]) => phase'[r] = "compat"
          /\ ~Applied(migration, build[r]) => phase'[r] = "script"
        BY Zenon, <1>2 DEF Goto, StartInv, ProcessTypes
    <2>3. DatabaseTypes' /\ MigrationAllOrNothing'
        BY Zenon, <1>2, <2>1 DEF StartInv, DatabaseTypes, MigrationInv, MigrationAllOrNothing
    <2>4. LocksOK'
        BY Zenon, <1>2, <2>1, <2>2 DEF StartInv, MigrationInv, LocksOK
    <2>5. WorkOf(r)' /\ ServedOf(r)'
        <3>1. CASE Applied(migration, build[r])
            <4>1. build[r] # NoBuild
                BY StartupAssumption DEF StartInv, DatabaseTypes
            <4>2. schema = Whole
                BY Zenon, <3>1, <4>1, WholeFacts DEF Applied, StartInv, MigrationInv, MigrationAllOrNothing
            <4> QED BY Zenon, <1>2, <2>1, <2>2, <3>1, <4>2 DEF WorkOf, ServedOf, PastMigration, Applied
        <3>2. CASE ~Applied(migration, build[r])
            <4>1. migration.build = NoBuild
                BY Zenon, <1>2, <3>2 DEF Refused
            <4>2. schema = legacy /\ migration = NoMigration
                BY Zenon, <4>1 DEF StartInv, MigrationInv, MigrationAllOrNothing
            <4> QED BY Zenon, <1>2, <2>1, <2>2, <3>2, <4>2 DEF WorkOf, ServedOf, PastMigration, NoMigration
        <3> QED BY Zenon, <3>1, <3>2
    <2>6. ASSUME NEW q \in Replicas \ {r} PROVE WorkOf(q)' /\ ServedOf(q)'
        <3>1. phase[q] \notin {"script", "compat"}
            BY Zenon, <2>1 DEF StartInv, MigrationInv, LocksOK
        <3> QED BY Zenon, <2>1, <2>2, <3>1 DEF StartInv, MigrationInv, WorkOf, ServedOf, Applied
    <2> QED BY Zenon, <2>3, <2>4, <2>5, <2>6 DEF MigrationInv
<1> QED BY Zenon, <1>1, <1>2 DEF BeginMigration

\* The process that runs a migration is the only one.
LEMMA RunsAlone ==
    ASSUME StartInv, NEW r \in Replicas, phase[r] \in {"script", "compat"}, NEW q \in Replicas \ {r}
    PROVE  phase[q] \notin {"script", "compat"} /\ locked = {r}
BY DEF StartInv, MigrationInv, LocksOK, DatabaseTypes

LEMMA ScriptKeepsMigration ==
    ASSUME StartInv, NEW r \in Replicas, RunScript(r)
    PROVE  DatabaseTypes' /\ MigrationInv'
<1> DEFINE s == ExecuteAll(work.schema, InitialScript)
<1>1. CASE s = Failed /\ Exit(r)
    BY Zenon, <1>1, ExitKeepsMigration
<1>2. CASE /\ s # Failed
           /\ work' = [schema |-> s, migration |-> [build |-> build[r], dirty |-> TRUE]]
           /\ Goto(r, "compat") /\ UNCHANGED locked
    <2>1. phase[r] = "script" /\ UNCHANGED <<legacy, schema, migration, build>>
        BY Zenon DEF RunScript, db
    <2>2. phase'[r] = "compat" /\ \A q \in Replicas \ {r} : phase'[q] = phase[q]
        BY Zenon, <1>2 DEF Goto, StartInv, ProcessTypes
    <2>3. work.schema = legacy /\ schema = legacy /\ migration = NoMigration
        BY Zenon, <2>1 DEF StartInv, MigrationInv, WorkOf
    <2>4. s \subseteq Object
        BY Zenon, <1>2, <2>3, MigrationAssumption DEF StartInv, DatabaseTypes
    <2>5. DatabaseTypes' /\ MigrationAllOrNothing'
        <3>1. work' \in [schema : SUBSET Object, migration : [build : Builds \cup {NoBuild}, dirty : BOOLEAN]]
            BY Zenon, <1>2, <2>4 DEF StartInv, DatabaseTypes
        <3> QED BY Zenon, <1>2, <2>1, <3>1 DEF StartInv, DatabaseTypes, MigrationInv, MigrationAllOrNothing
    <2>6. LocksOK'
        BY Zenon, <1>2, <2>1, <2>2 DEF StartInv, MigrationInv, LocksOK
    <2>7. WorkOf(r)' /\ ServedOf(r)'
        <3>1. work'.schema = ExecuteAll(legacy, InitialScript) /\ work'.schema # Failed
            BY Zenon, <1>2, <2>3
        <3> QED BY Zenon, <2>1, <2>2, <2>3, <3>1 DEF WorkOf, ServedOf, PastMigration
    <2>8. ASSUME NEW q \in Replicas \ {r} PROVE WorkOf(q)' /\ ServedOf(q)'
        BY Zenon, <2>1, <2>2, RunsAlone DEF StartInv, MigrationInv, WorkOf, ServedOf, Applied
    <2> QED BY Zenon, <2>5, <2>6, <2>7, <2>8 DEF MigrationInv
<1> QED BY Zenon, <1>1, <1>2 DEF RunScript

LEMMA CommitKeepsMigration ==
    ASSUME StartInv, NEW r \in Replicas, CommitMigration(r)
    PROVE  DatabaseTypes' /\ MigrationInv'
<1> DEFINE s == ExecuteAll(work.schema, Compatibility)
<1>1. CASE s = Failed /\ Exit(r)
    BY Zenon, <1>1, ExitKeepsMigration
<1>2. CASE /\ schema' = s /\ migration' = CleanRow(build[r]) /\ Release(r)
           /\ Goto(r, IF conf[r].bootKey = "none" THEN "defaults" ELSE "ensure")
           /\ UNCHANGED <<legacy, build>>
    <2>1. phase[r] = "compat"
        BY Zenon DEF CommitMigration
    <2>2. phase'[r] \in {"defaults", "ensure"} /\ \A q \in Replicas \ {r} : phase'[q] = phase[q]
        BY Zenon, <1>2 DEF Goto, StartInv, ProcessTypes
    <2>3. r \in locked /\ locked' = locked \ {r} /\ work' = NoWork
        BY Zenon, <1>2, <2>1 DEF Release, StartInv, MigrationInv, LocksOK
    <2>4. s = Whole
        <3>1. CASE work.schema = Whole
            BY Zenon, <3>1, MigrationAssumption DEF StartInv
        <3>2. CASE work.schema = ExecuteAll(legacy, InitialScript) /\ work.schema # Failed
            BY Zenon, <3>2, MigrationAssumption DEF StartInv, DatabaseTypes
        <3> QED BY Zenon, <2>1, <3>1, <3>2 DEF StartInv, MigrationInv, WorkOf
    <2>5. migration' = [build |-> build[r], dirty |-> FALSE] /\ build[r] \in Builds /\ build[r] # NoBuild
        BY <1>2, StartupAssumption DEF CleanRow, StartInv, DatabaseTypes
    <2>6. DatabaseTypes'
        <3>1. work' \in [schema : SUBSET Object, migration : [build : Builds \cup {NoBuild}, dirty : BOOLEAN]]
            BY Zenon, <2>3, WholeFacts DEF NoWork, StartInv, DatabaseTypes
        <3>2. migration' \in [build : Builds \cup {NoBuild}, dirty : BOOLEAN]
            BY Zenon, <2>5
        <3> QED BY Zenon, <1>2, <2>3, <2>4, <3>1, <3>2, WholeFacts DEF StartInv, DatabaseTypes
    <2>7. MigrationAllOrNothing'
        BY <1>2, <2>4, <2>5 DEF MigrationAllOrNothing
    <2>8. LocksOK'
        BY Zenon, <2>1, <2>2, <2>3 DEF StartInv, MigrationInv, LocksOK
    <2>9. WorkOf(r)' /\ ServedOf(r)'
        BY <1>2, <2>2, <2>5 DEF WorkOf, ServedOf, Applied
    <2>10. ASSUME NEW q \in Replicas \ {r} PROVE WorkOf(q)' /\ ServedOf(q)'
        <3>1. phase[q] \notin {"script", "compat"}
            BY Zenon, <2>1, RunsAlone
        <3>2. phase[q] \in PastMigration => build[q] = build[r]
            <4>1. phase[q] \in PastMigration => migration.build = build[q] /\ build[q] # NoBuild
                BY StartupAssumption DEF StartInv, MigrationInv, ServedOf, Applied, DatabaseTypes
            <4>2. migration.build = build[r] \/ migration = NoMigration
                BY Zenon, <2>1 DEF StartInv, MigrationInv, WorkOf, Applied
            <4> QED BY Zenon, <4>1, <4>2, WholeFacts
        <3> QED BY <1>2, <2>2, <2>5, <3>1, <3>2 DEF WorkOf, ServedOf, Applied
    <2> QED BY Zenon, <2>6, <2>7, <2>8, <2>9, <2>10 DEF MigrationInv
<1> QED BY Zenon, <1>1, <1>2 DEF CommitMigration

-----------------------------------------------------------------------------
(* The processes.                                                            *)

\* Process r ends and is started again.
LEMMA EndKeepsDefaults ==
    ASSUME StartInv, NEW r \in Replicas, Goto(r, "down"), issuer' = [issuer EXCEPT ![r] = 0],
           requests' = [requests EXCEPT ![r] = 0], launches' \in [Replicas -> 0..MaxLaunches],
           UNCHANGED <<bootKey, issuers, keyFile, lastKey, conf>>
    PROVE  ProcessTypes' /\ DefaultsInv'
<1>1. /\ phase'[r] = "down"
      /\ \A q \in Replicas \ {r} : phase'[q] = phase[q] /\ issuer'[q] = issuer[q]
    BY Zenon DEF StartInv, ProcessTypes, Goto
<1>2. ProcessTypes'
    <2>1. phase' \in [Replicas -> Labels]
        BY Zenon DEF Goto, StartInv, ProcessTypes, Labels
    <2>2. issuer' \in [Replicas -> 0..lastKey]
        BY DEF StartInv, ProcessTypes
    <2>3. requests' \in [Replicas -> {0, 1}]
        BY Zenon DEF StartInv, ProcessTypes
    <2> QED BY Zenon, <2>1, <2>2, <2>3 DEF StartInv, ProcessTypes
<1>3. ASSUME NEW q \in Replicas PROVE ConfOf(q)' /\ KeyOf(q)'
    BY <1>1 DEF StartInv, DefaultsInv, ConfOf, KeyOf
<1> QED BY Zenon, <1>2, <1>3 DEF StartInv, DefaultsInv

\* Process r moves on, without touching keys and issuers.
LEMMA MoveKeepsDefaults ==
    ASSUME StartInv, NEW r \in Replicas, NEW l \in Labels, Goto(r, l), l # "issuer",
           UNCHANGED <<issuers, keyFile, lastKey, conf, issuer>>, bootKey' \in BOOLEAN,
           requests' \in [Replicas -> {0, 1}], launches' \in [Replicas -> 0..MaxLaunches], Valid(conf[r]),
           l \in {"listen", "serving", "draining"} => phase[r] \in {"listen", "serving", "draining"} \/ ~conf[r].defaults
    PROVE  ProcessTypes' /\ DefaultsInv'
<1>1. phase'[r] = l /\ \A q \in Replicas \ {r} : phase'[q] = phase[q]
    BY Zenon DEF StartInv, ProcessTypes, Goto
<1>2. ProcessTypes'
    BY Zenon DEF Goto, StartInv, ProcessTypes
<1>3. ASSUME NEW q \in Replicas PROVE ConfOf(q)' /\ KeyOf(q)'
    BY Zenon, <1>1 DEF StartInv, DefaultsInv, ConfOf, KeyOf
<1> QED BY Zenon, <1>2, <1>3 DEF StartInv, DefaultsInv

\* Exit and Crash.
LEMMA ExitStep ==
    ASSUME StartInv, NEW r \in Replicas, Exit(r)
    PROVE  StartInv'
<1>1. /\ Goto(r, "down") /\ issuer' = [issuer EXCEPT ![r] = 0] /\ requests' = [requests EXCEPT ![r] = 0]
      /\ UNCHANGED <<bootKey, issuers, keyFile, lastKey, conf, launches>>
    BY Zenon DEF Exit, db
<1>2. launches' \in [Replicas -> 0..MaxLaunches]
    BY Zenon, <1>1 DEF StartInv, ProcessTypes
<1> QED BY Zenon, <1>1, <1>2, ExitKeepsMigration, EndKeepsDefaults DEF StartInv

LEMMA CrashStep ==
    ASSUME StartInv, NEW r \in Replicas, Crash(r)
    PROVE  StartInv'
<1>1. /\ Goto(r, "down") /\ issuer' = [issuer EXCEPT ![r] = 0] /\ requests' = [requests EXCEPT ![r] = 0]
      /\ Release(r) /\ UNCHANGED <<legacy, schema, migration, bootKey, issuers, keyFile, lastKey, conf>>
    BY Zenon DEF Crash, db
<1>2. launches' \in [Replicas -> 0..MaxLaunches]
    BY StartupAssumption DEF Crash, StartInv, ProcessTypes
<1>3. build' \in [Replicas -> Builds] /\ \A q \in Replicas \ {r} : build'[q] = build[q]
    BY DEF Crash, StartInv, DatabaseTypes
<1> QED BY Zenon, <1>1, <1>2, <1>3, EndKeepsMigration, EndKeepsDefaults DEF StartInv

\* Steps of a migration.
LEMMA MigrateStep ==
    ASSUME StartInv, NEW r \in Replicas, BeginMigration(r) \/ RunScript(r) \/ CommitMigration(r), ~Exit(r)
    PROVE  StartInv'
<1>1. PICK l \in {"script", "compat", "defaults", "ensure"} : Goto(r, l)
    BY Zenon DEF BeginMigration, RunScript, CommitMigration
<1>2. UNCHANGED <<bootKey, issuers, keyFile, lastKey, conf, issuer, requests, launches>> /\ phase[r] # "down"
    BY Zenon DEF BeginMigration, RunScript, CommitMigration, db
<1>3. ProcessTypes' /\ DefaultsInv'
    <2>1. l \in Labels /\ l # "issuer" /\ l \notin {"listen", "serving", "draining"}
        BY Zenon, <1>1 DEF Labels, PastMigration
    <2>2. bootKey' \in BOOLEAN /\ requests' \in [Replicas -> {0, 1}] /\ launches' \in [Replicas -> 0..MaxLaunches]
        BY Zenon, <1>2 DEF StartInv, ProcessTypes
    <2>3. Valid(conf[r])
        BY Zenon, <1>2 DEF StartInv, DefaultsInv, ConfOf
    <2> QED BY Zenon, <1>1, <1>2, <2>1, <2>2, <2>3, MoveKeepsDefaults
<1> QED BY Zenon, <1>3, BeginKeepsMigration, ScriptKeepsMigration, CommitKeepsMigration DEF StartInv

\* Steps that neither migrate nor make keys.
LEMMA MoveStep ==
    ASSUME StartInv, NEW r \in Replicas,
           Load(r) \/ EnsureRead(r) \/ (EnsureInsert(r) /\ ~Exit(r)) \/ Listen(r) \/ Signal(r)
    PROVE  StartInv'
<1>1. UNCHANGED <<legacy, schema, migration, locked, work, build, issuers, keyFile, lastKey, conf, issuer, requests>>
    BY Zenon DEF Load, EnsureRead, EnsureInsert, Listen, Signal, db
<1>2. bootKey' \in BOOLEAN
    <2>1. bootKey' = bootKey \/ bootKey' = TRUE
        BY Zenon DEF Load, EnsureRead, EnsureInsert, Listen, Signal, db
    <2> QED BY Zenon, <2>1 DEF StartInv, ProcessTypes
<1>3. launches' \in [Replicas -> 0..MaxLaunches]
    BY StartupAssumption DEF StartInv, ProcessTypes, Load, EnsureRead, EnsureInsert, Listen, Signal
<1>4. PICK l \in Labels :
        /\ Goto(r, l) /\ <<phase[r], l>> \in {<<"down", "migrate">>, <<"ensure", "defaults">>, <<"ensure", "insert">>,
                                           <<"insert", "defaults">>, <<"listen", "serving">>, <<"serving", "draining">>}
    BY Zenon DEF Labels, PastMigration, Load, EnsureRead, EnsureInsert, Listen, Signal
<1>5. Valid(conf[r])
    BY Zenon, <1>4 DEF Load, EnsureRead, EnsureInsert, Listen, Signal, StartInv, DefaultsInv, ConfOf
<1>6. DatabaseTypes' /\ MigrationInv'
    <2>1. /\ phase[r] \notin {"script", "compat"} /\ l \notin {"script", "compat"}
          /\ l \in PastMigration => phase[r] \in PastMigration
        BY Zenon, <1>4 DEF PastMigration
    <2>2. phase' = [phase EXCEPT ![r] = l]
        BY Zenon, <1>4 DEF Goto
    <2> QED BY Zenon, <1>1, <2>1, <2>2, QuietKeepsMigration
<1>7. ProcessTypes' /\ DefaultsInv'
    <2>1. l # "issuer" /\ (l \in {"listen", "serving", "draining"} => phase[r] \in {"listen", "serving", "draining"})
        BY Zenon, <1>4
    <2>2. requests' \in [Replicas -> {0, 1}]
        BY Zenon, <1>1 DEF StartInv, ProcessTypes
    <2> QED BY Zenon, <1>1, <1>2, <1>3, <1>4, <1>5, <2>1, <2>2, MoveKeepsDefaults
<1> QED BY Zenon, <1>6, <1>7 DEF StartInv

\* A key is written, or none is wanted.
LEMMA WriteKeyStep ==
    ASSUME StartInv, NEW r \in Replicas, WriteKey(r)
    PROVE  StartInv'
<1>1. /\ phase[r] = "defaults" /\ Valid(conf[r])
      /\ UNCHANGED <<legacy, schema, migration, bootKey, issuers, locked, work, build, conf, requests, launches>>
    BY Zenon DEF WriteKey, db, StartInv, DefaultsInv, ConfOf
<1>2. PICK l \in {"issuer", "listen"} : phase' = [phase EXCEPT ![r] = l]
    BY Zenon DEF WriteKey, Goto
<1>3. DatabaseTypes' /\ MigrationInv'
    BY Zenon, <1>1, <1>2, QuietKeepsMigration DEF Labels, PastMigration
<1>4. CASE ~conf[r].defaults /\ Goto(r, "listen") /\ UNCHANGED <<lastKey, keyFile, issuer>>
    <2>1. bootKey' \in BOOLEAN /\ requests' \in [Replicas -> {0, 1}] /\ launches' \in [Replicas -> 0..MaxLaunches]
        BY Zenon, <1>1 DEF StartInv, ProcessTypes
    <2> QED BY Zenon, <1>1, <1>3, <1>4, <2>1, MoveKeepsDefaults DEF StartInv, Labels, PastMigration
<1>5. CASE /\ conf[r].defaults /\ lastKey' = lastKey + 1 /\ keyFile' = [keyFile EXCEPT ![r] = WrittenKey(r)]
           /\ issuer' = [issuer EXCEPT ![r] = lastKey + 1] /\ Goto(r, "issuer")
    <2>1. lastKey \in Nat /\ lastKey' \in Nat /\ lastKey + 1 \in 1..lastKey' /\ 1..lastKey \subseteq 1..lastKey'
          /\ 0..lastKey \subseteq 0..lastKey' /\ lastKey + 1 \in 0..lastKey'
        BY <1>5 DEF StartInv, ProcessTypes
    <2>2. /\ phase'[r] = "issuer" /\ issuer'[r] = lastKey + 1 /\ keyFile'[r] = lastKey + 1
          /\ \A q \in Replicas \ {r} : phase'[q] = phase[q] /\ issuer'[q] = issuer[q] /\ keyFile'[q] = keyFile[q]
        BY Zenon, <1>5 DEF StartInv, ProcessTypes, Goto, WrittenKey
    <2>3. ProcessTypes'
        <3>1. keyFile' \in [Replicas -> 0..lastKey'] /\ issuer' \in [Replicas -> 0..lastKey']
            BY Zenon, <1>5, <2>1 DEF StartInv, ProcessTypes, WrittenKey
        <3>2. phase' \in [Replicas -> Labels]
            BY Zenon, <1>5 DEF Goto, StartInv, ProcessTypes, Labels, PastMigration
        <3>3. issuers' \subseteq 1..lastKey'
            BY Zenon, <1>1, <2>1 DEF StartInv, ProcessTypes
        <3> QED BY Zenon, <1>1, <2>1, <3>1, <3>2, <3>3 DEF StartInv, ProcessTypes
    <2>4. ASSUME NEW q \in Replicas PROVE ConfOf(q)' /\ KeyOf(q)'
        <3>1. CASE q = r
            BY Zenon, <1>1, <1>5, <2>1, <2>2, <3>1 DEF ConfOf, KeyOf
        <3>2. CASE q # r
            BY Zenon, <1>1, <2>1, <2>2, <3>2 DEF StartInv, DefaultsInv, ConfOf, KeyOf
        <3> QED BY Zenon, <3>1, <3>2
    <2>5. (issuers # {} => \E q \in Replicas : conf[q].defaults)'
        BY Zenon, <1>1 DEF StartInv, DefaultsInv
    <2> QED BY Zenon, <1>3, <2>3, <2>4, <2>5 DEF StartInv, DefaultsInv
<1> QED BY Zenon, <1>4, <1>5 DEF WriteKey

\* The issuer of the key is created.
LEMMA CreateDefaultsStep ==
    ASSUME StartInv, NEW r \in Replicas, CreateDefaults(r)
    PROVE  StartInv'
<1>1. /\ phase[r] = "issuer" /\ phase' = [phase EXCEPT ![r] = "listen"] /\ issuers' = issuers \cup {issuer[r]}
      /\ UNCHANGED <<legacy, schema, migration, bootKey, locked, work, build, keyFile, lastKey, conf, issuer, requests, launches>>
    BY Zenon DEF CreateDefaults, Goto
<1>2. /\ phase'[r] = "listen" /\ \A q \in Replicas \ {r} : phase'[q] = phase[q]
      /\ conf[r].defaults /\ issuer[r] = keyFile[r] /\ issuer[r] \in 1..lastKey
    BY Zenon, <1>1 DEF StartInv, ProcessTypes, DefaultsInv, KeyOf
<1>3. DatabaseTypes' /\ MigrationInv'
    BY Zenon, <1>1, QuietKeepsMigration DEF Labels, PastMigration
<1>4. ProcessTypes'
    <2>1. phase' \in [Replicas -> Labels]
        BY Zenon, <1>1 DEF StartInv, ProcessTypes, Labels, PastMigration
    <2> QED BY Zenon, <1>1, <1>2, <2>1 DEF StartInv, ProcessTypes
<1>5. ASSUME NEW q \in Replicas PROVE ConfOf(q)' /\ KeyOf(q)'
    BY Zenon, <1>1, <1>2 DEF StartInv, DefaultsInv, ConfOf, KeyOf
<1>6. (issuers # {} => \E q \in Replicas : conf[q].defaults)'
    BY Zenon, <1>1, <1>2
<1> QED BY Zenon, <1>3, <1>4, <1>5, <1>6 DEF StartInv, DefaultsInv

\* Requests come and go, or nothing happens.
LEMMA RequestStep ==
    ASSUME StartInv, UNCHANGED <<legacy, schema, migration, bootKey, issuers, locked, work, keyFile, lastKey, phase, build, conf, issuer, launches>>,
           requests' \in [Replicas -> {0, 1}]
    PROVE  StartInv'
<1>1. DatabaseTypes' /\ ProcessTypes'
    BY Zenon DEF StartInv, DatabaseTypes, ProcessTypes
<1>2. MigrationAllOrNothing' /\ LocksOK'
    BY Zenon DEF StartInv, MigrationInv, MigrationAllOrNothing, LocksOK
<1>3. ASSUME NEW q \in Replicas PROVE WorkOf(q)' /\ ServedOf(q)' /\ ConfOf(q)' /\ KeyOf(q)'
    BY Zenon DEF StartInv, MigrationInv, WorkOf, ServedOf, Applied, DefaultsInv, ConfOf, KeyOf
<1>4. (issuers # {} => \E q \in Replicas : conf[q].defaults)'
    BY Zenon DEF StartInv, DefaultsInv
<1> QED BY Zenon, <1>1, <1>2, <1>3, <1>4 DEF StartInv, MigrationInv, DefaultsInv

-----------------------------------------------------------------------------
(* Theorems.                                                                 *)

LEMMA StartInitially ==
    ASSUME StartupInit
    PROVE  StartInv
<1>1. DatabaseTypes
    <2>1. schema \subseteq Object /\ legacy \in LegacySchemas /\ build \in [Replicas -> Builds] /\ locked \subseteq Replicas
        BY Zenon, WholeFacts DEF StartupInit
    <2>2. work \in [schema : SUBSET Object, migration : [build : Builds \cup {NoBuild}, dirty : BOOLEAN]]
        BY Zenon, <2>1, WholeFacts DEF StartupInit
    <2> QED BY Zenon, <2>1, <2>2, WholeFacts DEF StartupInit, DatabaseTypes
<1>2. ProcessTypes
    <2>1. lastKey = 0 /\ issuers = {} /\ keyFile \in [Replicas -> 0..lastKey] /\ issuer \in [Replicas -> 0..lastKey]
        BY DEF StartupInit
    <2>2. phase \in [Replicas -> Labels] /\ requests \in [Replicas -> {0, 1}] /\ conf \in [Replicas -> Configs]
        BY Zenon DEF StartupInit, Labels
    <2>3. launches \in [Replicas -> 0..MaxLaunches]
        BY StartupAssumption DEF StartupInit
    <2>4. bootKey \in BOOLEAN
        BY Zenon DEF StartupInit
    <2> QED BY Zenon, <2>1, <2>2, <2>3, <2>4 DEF ProcessTypes
<1>3. MigrationInv
    BY Zenon DEF StartupInit, MigrationInv, MigrationAllOrNothing, LocksOK, WorkOf, ServedOf, PastMigration
<1>4. DefaultsInv
    BY Zenon DEF StartupInit, DefaultsInv, ConfOf, KeyOf
<1> QED BY Zenon, <1>1, <1>2, <1>3, <1>4 DEF StartInv

LEMMA StartStep ==
    ASSUME StartInv, [StartupNext]_startupVars
    PROVE  StartInv'
<1>1. CASE UNCHANGED startupVars
    <2>1. UNCHANGED <<legacy, schema, migration, bootKey, issuers, locked, work, keyFile, lastKey, phase, build, conf, issuer, launches>>
        BY Zenon, <1>1 DEF startupVars, procs
    <2>2. requests' \in [Replicas -> {0, 1}]
        BY Zenon, <1>1 DEF startupVars, procs, StartInv, ProcessTypes
    <2> QED BY Zenon, <2>1, <2>2, RequestStep
<1>2. ASSUME NEW r \in Replicas, Exit(r)
      PROVE  StartInv'
    BY Zenon, <1>2, ExitStep
<1>3. ASSUME NEW r \in Replicas, Progress(r)
      PROVE  StartInv'
    BY Zenon, <1>2, <1>3, MoveStep, MigrateStep, WriteKeyStep, CreateDefaultsStep DEF Progress
<1>4. ASSUME NEW r \in Replicas, Accept(r) \/ Answer(r)
      PROVE  StartInv'
    <2>1. requests' \in [Replicas -> {0, 1}]
        BY Zenon, <1>4 DEF Accept, Answer, StartInv, ProcessTypes
    <2>2. UNCHANGED <<legacy, schema, migration, bootKey, issuers, locked, work, keyFile, lastKey, phase, build, conf, issuer, launches>>
        BY Zenon, <1>4 DEF Accept, Answer, db
    <2> QED BY Zenon, <2>1, <2>2, RequestStep
<1>5. ASSUME NEW r \in Replicas, LockTimeout(r) \/ Drained(r) \/ ShutdownTimeout(r)
      PROVE  StartInv'
    BY Zenon, <1>2, <1>5 DEF LockTimeout, Drained, ShutdownTimeout
<1> QED BY Zenon, <1>1, <1>3, <1>4, <1>5, MoveStep, CrashStep DEF StartupNext

\* The strengthened invariant holds in every behaviour.
LEMMA StartInvariant == StartupSpec => []StartInv
<1>1. StartupInit => StartInv
    BY Zenon, StartInitially
<1>2. StartInv /\ [StartupNext]_startupVars => StartInv'
    BY Zenon, StartStep
<1>. QED
    BY <1>1, <1>2, PTL DEF StartupSpec

\* Every variable keeps its type (main, ApplyInitialMigration).
THEOREM StartupTypeCorrect == StartupSpec => []StartupTypeOK
<1>1. StartInv => StartupTypeOK
    BY Zenon DEF StartInv, DatabaseTypes, ProcessTypes, StartupTypeOK, Labels, PastMigration
<1> QED BY <1>1, StartInvariant, PTL

\* A migration happens whole or not at all, whatever crashes and whoever else
\* launches (ApplyInitialMigration).
THEOREM MigrationsAreWhole == StartupSpec => []MigrationAllOrNothing
<1>1. StartInv => MigrationAllOrNothing
    BY Zenon DEF StartInv, MigrationInv
<1> QED BY <1>1, StartInvariant, PTL

\* A process past its migration always finds the schema of its build, and is
\* ready where the replicas share the ACME defaults (CheckInitialMigration).
THEOREM ReplicasServeTheirSchema == StartupSpec => []ServesItsSchema
<1>1. StartInv => ServesItsSchema
    <2> SUFFICES ASSUME StartInv, NEW r \in Migrated
                 PROVE  /\ Applied(migration, build[r])
                        /\ phase[r] = "serving" /\ (\A q \in Replicas : conf[q].defaults => conf[r].defaults) => Ready(r)
        BY Zenon DEF ServesItsSchema
    <2>1. r \in Replicas /\ Applied(migration, build[r])
        BY Zenon DEF Migrated, StartInv, MigrationInv, ServedOf, PastMigration
    <2>2. ASSUME phase[r] = "serving", \A q \in Replicas : conf[q].defaults => conf[r].defaults, issuers # {}
          PROVE  keyFile[r] # 0
        <3>1. keyFile[r] \in issuers
            BY Zenon, <2>1, <2>2 DEF StartInv, DefaultsInv, KeyOf
        <3> QED BY <3>1 DEF StartInv, ProcessTypes
    <2> QED BY Zenon, <2>1, <2>2 DEF Ready
<1> QED BY <1>1, StartInvariant, PTL

\* In production a process runs only with API keys under a pepper and with
\* shared nonces (validateProductionAuthConfig, loadACMENonceConfig).
THEOREM ProductionIsGuarded == StartupSpec => []ProductionGuarded
<1>1. StartInv => ProductionGuarded
    BY Zenon DEF StartInv, DefaultsInv, ConfOf, Valid, ValidAuth, ValidNonces, ProductionGuarded, Migrated
<1> QED BY <1>1, StartInvariant, PTL

\* The default issuer that a process serves signs with the key of its
\* certificate (ensureACMESmokeIssuerMaterial, bootstrapACMEDefaults).
THEOREM DefaultIssuersSign == StartupSpec => []DefaultIssuerSigns
<1>1. StartInv => DefaultIssuerSigns
    BY Zenon DEF StartInv, DefaultsInv, KeyOf, DefaultIssuerSigns
<1> QED BY <1>1, StartInvariant, PTL
=============================================================================
