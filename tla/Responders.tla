----------------------------- MODULE Responders -----------------------------
(***************************************************************************)
(* The OCSP responders of one issuer: CreateOCSPResponder,                 *)
(* DisableOCSPResponder and RotateOCSPResponder of lifecycle.Service.      *)
(*                                                                         *)
(* Creation and rotation look at the table, have the core validate the new *)
(* certificate, and only then run their transaction; the table may change  *)
(* in between.  A row changes its status only, so the conditional update   *)
(* of a transaction and the read before it are one step, except in a       *)
(* rotation, whose read finds the row.                                     *)
(***************************************************************************)
EXTENDS Integers, FiniteSets

CONSTANTS
    Procs,        \* request handlers
    ResponderIds, \* responder identifiers
    NoResponder   \* what a handler holds that has found no responder

ASSUME ResponderAssumption == NoResponder \notin ResponderIds

VARIABLES
    responder,  \* ocsp_responders.status, by identifier
    step,       \* where each handler stands
    new,        \* the identifier drawn for the responder it is to insert
    current     \* the active responder its rotation has read

responderVars == <<responder, step, new, current>>

RespondersInit ==
    /\ responder = [r \in ResponderIds |-> "none"]
    /\ step = [p \in Procs |-> "idle"]
    /\ new = [p \in Procs |-> NoResponder]
    /\ current = [p \in Procs |-> NoResponder]

\* GetActiveOCSPResponderByIssuer finds one of these.
Active == {r \in ResponderIds : responder[r] = "active"}

\* UpdateOCSPResponderIfStatus succeeds.
UpdateIfActive(r) == responder[r] = "active"

\* Faulty variant of InsertAllowed: the index on active responders is missing.
InsertAllowedAlways(table) == TRUE

\* CreateOCSPResponder of the store: the unique index on the issuer of an active
\* responder lets an active row in only where the table has none.
InsertAllowed(table) == \A r \in ResponderIds : table[r] # "active"

EndStep(p) ==
    /\ step' = [step EXCEPT ![p] = "idle"]
    /\ new' = [new EXCEPT ![p] = NoResponder]
    /\ current' = [current EXCEPT ![p] = NoResponder]

Fresh(r) == responder[r] = "none" /\ \A p \in Procs : new[p] # r

\* CreateOCSPResponder: the issuer has no active responder, and the core is asked.
BeginCreate(p, r) ==
    /\ step[p] = "idle" /\ Fresh(r)
    /\ Active = {}
    /\ step' = [step EXCEPT ![p] = "insert"]
    /\ new' = [new EXCEPT ![p] = r]
    /\ UNCHANGED <<responder, current>>

\* RotateOCSPResponder: the issuer has one, and the core is asked.
BeginRotate(p, r) ==
    /\ step[p] = "idle" /\ Fresh(r)
    /\ Active # {}
    /\ step' = [step EXCEPT ![p] = "find"]
    /\ new' = [new EXCEPT ![p] = r]
    /\ UNCHANGED <<responder, current>>

\* The core finds the certificate not to be one of a responder of the issuer.
ValidationFails(p) ==
    /\ step[p] \in {"insert", "find"}
    /\ EndStep(p)
    /\ UNCHANGED responder

\* The transaction of a creation.
InsertResponder(p) ==
    /\ step[p] = "insert"
    /\ \/ InsertAllowed(responder) /\ responder' = [responder EXCEPT ![new[p]] = "active"]
       \/ ~InsertAllowed(responder) /\ UNCHANGED responder
    /\ EndStep(p)

\* The transaction of a rotation reads the active responder once more ...
FindCurrent(p) ==
    /\ step[p] = "find"
    /\ \/ /\ \E r \in Active : current' = [current EXCEPT ![p] = r]
          /\ step' = [step EXCEPT ![p] = "replace"]
          /\ UNCHANGED <<responder, new>>
       \/ Active = {} /\ EndStep(p) /\ UNCHANGED responder

\* The table after a rotation from c to r.
Replaced(c, r) == [responder EXCEPT ![c] = "disabled", ![r] = "active"]

\* ... disables it if it is still active, and inserts the new one.
Replace(p) ==
    LET c == current[p]
        Accepted == UpdateIfActive(c) /\ InsertAllowed([responder EXCEPT ![c] = "disabled"])
    IN
    /\ step[p] = "replace"
    /\ \/ Accepted /\ responder' = Replaced(c, new[p])
       \/ ~Accepted /\ UNCHANGED responder
    /\ EndStep(p)

\* DisableOCSPResponder.
DisableResponder(r) ==
    /\ UpdateIfActive(r)
    /\ responder' = [responder EXCEPT ![r] = "disabled"]
    /\ UNCHANGED <<step, new, current>>

ResponderStep(p) == ValidationFails(p) \/ InsertResponder(p) \/ FindCurrent(p) \/ Replace(p)

-----------------------------------------------------------------------------
RespondersTypeOK ==
    /\ responder \in [ResponderIds -> {"none", "active", "disabled"}]
    /\ step \in [Procs -> {"idle", "insert", "find", "replace"}]
    /\ new \in [Procs -> ResponderIds \cup {NoResponder}]
    /\ current \in [Procs -> ResponderIds \cup {NoResponder}]

\* An issuer has at most one active responder, whatever creations and rotations
\* overlap: each looked at the table before the core validated its certificate.
OneActiveResponder == \A r, s \in Active : r = s
=============================================================================
