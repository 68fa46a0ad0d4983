---------------------------- MODULE AcmeAccounts ----------------------------
(***************************************************************************)
(* ACME accounts and the signed requests that create and change them       *)
(* (decodeACMEJWS and the account handlers of httpapi, the account         *)
(* operations of lifecycle.Service), composed with the nonce store.        *)
(*                                                                         *)
(* A client signs a request with a nonce it was given; the network may     *)
(* deliver the request late, more than once, or never.  A handler consumes *)
(* the nonce, reads the account, checks the signature against its key, and *)
(* runs the operation, whose transaction reads the row and then writes all *)
(* of it, conditional on its status alone.                                 *)
(***************************************************************************)
EXTENDS AcmeNonces

CONSTANTS
    Procs,      \* request handlers
    Accounts,   \* account identifiers
    Keys,       \* account keys (a key, its JWK and its thumbprint)
    NoAccount,  \* a request that carries its key (jwk) and no account (kid)
    NoKey,      \* an account created through the management API has no key
    NoRequest,  \* what an idle process works for
    MaxTime     \* bound: the last instant of the clock

ASSUME AccountAssumption ==
    NoAccount \notin Accounts /\ NoKey \notin Keys /\ MaxTime \in Nat

VARIABLES
    clock,     \* the time all processes read
    isolated,  \* the store runs transactions one at a time (memory, SQLite) or not (PostgreSQL)
    account,   \* acme_accounts
    pc,        \* where each process stands
    req,       \* the request it works for
    row,       \* the account row it has read
    used,      \* history: the keys an account has had
    latest     \* history: the key the last committed key change gave an account

accounts == <<account, used, latest>>
local    == <<pc, req, row>>
vars     == <<clock, isolated, accounts, local, nonceVars>>

-----------------------------------------------------------------------------
(* Rows and requests.                                                      *)

\* Contacts are left out: an update of the contacts writes the rest of the row
\* back as it was read.
Row == [status : {"none", "valid", "deactivated"}, key : Keys \cup {NoKey}]
NoRow == [status |-> "none", key |-> NoKey]

\* What a client signs: the operation, the account (kid), the key it signs with,
\* and the key it wants the account to have.
Requests == {r \in [op : {"new", "contacts", "deactivate", "rekey"}, account : Accounts \cup {NoAccount},
             signer : Keys, key : Keys] :
                 (r.op = "new" <=> r.account = NoAccount) /\ (r.op = "rekey" <=> r.key # r.signer)}

Init ==
    /\ clock = 0
    /\ isolated \in BOOLEAN
    /\ account = [a \in Accounts |-> NoRow]
    /\ pc = [p \in Procs |-> "idle"]
    /\ req = [p \in Procs |-> NoRequest]
    /\ row = [p \in Procs |-> NoRow]
    /\ used = [a \in Accounts |-> {}]
    /\ latest = [a \in Accounts |-> NoKey]
    /\ NonceInit

-----------------------------------------------------------------------------
(* Clients and the network.                                                *)

\* HEAD or GET /acme/new-nonce.
NewNonce(n) ==
    /\ Issue(n, clock)
    /\ UNCHANGED <<clock, isolated, accounts, local>>

-----------------------------------------------------------------------------
(* Control of a process.                                                   *)

Goto(p, label) == pc' = [pc EXCEPT ![p] = label]

Finish(p) ==
    /\ Goto(p, "idle")
    /\ req' = [req EXCEPT ![p] = NoRequest]
    /\ row' = [row EXCEPT ![p] = NoRow]

\* writeACMEJSON: the answer carries a fresh nonce, unless issuing one fails.
Answer(p) ==
    /\ Finish(p)
    /\ (\E n \in Nonces : Issue(n, clock)) \/ UNCHANGED nonceVars

\* Faulty variant of MayBegin: the write lock does not span the transaction.
MayBeginAlways == TRUE

\* A transaction may start: an isolated store has no other open one.
MayBegin == isolated => \A p \in Procs : pc[p] # "write"

-----------------------------------------------------------------------------
(* decodeACMEJWS.                                                          *)

\* A request is delivered, perhaps not for the first time: its nonce is consumed
\* before anything else of it is looked at.  What the client signed matters only
\* if the nonce is good, so it is chosen here.
Deliver(p, n, r) ==
    /\ pc[p] = "idle" /\ issuedAt[n] >= 0
    /\ Consume(n, clock)
    /\ Goto(p, "decode")
    /\ req' = [req EXCEPT ![p] = r]
    /\ UNCHANGED <<clock, isolated, accounts, row>>

RefuseNonce(n) ==
    /\ issuedAt[n] >= 0
    /\ Refuse(n, clock)
    /\ UNCHANGED <<clock, isolated, accounts, local>>

\* The account of the request exists and its key verifies the signature; a
\* request without an account carries the key that verifies it.
Signed(r) ==
    r.account # NoAccount =>
        /\ account[r.account].status # "none"
        /\ account[r.account].key # NoKey
        /\ r.signer = account[r.account].key

DecodeJWS(p) ==
    LET r == req[p] IN
    /\ pc[p] = "decode"
    /\ \/ /\ Signed(r)
          /\ Goto(p, CASE r.op = "new" -> "list" [] r.op = "rekey" -> "oldkey" [] OTHER -> "read")
          /\ UNCHANGED <<req, row>>
       \/ ~Signed(r) /\ Finish(p)
    /\ UNCHANGED <<clock, isolated, accounts, nonceVars>>

-----------------------------------------------------------------------------
(* Accounts.                                                               *)

\* Faulty variant of KeyFree: the unique index is missing.
KeyFreeAlways(a, k) == TRUE

\* The unique index on acme_accounts(key_thumbprint).
KeyFree(a, k) == \A b \in Accounts \ {a} : account[b].status # "none" => account[b].key # k

\* CreateOrGetACMEAccount looks for the key outside a transaction.
FindAccount(p) ==
    /\ pc[p] = "list"
    /\ IF \E a \in Accounts : account[a].status # "none" /\ account[a].key = req[p].key
         THEN Answer(p)
         ELSE Goto(p, "create") /\ UNCHANGED <<req, row, nonceVars>>
    /\ UNCHANGED <<clock, isolated, accounts>>

\* createACMEAccount inserts the row; the index may refuse it.
CreateAccount(p, a) ==
    LET k == req[p].key IN
    /\ pc[p] = "create" /\ MayBegin /\ account[a].status = "none"
    /\ \/ /\ KeyFree(a, k)
          /\ account' = [account EXCEPT ![a] = [status |-> "valid", key |-> k]]
          /\ used' = [used EXCEPT ![a] = {k}]
          /\ latest' = [latest EXCEPT ![a] = k]
          /\ Answer(p)
       \/ ~KeyFree(a, k) /\ Finish(p) /\ UNCHANGED <<accounts, nonceVars>>
    /\ UNCHANGED <<clock, isolated>>

\* createACMEAccount of the management API: an account without a key.
OperatorCreatesAccount(a) ==
    /\ account[a].status = "none" /\ MayBegin
    /\ account' = [account EXCEPT ![a].status = "valid"]
    /\ UNCHANGED <<clock, isolated, used, latest, local, nonceVars>>

\* acmeKeyChange compares the old key of the inner request, the one the client
\* signed with, with the account as it is now, outside a transaction.
CheckOldKey(p) ==
    LET r == req[p] IN
    /\ pc[p] = "oldkey"
    /\ IF account[r.account].key = r.signer
         THEN Goto(p, "read") /\ UNCHANGED <<req, row>>
         ELSE Finish(p)
    /\ UNCHANGED <<clock, isolated, accounts, nonceVars>>

\* UpdateACMEAccount, UpdateACMEAccountKey: the transaction reads the row ...
ReadRow(p) ==
    LET a == req[p].account IN
    /\ pc[p] = "read" /\ MayBegin
    /\ \/ /\ account[a].status = "valid"
          /\ row' = [row EXCEPT ![p] = account[a]]
          /\ Goto(p, "write")
          /\ UNCHANGED req
       \/ account[a].status # "valid" /\ Finish(p)
    /\ UNCHANGED <<clock, isolated, accounts, nonceVars>>

\* The row a request makes of the one it read.
Changed(r, old) ==
    CASE r.op = "rekey"      -> [old EXCEPT !.key = r.key]
      [] r.op = "deactivate" -> [old EXCEPT !.status = "deactivated"]
      [] OTHER               -> old

\* The WHERE clause of UpdateACMEAccountIfStatus.
IfStatus(a) == account[a].status = "valid"

\* ... and writes all of it back, if the account is still valid.
WriteRow(p) ==
    LET r   == req[p]
        a   == r.account
        new == Changed(r, row[p])
    IN
    /\ pc[p] = "write"
    /\ \/ /\ IfStatus(a) /\ KeyFree(a, new.key)
          /\ account' = [account EXCEPT ![a] = new]
          /\ used' = [used EXCEPT ![a] = @ \cup {new.key}]
          /\ latest' = IF r.op = "rekey" THEN [latest EXCEPT ![a] = r.key] ELSE latest
          /\ Answer(p)
       \/ ~(IfStatus(a) /\ KeyFree(a, new.key)) /\ Finish(p) /\ UNCHANGED <<accounts, nonceVars>>
    /\ UNCHANGED <<clock, isolated>>

-----------------------------------------------------------------------------
Tick ==
    /\ clock < MaxTime
    /\ clock' = clock + 1
    /\ UNCHANGED <<isolated, accounts, local, nonceVars>>

\* The request fails half way: an open transaction rolls back.
Abort(p) ==
    /\ pc[p] # "idle"
    /\ Finish(p)
    /\ UNCHANGED <<clock, isolated, accounts, nonceVars>>

Next ==
    \/ \E p \in Procs :
          \/ DecodeJWS(p) \/ FindAccount(p) \/ CheckOldKey(p) \/ ReadRow(p) \/ WriteRow(p) \/ Abort(p)
          \/ \E a \in Accounts : CreateAccount(p, a)
          \/ \E n \in Nonces, r \in Requests : Deliver(p, n, r)
    \/ \E n \in Nonces : NewNonce(n) \/ RefuseNonce(n)
    \/ \E a \in Accounts : OperatorCreatesAccount(a)
    \/ Tick

Spec == Init /\ [][Next]_vars

-----------------------------------------------------------------------------
(* Properties.                                                             *)

TypeOK ==
    /\ clock \in 0..MaxTime
    /\ isolated \in BOOLEAN
    /\ account \in [Accounts -> Row]
    /\ pc \in [Procs -> {"idle", "decode", "list", "create", "oldkey", "read", "write"}]
    /\ req \in [Procs -> Requests \cup {NoRequest}]
    /\ row \in [Procs -> Row]
    /\ used \in [Accounts -> SUBSET (Keys \cup {NoKey})]
    /\ latest \in [Accounts -> Keys \cup {NoKey}]
    /\ NonceTypeOK

\* Two accounts never share a key, whatever creations and key changes overlap:
\* CreateOrGetACMEAccount and acmeKeyChange look before they write, and the
\* unique index decides.
OneAccountPerKey ==
    \A a, b \in Accounts :
        (a # b /\ account[a].key # NoKey) => account[a].key # account[b].key

\* Where transactions run alone, a key change is not undone: the account keeps
\* the key the last change gave it, although UpdateACMEAccount writes back a key
\* it has read (UpdateACMEAccountIfStatus compares the status only).
KeyChangeKept == isolated => \A a \in Accounts : account[a].key = latest[a]

\* A deactivated account stays as it is, although updates that read it before
\* are still running.
DeactivatedForGood ==
    [][\A a \in Accounts : account[a].status = "deactivated" => account'[a] = account[a]]_vars

\* A handler that is about to change an account works for a client whose key the
\* account has, or has had since the account was opened: decodeACMEJWS verifies
\* the signature under the stored key and never under one the client names.
KeyHolderActs ==
    \A p \in Procs : pc[p] \in {"oldkey", "read", "write"} =>
        req[p].signer \in used[req[p].account]

\* An unused nonce stays good until it expires, or until a full memory store has
\* handed out as many younger ones as it holds.
NoncesKept == KeptUntilFull(clock)
=============================================================================
