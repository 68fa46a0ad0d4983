------------------------- MODULE AcmeAccountsProofs -------------------------
(* Theorems about AcmeAccounts and its nonces, for every set of handlers,    *)
(* accounts, keys and nonces, every lifetime and size of the nonce store.    *)
EXTENDS AcmeAccounts, FiniteSetTheorems, TLAPS

-----------------------------------------------------------------------------
(* The inductive invariant.                                                  *)

\* What a handler has established when it stands at a label.
HandlerOK ==
    \A p \in Procs :
        /\ pc[p] # "idle" => req[p] \in Requests
        /\ pc[p] \in {"oldkey", "read", "write"} => req[p].account \in Accounts
        /\ pc[p] = "write" => row[p].status = "valid"

\* An account has one of the keys it was seen with; without a row it has none.
KeysRecorded ==
    \A a \in Accounts :
        /\ account[a].status = "none" => account[a].key = NoKey /\ used[a] = {}
        /\ account[a].key # NoKey => account[a].key \in used[a]

\* An isolated store has one open update, and the row it read is the stored one.
OneWriter ==
    isolated => \A p, q \in Procs : pc[p] = "write" =>
        /\ pc[q] = "write" => q = p
        /\ row[p].key = account[req[p].account].key

\* The nonces that were issued.
Given == {n \in Nonces : issuedAt[n] >= 0}

\* Only finitely many nonces were issued, none of them ahead of the clock, and
\* only those are stored or used.
GivenOK ==
    /\ IsFiniteSet(Given) /\ stored \subseteq Given
    /\ \A n \in Nonces : issuedAt[n] <= clock /\ (consumed[n] # 0 => n \in Given)

\* The other nonces that are as young as n.
AsYoung(n) == {m \in Nonces \ {n} : issuedAt[m] >= issuedAt[n]}

AccountInv ==
    HandlerOK /\ KeysRecorded /\ OneWriter /\ OneAccountPerKey /\ KeyChangeKept /\ KeyHolderActs

Inv == TypeOK /\ AccountInv /\ GivenOK /\ NonceOnce /\ NoncesKept

-----------------------------------------------------------------------------
(* The nonce store.                                                          *)

\* What a step may do to the store: nothing, hand out a nonce, accept one or
\* refuse one.
NonceStep ==
    \/ UNCHANGED nonceVars
    \/ \E n \in Nonces : Issue(n, clock) \/ Consume(n, clock) \/ Refuse(n, clock)

\* The store keeps its types.
LEMMA NonceTypeStep ==
    ASSUME NonceTypeOK, clock \in Nat, NonceStep
    PROVE  NonceTypeOK'
<1>1. CASE UNCHANGED nonceVars
    BY Zenon, <1>1 DEF NonceTypeOK, nonceVars
<1>2. ASSUME NEW n \in Nonces, Issue(n, clock)
      PROVE  NonceTypeOK'
    <2>1. stored' \subseteq Nonces
        BY Zenon, <1>2 DEF NonceTypeOK, Issue, Live
    <2> QED BY Zenon, <1>2, <2>1 DEF NonceTypeOK, Issue
<1>3. ASSUME NEW n \in Nonces, Consume(n, clock)
      PROVE  NonceTypeOK'
    <2>1. stored' \subseteq Nonces
        BY Zenon, <1>3 DEF NonceTypeOK, Consume, Live
    <2> QED BY <1>3, <2>1 DEF NonceTypeOK, Consume
<1>4. ASSUME NEW n \in Nonces, Refuse(n, clock)
      PROVE  NonceTypeOK'
    BY Zenon, <1>4 DEF NonceTypeOK, Refuse, Live
<1> QED BY Zenon, <1>1, <1>2, <1>3, <1>4 DEF NonceStep

\* Only a nonce that is handed out joins the store.
LEMMA StoredStep ==
    ASSUME NonceTypeOK, clock \in Nat, NonceStep
    PROVE  /\ \A n \in Nonces : issuedAt[n] >= 0 => issuedAt'[n] = issuedAt[n]
           /\ \A n \in stored' : n \in stored \/ (issuedAt[n] = -1 /\ consumed'[n] = consumed[n])
           /\ stored' \subseteq Nonces
           /\ inMemory' = inMemory
<1>1. stored' \subseteq Nonces
    BY Zenon, NonceTypeStep DEF NonceTypeOK
<1>2. CASE UNCHANGED nonceVars
    BY Zenon, <1>1, <1>2 DEF NonceTypeOK, nonceVars
<1>3. ASSUME NEW n \in Nonces, Issue(n, clock)
      PROVE  /\ \A m \in Nonces : issuedAt[m] >= 0 => issuedAt'[m] = issuedAt[m]
             /\ \A m \in stored' : m \in stored \/ (issuedAt[m] = -1 /\ consumed'[m] = consumed[m])
             /\ inMemory' = inMemory
    <2>1. stored' \subseteq stored \cup {n}
        BY Zenon, <1>3 DEF Issue, Live
    <2> QED BY <1>3, <2>1 DEF NonceTypeOK, Issue
<1>4. ASSUME NEW n \in Nonces, Consume(n, clock) \/ Refuse(n, clock)
      PROVE  stored' \subseteq stored /\ UNCHANGED <<issuedAt, inMemory>>
    BY Zenon, <1>4 DEF Consume, Refuse, Live
<1> QED BY Zenon, <1>1, <1>2, <1>3, <1>4 DEF NonceStep

\* Finitely many nonces are out.
LEMMA GivenStep ==
    ASSUME NonceTypeOK, clock \in Nat, UNCHANGED clock, GivenOK, NonceStep
    PROVE  GivenOK'
<1>1. CASE UNCHANGED nonceVars
    BY Zenon, <1>1 DEF GivenOK, Given, nonceVars
<1>2. ASSUME NEW n \in Nonces, Issue(n, clock)
      PROVE  GivenOK'
    <2>1. Given' = Given \cup {n}
        BY <1>2 DEF Given, Issue, NonceTypeOK
    <2>2. IsFiniteSet(Given')
        BY Zenon, <2>1, FS_AddElement DEF GivenOK
    <2>3. stored' \subseteq stored \cup {n} /\ consumed' = consumed
        BY Zenon, <1>2 DEF Issue, Live
    <2>4. \A m \in Nonces : issuedAt'[m] <= clock'
        BY <1>2 DEF Issue, NonceTypeOK, GivenOK
    <2> QED BY Zenon, <2>1, <2>2, <2>3, <2>4 DEF GivenOK
<1>3. ASSUME NEW n \in Nonces, Consume(n, clock)
      PROVE  GivenOK'
    <2>1. stored' \subseteq stored /\ n \in stored /\ Given' = Given /\ issuedAt' = issuedAt
        BY Zenon, <1>3 DEF Consume, Live, Given
    <2>2. \A m \in Nonces : consumed'[m] # 0 => m = n \/ consumed[m] # 0
        BY Zenon, <1>3 DEF Consume, NonceTypeOK
    <2> QED BY Zenon, <2>1, <2>2 DEF GivenOK
<1>4. ASSUME NEW n \in Nonces, Refuse(n, clock)
      PROVE  GivenOK'
    <2>1. stored' \subseteq stored /\ Given' = Given /\ UNCHANGED <<consumed, issuedAt>>
        BY Zenon, <1>4 DEF Refuse, Live, Given
    <2> QED BY Zenon, <2>1 DEF GivenOK
<1> QED BY Zenon, <1>1, <1>2, <1>3, <1>4 DEF NonceStep

\* A nonce is accepted once: accepting it takes it out of the store.
LEMMA OnceStep ==
    ASSUME NonceTypeOK, clock \in Nat, GivenOK, NonceOnce, NonceStep
    PROVE  NonceOnce'
<1>1. CASE UNCHANGED nonceVars
    BY Zenon, <1>1 DEF NonceOnce, nonceVars
<1>2. ASSUME NEW n \in Nonces, Issue(n, clock)
      PROVE  NonceOnce'
    <2>1. stored' \subseteq stored \cup {n} /\ consumed' = consumed
        BY Zenon, <1>2 DEF Issue, Live
    <2>2. consumed[n] = 0
        BY <1>2 DEF Issue, GivenOK, Given
    <2> QED BY Zenon, <2>1, <2>2 DEF NonceOnce
<1>3. ASSUME NEW n \in Nonces, Consume(n, clock)
      PROVE  NonceOnce'
    <2>1. stored' \subseteq stored \ {n} /\ n \in stored
        BY Zenon, <1>3 DEF Consume, Live
    <2>2. consumed'[n] = 1 /\ \A m \in Nonces \ {n} : consumed'[m] = consumed[m]
        BY <1>3, <2>1 DEF Consume, NonceTypeOK, NonceOnce
    <2> QED BY <2>1, <2>2 DEF NonceOnce
<1>4. ASSUME NEW n \in Nonces, Refuse(n, clock)
      PROVE  NonceOnce'
    <2>1. stored' \subseteq stored /\ consumed' = consumed
        BY Zenon, <1>4 DEF Refuse, Live
    <2> QED BY Zenon, <2>1 DEF NonceOnce
<1> QED BY Zenon, <1>1, <1>2, <1>3, <1>4 DEF NonceStep

\* Handing out a nonce evicts another only when the store is full of nonces that
\* are as young.
LEMMA EvictionLeavesFull ==
    ASSUME NonceTypeOK, clock \in Nat, UNCHANGED clock, GivenOK, NEW n \in Nonces, Issue(n, clock),
           NEW m \in stored \ stored', issuedAt[m] + TTL > clock
    PROVE  inMemory /\ Cardinality(AsYoung(m)') >= MaxNonces
<1> DEFINE S == Live(stored, clock)
<1>1. m \in S /\ m \in Nonces /\ S \subseteq Given
    BY Zenon DEF Live, NonceTypeOK, GivenOK
<1>2. inMemory
    BY Zenon, <1>1 DEF Issue
<1>3. PICK T \in SUBSET S : Evicted(S, T) /\ stored' = T \cup {n}
    BY Zenon, <1>2 DEF Issue
<1>4. IsFiniteSet(S) /\ IsFiniteSet(T) /\ Cardinality(S) \in Nat /\ Cardinality(T) \in Nat
    BY Zenon, <1>1, FS_Subset, FS_CardinalityType DEF GivenOK
<1>5. m \notin T /\ m # n
    BY Zenon, <1>1, <1>3 DEF Issue, Given
<1>6. Cardinality(T) = MaxNonces - 1
    <2>1. Cardinality(T) # Cardinality(S)
        BY Zenon, <1>1, <1>4, <1>5, FS_Subset
    <2> QED BY Zenon, <1>3, <2>1 DEF Evicted
<1>7. n \notin T
    BY <1>1 DEF Issue, Given
<1>8. Cardinality(T \cup {n}) = MaxNonces
    <2>1. Cardinality(T \cup {n}) = Cardinality(T) + 1
        BY Zenon, <1>4, <1>7, FS_AddElement
    <2> QED BY <1>6, <2>1, NonceAssumption
<1>9. T \cup {n} \subseteq AsYoung(m)'
    <2>1. \A x \in T : issuedAt[m] <= issuedAt[x]
        BY Zenon, <1>1, <1>3, <1>5 DEF Evicted
    <2>2. issuedAt'[n] = clock /\ \A x \in Nonces \ {n} : issuedAt'[x] = issuedAt[x]
        BY Zenon DEF Issue, NonceTypeOK
    <2>3. T \subseteq Nonces \ {n, m}
        BY Zenon, <1>1, <1>5, <1>7 DEF Given
    <2>4. issuedAt[m] <= clock
        BY Zenon, <1>1 DEF GivenOK
    <2> QED BY Zenon, <1>1, <1>5, <2>1, <2>2, <2>3, <2>4 DEF AsYoung, NonceTypeOK
<1>10. IsFiniteSet(AsYoung(m)')
    <2>1. GivenOK'
        BY Zenon, GivenStep DEF NonceStep
    <2>2. issuedAt'[m] >= 0
        BY Zenon, <1>1, <1>5 DEF Given, Issue, NonceTypeOK
    <2>3. NonceTypeOK'
        BY Zenon, NonceTypeStep DEF NonceStep
    <2>4. AsYoung(m)' \subseteq Given'
        BY <1>1, <2>2, <2>3 DEF AsYoung, Given, NonceTypeOK
    <2> QED BY Zenon, <2>1, <2>4, FS_Subset DEF GivenOK
<1> QED BY Zenon, <1>2, <1>8, <1>9, <1>10, FS_Subset, FS_CardinalityType, NonceAssumption

\* The store keeps what is unused until it is full of younger nonces.
LEMMA KeptStep ==
    ASSUME NonceTypeOK, clock \in Nat, UNCHANGED clock, GivenOK, NonceOnce, NoncesKept, NonceStep
    PROVE  NoncesKept'
<1> SUFFICES ASSUME NEW m \in Nonces, m \notin stored', issuedAt'[m] >= 0, consumed'[m] = 0,
                    issuedAt'[m] + TTL > clock
             PROVE  inMemory' /\ Cardinality(AsYoung(m)') >= MaxNonces
    BY Zenon DEF NoncesKept, KeptUntilFull, AsYoung
<1>1. GivenOK' /\ NonceTypeOK'
    BY Zenon, GivenStep, NonceTypeStep
<1>2. CASE UNCHANGED nonceVars
    BY Zenon, <1>2 DEF NoncesKept, KeptUntilFull, AsYoung, nonceVars
<1>3. ASSUME issuedAt[m] >= 0, m \notin stored, consumed[m] = 0
      PROVE  inMemory' /\ Cardinality(AsYoung(m)') >= MaxNonces
    <2>1. issuedAt'[m] = issuedAt[m] /\ inMemory' = inMemory
        BY Zenon, <1>3, StoredStep
    <2>2. inMemory /\ Cardinality(AsYoung(m)) >= MaxNonces
        BY Zenon, <1>3, <2>1 DEF NoncesKept, KeptUntilFull, AsYoung
    <2>3. AsYoung(m) \subseteq AsYoung(m)'
        BY <1>1, <1>3, <2>1, StoredStep DEF AsYoung, NonceTypeOK
    <2>4. AsYoung(m)' \subseteq Given'
        BY <1>1 DEF AsYoung, Given, NonceTypeOK
    <2>5. IsFiniteSet(AsYoung(m)') /\ IsFiniteSet(AsYoung(m))
        BY Zenon, <1>1, <2>3, <2>4, FS_Subset DEF GivenOK
    <2> QED BY <2>1, <2>2, <2>3, <2>5, FS_Subset, FS_CardinalityType, NonceAssumption
<1>4. ASSUME NEW n \in Nonces, Issue(n, clock)
      PROVE  inMemory' /\ Cardinality(AsYoung(m)') >= MaxNonces
    <2>1. m # n /\ issuedAt'[m] = issuedAt[m] /\ consumed'[m] = consumed[m] /\ inMemory' = inMemory
        BY Zenon, <1>4 DEF Issue, NonceTypeOK
    <2>2. CASE m \in stored
        BY Zenon, <1>4, <2>1, <2>2, EvictionLeavesFull
    <2> QED BY Zenon, <1>3, <2>1, <2>2
<1>5. ASSUME NEW n \in Nonces, Consume(n, clock)
      PROVE  inMemory' /\ Cardinality(AsYoung(m)') >= MaxNonces
    <2>1. issuedAt' = issuedAt
        BY Zenon, <1>5 DEF Consume
    <2>2. m # n /\ consumed'[m] = consumed[m]
        BY <1>5 DEF Consume, NonceTypeOK
    <2>3. m \notin stored
        BY Zenon, <1>5, <2>1, <2>2 DEF Consume, Live
    <2> QED BY Zenon, <1>3, <2>1, <2>2, <2>3
<1>6. ASSUME NEW n \in Nonces, Refuse(n, clock)
      PROVE  inMemory' /\ Cardinality(AsYoung(m)') >= MaxNonces
    <2>1. issuedAt' = issuedAt /\ consumed' = consumed /\ m \notin stored
        BY Zenon, <1>6 DEF Refuse, Live
    <2> QED BY Zenon, <1>3, <2>1
<1> QED BY Zenon, <1>2, <1>4, <1>5, <1>6 DEF NonceStep

-----------------------------------------------------------------------------
(* Accounts.                                                                 *)

\* The ways a handler ends its work.
LEMMA FinishFacts ==
    ASSUME TypeOK, HandlerOK, NEW p \in Procs, Finish(p)
    PROVE  /\ pc' \in [Procs -> {"idle", "decode", "list", "create", "oldkey", "read", "write"}]
           /\ req' \in [Procs -> Requests \cup {NoRequest}]
           /\ row' \in [Procs -> Row]
           /\ pc'[p] = "idle"
           /\ \A q \in Procs \ {p} : pc'[q] = pc[q] /\ req'[q] = req[q] /\ row'[q] = row[q]
           /\ HandlerOK'
<1>1. NoRow \in Row
    BY Zenon DEF NoRow, Row
<1>2. /\ pc' \in [Procs -> {"idle", "decode", "list", "create", "oldkey", "read", "write"}]
      /\ req' \in [Procs -> Requests \cup {NoRequest}]
      /\ row' \in [Procs -> Row]
    BY Zenon, <1>1 DEF TypeOK, Finish, Goto
<1>3. /\ pc'[p] = "idle"
      /\ \A q \in Procs \ {p} : pc'[q] = pc[q] /\ req'[q] = req[q] /\ row'[q] = row[q]
    BY Zenon DEF TypeOK, Finish, Goto
<1> QED BY Zenon, <1>2, <1>3 DEF HandlerOK

\* An answer leaves the nonce store as a nonce step does.
LEMMA AnswerFacts ==
    ASSUME NEW p \in Procs, Answer(p)
    PROVE  Finish(p) /\ NonceStep
BY Zenon DEF Answer, NonceStep

\* Every action but that of the clock leaves the nonce store as a nonce step does.
LEMMA EveryNonceStep ==
    ASSUME Next, ~Tick
    PROVE  NonceStep /\ UNCHANGED <<clock, isolated>>
<1>1. ASSUME NEW p \in Procs,
             DecodeJWS(p) \/ FindAccount(p) \/ CheckOldKey(p) \/ ReadRow(p) \/ WriteRow(p) \/ Abort(p)
      PROVE  NonceStep /\ UNCHANGED <<clock, isolated>>
    BY Zenon, <1>1, AnswerFacts DEF DecodeJWS, FindAccount, CheckOldKey, ReadRow, WriteRow, Abort, NonceStep
<1>2. ASSUME NEW p \in Procs, NEW a \in Accounts, CreateAccount(p, a)
      PROVE  NonceStep /\ UNCHANGED <<clock, isolated>>
    BY Zenon, <1>2, AnswerFacts DEF CreateAccount, NonceStep
<1>3. ASSUME NEW p \in Procs, NEW n \in Nonces, NEW r \in Requests, Deliver(p, n, r)
      PROVE  NonceStep /\ UNCHANGED <<clock, isolated>>
    BY Zenon, <1>3 DEF Deliver, NonceStep
<1>4. ASSUME NEW n \in Nonces, NewNonce(n) \/ RefuseNonce(n)
      PROVE  NonceStep /\ UNCHANGED <<clock, isolated>>
    BY Zenon, <1>4 DEF NewNonce, RefuseNonce, NonceStep
<1>5. ASSUME NEW a \in Accounts, OperatorCreatesAccount(a)
      PROVE  NonceStep /\ UNCHANGED <<clock, isolated>>
    BY Zenon, <1>5 DEF OperatorCreatesAccount, NonceStep
<1> QED BY Zenon, <1>1, <1>2, <1>3, <1>4, <1>5 DEF Next

\* The row an update writes: its key is the one it read or the one it was asked
\* for, and its status is valid or deactivated.
LEMMA ChangedFacts ==
    ASSUME NEW r \in Requests, NEW old \in Row, old.status = "valid"
    PROVE  /\ Changed(r, old) \in Row
           /\ Changed(r, old).status \in {"valid", "deactivated"}
           /\ Changed(r, old).key = IF r.op = "rekey" THEN r.key ELSE old.key
<1>1. r.op \in {"new", "contacts", "deactivate", "rekey"} /\ r.key \in Keys
    BY Zenon DEF Requests
<1>2. CASE r.op = "rekey"
    BY Zenon, <1>1, <1>2 DEF Changed, Row
<1>3. CASE r.op = "deactivate"
    BY Zenon, <1>1, <1>3 DEF Changed, Row
<1>4. CASE r.op \in {"new", "contacts"}
    BY Zenon, <1>1, <1>4 DEF Changed, Row
<1> QED BY Zenon, <1>1, <1>2, <1>3, <1>4

\* A step of handler p that leaves the accounts alone.
LEMMA LocalStep ==
    ASSUME TypeOK, AccountInv, UNCHANGED <<isolated, accounts>>, NEW p \in Procs, HandlerOK',
           \A q \in Procs \ {p} : pc'[q] = pc[q] /\ req'[q] = req[q] /\ row'[q] = row[q],
           pc'[p] \in {"oldkey", "read", "write"} => req'[p].signer \in used[req'[p].account],
           isolated /\ pc'[p] = "write" =>
               /\ row'[p].key = account[req'[p].account].key
               /\ \A q \in Procs \ {p} : pc[q] # "write"
    PROVE  AccountInv'
<1>1. UNCHANGED <<isolated, account, used, latest>>
    BY Zenon DEF accounts
<1>2. KeysRecorded' /\ OneAccountPerKey' /\ KeyChangeKept'
    BY <1>1 DEF AccountInv, KeysRecorded, OneAccountPerKey, KeyChangeKept
<1>3. OneWriter'
    BY <1>1 DEF AccountInv, OneWriter
<1>4. KeyHolderActs'
    BY Zenon, <1>1 DEF AccountInv, KeyHolderActs
<1> QED BY Zenon, <1>2, <1>3, <1>4 DEF AccountInv

\* A handler that ends leaves the rest as it is.
LEMMA FinishStep ==
    ASSUME TypeOK, AccountInv, UNCHANGED <<isolated, accounts>>, NEW p \in Procs, Finish(p)
    PROVE  AccountInv'
<1>1. /\ pc'[p] = "idle" /\ HandlerOK'
      /\ \A q \in Procs \ {p} : pc'[q] = pc[q] /\ req'[q] = req[q] /\ row'[q] = row[q]
    BY Zenon, FinishFacts DEF AccountInv
<1> QED BY Zenon, <1>1, LocalStep

\* A handler that writes row new to account a, with nobody else writing in an
\* isolated store, and ends.
LEMMA TableStep ==
    ASSUME TypeOK, AccountInv, UNCHANGED isolated, NEW p \in Procs, Finish(p),
           NEW a \in Accounts, NEW new \in Row, new.status # "none", KeyFree(a, new.key),
           account' = [account EXCEPT ![a] = new],
           \A q \in Procs \ {p} : isolated => pc[q] # "write",
           used' \in [Accounts -> SUBSET (Keys \cup {NoKey})],
           \A b \in Accounts : b # a => used'[b] = used[b] /\ latest'[b] = latest[b],
           new.key # NoKey => new.key \in used'[a],
           isolated => latest'[a] = new.key,
           \A q \in Procs \ {p} : pc[q] \in {"oldkey", "read", "write"} /\ req[q].account = a =>
               used[a] \subseteq used'[a]
    PROVE  AccountInv'
<1>1. /\ pc'[p] = "idle" /\ HandlerOK'
      /\ \A q \in Procs \ {p} : pc'[q] = pc[q] /\ req'[q] = req[q] /\ row'[q] = row[q]
    BY Zenon, FinishFacts DEF AccountInv
<1>2. account'[a] = new /\ \A b \in Accounts : b # a => account'[b] = account[b]
    BY Zenon DEF TypeOK
<1>3. KeysRecorded'
    BY <1>2 DEF AccountInv, KeysRecorded
<1>4. OneWriter'
    BY Zenon, <1>1 DEF OneWriter
<1>5. OneAccountPerKey'
    <2>1. \A b \in Accounts : b # a /\ new.key # NoKey => account[b].key # new.key
        BY Zenon DEF KeyFree, AccountInv, KeysRecorded
    <2> QED BY <1>2, <2>1 DEF AccountInv, OneAccountPerKey
<1>6. KeyChangeKept'
    BY Zenon, <1>2 DEF AccountInv, KeyChangeKept
<1>7. KeyHolderActs'
    <2> SUFFICES ASSUME NEW q \in Procs, pc'[q] \in {"oldkey", "read", "write"}
                 PROVE  req'[q].signer \in used'[req'[q].account]
        BY Zenon DEF KeyHolderActs
    <2>1. q # p /\ pc'[q] = pc[q] /\ req'[q] = req[q]
        BY Zenon, <1>1
    <2>2. req[q].account \in Accounts /\ req[q].signer \in used[req[q].account]
        BY Zenon, <2>1 DEF AccountInv, HandlerOK, KeyHolderActs
    <2> QED BY <2>1, <2>2
<1> QED BY Zenon, <1>1, <1>3, <1>4, <1>5, <1>6, <1>7 DEF AccountInv

\* What the operations keep of accounts and handlers.
LEMMA AccountStep ==
    ASSUME TypeOK, AccountInv, [Next]_vars
    PROVE  AccountInv'
<1> USE DEF accounts
<1>1. ASSUME NEW p \in Procs, DecodeJWS(p)
      PROVE  AccountInv'
    <2>1. req[p] \in Requests /\ UNCHANGED <<isolated, accounts>>
        BY Zenon, <1>1 DEF DecodeJWS, AccountInv, HandlerOK
    <2>2. CASE Finish(p)
        BY Zenon, <2>1, <2>2, FinishStep
    <2>3. CASE ~Finish(p)
        <3>1. /\ Signed(req[p]) /\ UNCHANGED <<req, row>>
              /\ pc' = [pc EXCEPT ![p] = CASE req[p].op = "new" -> "list" [] req[p].op = "rekey" -> "oldkey"
                                          [] OTHER -> "read"]
            BY Zenon, <1>1, <2>3 DEF DecodeJWS, Goto
        <3>2. req[p].op = "new" <=> req[p].account = NoAccount
            BY Zenon, <2>1 DEF Requests
        <3>3. req[p].account \in Accounts \cup {NoAccount}
            BY Zenon, <2>1 DEF Requests
        <3>4. /\ pc'[p] \in {"list", "oldkey", "read"}
              /\ pc'[p] # "list" => req[p].op # "new"
              /\ \A q \in Procs \ {p} : pc'[q] = pc[q]
            BY Zenon, <3>1 DEF TypeOK
        <3>5. pc'[p] # "list" => req[p].account \in Accounts /\ req[p].signer \in used[req[p].account]
            BY Zenon, <3>1, <3>2, <3>3, <3>4 DEF Signed, AccountInv, KeysRecorded
        <3>6. HandlerOK'
            BY Zenon, <2>1, <3>1, <3>4, <3>5 DEF AccountInv, HandlerOK
        <3> QED BY Zenon, <2>1, <3>1, <3>4, <3>5, <3>6, LocalStep
    <2> QED BY Zenon, <2>2, <2>3
<1>2. ASSUME NEW p \in Procs, FindAccount(p)
      PROVE  AccountInv'
    <2>1. pc[p] = "list" /\ UNCHANGED <<isolated, accounts>>
        BY Zenon, <1>2 DEF FindAccount
    <2>2. CASE Finish(p)
        BY Zenon, <2>1, <2>2, FinishStep
    <2>3. CASE ~Finish(p)
        <3>1. pc' = [pc EXCEPT ![p] = "create"] /\ UNCHANGED <<req, row>>
            BY Zenon, <1>2, <2>3 DEF FindAccount, Answer, Goto
        <3>2. pc'[p] = "create" /\ \A q \in Procs \ {p} : pc'[q] = pc[q]
            BY Zenon, <3>1 DEF TypeOK
        <3>3. HandlerOK'
            BY Zenon, <2>1, <3>1, <3>2 DEF AccountInv, HandlerOK
        <3> QED BY Zenon, <2>1, <3>1, <3>2, <3>3, LocalStep
    <2> QED BY Zenon, <2>2, <2>3
<1>3. ASSUME NEW p \in Procs, CheckOldKey(p)
      PROVE  AccountInv'
    <2>1. pc[p] = "oldkey" /\ UNCHANGED <<isolated, accounts>>
        BY Zenon, <1>3 DEF CheckOldKey
    <2>2. CASE Finish(p)
        BY Zenon, <2>1, <2>2, FinishStep
    <2>3. CASE ~Finish(p)
        <3>1. pc' = [pc EXCEPT ![p] = "read"] /\ UNCHANGED <<req, row>>
            BY Zenon, <1>3, <2>3 DEF CheckOldKey, Goto
        <3>2. pc'[p] = "read" /\ \A q \in Procs \ {p} : pc'[q] = pc[q]
            BY Zenon, <3>1 DEF TypeOK
        <3>3. HandlerOK'
            BY Zenon, <2>1, <3>1, <3>2 DEF AccountInv, HandlerOK
        <3>4. req[p].signer \in used[req[p].account]
            BY Zenon, <2>1 DEF AccountInv, KeyHolderActs
        <3> QED BY Zenon, <2>1, <3>1, <3>2, <3>3, <3>4, LocalStep
    <2> QED BY Zenon, <2>2, <2>3
<1>4. ASSUME NEW p \in Procs, ReadRow(p)
      PROVE  AccountInv'
    <2>1. pc[p] = "read" /\ MayBegin /\ UNCHANGED <<isolated, accounts>>
        BY Zenon, <1>4 DEF ReadRow
    <2>2. CASE Finish(p)
        BY Zenon, <2>1, <2>2, FinishStep
    <2>3. CASE ~Finish(p)
        <3>1. /\ account[req[p].account].status = "valid"
              /\ row' = [row EXCEPT ![p] = account[req[p].account]]
              /\ pc' = [pc EXCEPT ![p] = "write"] /\ UNCHANGED req
            BY Zenon, <1>4, <2>3 DEF ReadRow, Goto
        <3>2. /\ pc'[p] = "write" /\ row'[p] = account[req[p].account]
              /\ \A q \in Procs \ {p} : pc'[q] = pc[q] /\ row'[q] = row[q]
            BY Zenon, <3>1 DEF TypeOK
        <3>3. HandlerOK'
            BY Zenon, <2>1, <3>1, <3>2 DEF AccountInv, HandlerOK
        <3>4. req[p].signer \in used[req[p].account]
            BY Zenon, <2>1 DEF AccountInv, KeyHolderActs
        <3>5. isolated => \A q \in Procs : pc[q] # "write"
            BY Zenon, <2>1 DEF MayBegin
        <3> QED BY Zenon, <2>1, <3>1, <3>2, <3>3, <3>4, <3>5, LocalStep
    <2> QED BY Zenon, <2>2, <2>3
<1>5. ASSUME NEW p \in Procs, WriteRow(p)
      PROVE  AccountInv'
    <2> DEFINE a == req[p].account
               new == Changed(req[p], row[p])
    <2>1. /\ pc[p] = "write" /\ UNCHANGED isolated /\ Finish(p)
          /\ req[p] \in Requests /\ a \in Accounts /\ row[p] \in Row /\ row[p].status = "valid"
        BY Zenon, <1>5 DEF WriteRow, Answer, AccountInv, HandlerOK, TypeOK
    <2>2. CASE UNCHANGED accounts
        BY Zenon, <2>1, <2>2, FinishStep
    <2>3. CASE ~UNCHANGED accounts
        <3>1. /\ KeyFree(a, new.key)
              /\ account' = [account EXCEPT ![a] = new]
              /\ used' = [used EXCEPT ![a] = @ \cup {new.key}]
              /\ latest' = IF req[p].op = "rekey" THEN [latest EXCEPT ![a] = req[p].key] ELSE latest
            BY Zenon, <1>5, <2>3 DEF WriteRow
        <3>2. /\ new \in Row /\ new.status # "none"
              /\ new.key = IF req[p].op = "rekey" THEN req[p].key ELSE row[p].key
            BY Zenon, <2>1, ChangedFacts
        <3>3. new.key \in Keys \cup {NoKey}
            BY Zenon, <3>2 DEF Row
        <3> HIDE DEF new
        <3>4. used' \in [Accounts -> SUBSET (Keys \cup {NoKey})]
            BY Zenon, <2>1, <3>1, <3>3 DEF TypeOK
        <3>5. /\ used[a] \subseteq used'[a] /\ new.key \in used'[a]
              /\ \A b \in Accounts : b # a => used'[b] = used[b] /\ latest'[b] = latest[b]
            BY Zenon, <2>1, <3>1 DEF TypeOK
        <3>6. isolated => \A q \in Procs \ {p} : pc[q] # "write"
            BY Zenon, <2>1 DEF AccountInv, OneWriter
        <3>7. isolated => latest'[a] = new.key
            <4>1. isolated => row[p].key = account[a].key /\ account[a].key = latest[a]
                BY Zenon, <2>1 DEF AccountInv, OneWriter, KeyChangeKept
            <4> QED BY Zenon, <2>1, <3>1, <3>2, <4>1 DEF TypeOK
        <3> HIDE DEF a
        <3>8. PICK b \in Accounts, w \in Row : b = a /\ w = new
            BY Zenon, <2>1, <3>2
        <3>9. /\ w.status # "none" /\ KeyFree(b, w.key) /\ account' = [account EXCEPT ![b] = w]
              /\ \A c \in Accounts : c # b => used'[c] = used[c] /\ latest'[c] = latest[c]
              /\ w.key \in used'[b] /\ used[b] \subseteq used'[b]
              /\ isolated => latest'[b] = w.key
            BY Zenon, <3>1, <3>2, <3>5, <3>7, <3>8
        <3> QED BY Zenon, <2>1, <3>4, <3>6, <3>9, TableStep
    <2> QED BY Zenon, <2>2, <2>3
<1>6. ASSUME NEW p \in Procs, Abort(p)
      PROVE  AccountInv'
    BY Zenon, <1>6, FinishStep DEF Abort
<1>7. ASSUME NEW p \in Procs, NEW a \in Accounts, CreateAccount(p, a)
      PROVE  AccountInv'
    <2> DEFINE k == req[p].key
    <2>1. /\ pc[p] = "create" /\ UNCHANGED isolated /\ Finish(p) /\ MayBegin
          /\ account[a].status = "none"
        BY Zenon, <1>7 DEF CreateAccount, Answer
    <2>2. CASE UNCHANGED accounts
        BY Zenon, <2>1, <2>2, FinishStep
    <2>3. CASE ~UNCHANGED accounts
        <3> DEFINE new == [status |-> "valid", key |-> k]
        <3>1. /\ KeyFree(a, k)
              /\ account' = [account EXCEPT ![a] = new]
              /\ used' = [used EXCEPT ![a] = {k}]
              /\ latest' = [latest EXCEPT ![a] = k]
            BY Zenon, <1>7, <2>3 DEF CreateAccount
        <3>2. k \in Keys
            BY Zenon, <2>1 DEF AccountInv, HandlerOK, Requests
        <3>3. new \in Row /\ new.status # "none" /\ new.key = k
            BY Zenon, <3>2 DEF Row
        <3>4. /\ used' \in [Accounts -> SUBSET (Keys \cup {NoKey})]
              /\ k \in used'[a] /\ latest'[a] = k
              /\ \A b \in Accounts : b # a => used'[b] = used[b] /\ latest'[b] = latest[b]
            BY Zenon, <3>1, <3>2 DEF TypeOK
        <3>5. used[a] = {}
            BY Zenon, <2>1 DEF AccountInv, KeysRecorded
        <3>6. isolated => \A q \in Procs \ {p} : pc[q] # "write"
            BY Zenon, <2>1 DEF MayBegin
        <3> HIDE DEF new, k
        <3> QED BY ZenonT(60), <2>1, <3>1, <3>3, <3>4, <3>5, <3>6, TableStep
    <2> QED BY Zenon, <2>2, <2>3
<1>8. ASSUME NEW p \in Procs, NEW n \in Nonces, NEW r \in Requests, Deliver(p, n, r)
      PROVE  AccountInv'
    <2>1. /\ UNCHANGED <<isolated, accounts, row>> /\ pc' = [pc EXCEPT ![p] = "decode"]
          /\ req' = [req EXCEPT ![p] = r]
        BY Zenon, <1>8 DEF Deliver, Goto
    <2>2. /\ pc'[p] = "decode" /\ req'[p] = r
          /\ \A q \in Procs \ {p} : pc'[q] = pc[q] /\ req'[q] = req[q]
        BY Zenon, <2>1 DEF TypeOK
    <2>3. HandlerOK'
        BY Zenon, <2>1, <2>2 DEF AccountInv, HandlerOK
    <2> QED BY Zenon, <2>1, <2>2, <2>3, LocalStep
<1>9. ASSUME NEW a \in Accounts, OperatorCreatesAccount(a)
      PROVE  AccountInv'
    <2>1. /\ account[a].status = "none" /\ MayBegin /\ UNCHANGED <<isolated, used, latest, pc, req, row>>
          /\ account' = [account EXCEPT ![a].status = "valid"]
        BY Zenon, <1>9 DEF OperatorCreatesAccount, local
    <2>2. /\ \A b \in Accounts : account'[b].key = account[b].key
          /\ \A b \in Accounts : account'[b].status = "none" => account[b].status = "none"
        BY Zenon, <2>1 DEF TypeOK, Row
    <2>3. KeysRecorded' /\ OneAccountPerKey' /\ KeyChangeKept'
        BY <2>1, <2>2 DEF AccountInv, KeysRecorded, OneAccountPerKey, KeyChangeKept
    <2>4. HandlerOK' /\ KeyHolderActs'
        BY Zenon, <2>1 DEF AccountInv, HandlerOK, KeyHolderActs
    <2>5. OneWriter'
        BY Zenon, <2>1 DEF MayBegin, OneWriter
    <2> QED BY Zenon, <2>3, <2>4, <2>5 DEF AccountInv
<1>10. ASSUME UNCHANGED <<isolated, accounts, local>>
       PROVE  AccountInv'
    BY Zenon, <1>10 DEF local, AccountInv, HandlerOK, KeysRecorded, OneWriter, OneAccountPerKey, KeyChangeKept,
                 KeyHolderActs
<1>11. ASSUME NEW n \in Nonces, NewNonce(n) \/ RefuseNonce(n)
       PROVE  AccountInv'
    BY Zenon, <1>10, <1>11 DEF NewNonce, RefuseNonce
<1>12. CASE Tick \/ UNCHANGED vars
    BY Zenon, <1>10, <1>12 DEF Tick, vars
<1> QED BY Zenon, <1>1, <1>2, <1>3, <1>4, <1>5, <1>6, <1>7, <1>8, <1>9, <1>11, <1>12 DEF Next

-----------------------------------------------------------------------------
(* Types.                                                                    *)

\* Every step keeps the types.
LEMMA TypeStep ==
    ASSUME TypeOK, AccountInv, [Next]_vars
    PROVE  TypeOK'
<1> USE DEF accounts, local
<1> DEFINE Tables == /\ account \in [Accounts -> Row]
                     /\ used \in [Accounts -> SUBSET (Keys \cup {NoKey})]
                     /\ latest \in [Accounts -> Keys \cup {NoKey}]
           Handlers == /\ pc \in [Procs -> {"idle", "decode", "list", "create", "oldkey", "read", "write"}]
                       /\ req \in [Procs -> Requests \cup {NoRequest}]
                       /\ row \in [Procs -> Row]
<1>1. clock \in Nat /\ HandlerOK /\ Tables /\ Handlers
    BY DEF TypeOK, AccountInv
<1>2. ASSUME NEW p \in Procs, Finish(p)
      PROVE  Handlers'
    BY Zenon, <1>1, <1>2, FinishFacts
<1>3. ASSUME Next, ~Tick, Tables', Handlers'
      PROVE  TypeOK'
    <2>1. NonceStep /\ UNCHANGED <<clock, isolated>>
        BY Zenon, <1>3, EveryNonceStep
    <2>2. NonceTypeOK'
        BY Zenon, <1>1, <2>1, NonceTypeStep DEF TypeOK
    <2> QED BY Zenon, <1>3, <2>1, <2>2 DEF TypeOK
<1>4. ASSUME NEW p \in Procs, DecodeJWS(p)
      PROVE  Tables' /\ Handlers'
    <2>1. UNCHANGED <<account, used, latest>>
        BY Zenon, <1>4 DEF DecodeJWS
    <2>2. CASE ~Finish(p)
        BY Zenon, <1>1, <1>4, <2>2 DEF DecodeJWS, Goto
    <2> QED BY Zenon, <1>1, <1>2, <2>1, <2>2
<1>5. ASSUME NEW p \in Procs, FindAccount(p) \/ CheckOldKey(p) \/ Abort(p)
      PROVE  Tables' /\ Handlers'
    <2>1. UNCHANGED <<account, used, latest>>
        BY Zenon, <1>5 DEF FindAccount, CheckOldKey, Abort
    <2>2. CASE ~Finish(p)
        BY Zenon, <1>1, <1>5, <2>2 DEF FindAccount, CheckOldKey, Abort, Answer, Goto
    <2> QED BY Zenon, <1>1, <1>2, <2>1, <2>2
<1>6. ASSUME NEW p \in Procs, ReadRow(p)
      PROVE  Tables' /\ Handlers'
    <2>1. UNCHANGED <<account, used, latest>>
        BY Zenon, <1>6 DEF ReadRow
    <2>2. CASE ~Finish(p)
        <3>1. req[p].account \in Accounts
            BY Zenon, <1>1, <1>6 DEF ReadRow, HandlerOK
        <3> QED BY Zenon, <1>1, <1>6, <2>2, <3>1 DEF ReadRow, Goto
    <2> QED BY Zenon, <1>1, <1>2, <2>1, <2>2
<1>7. ASSUME NEW p \in Procs, WriteRow(p)
      PROVE  Tables' /\ Handlers'
    <2>1. /\ req[p] \in Requests /\ req[p].account \in Accounts /\ row[p] \in Row
          /\ row[p].status = "valid" /\ Finish(p)
        BY Zenon, <1>1, <1>7 DEF WriteRow, HandlerOK, Answer
    <2>2. Changed(req[p], row[p]) \in Row /\ req[p].key \in Keys
        BY Zenon, <2>1, ChangedFacts DEF Requests
    <2>3. Changed(req[p], row[p]).key \in Keys \cup {NoKey}
        BY Zenon, <2>2 DEF Row
    <2>4. Tables'
        BY <1>1, <1>7, <2>2, <2>3 DEF WriteRow
    <2> QED BY Zenon, <1>2, <2>1, <2>4
<1>8. ASSUME NEW p \in Procs, NEW a \in Accounts, CreateAccount(p, a)
      PROVE  Tables' /\ Handlers'
    <2>1. req[p].key \in Keys /\ Finish(p)
        BY Zenon, <1>1, <1>8 DEF CreateAccount, HandlerOK, Answer, Requests
    <2>2. [status |-> "valid", key |-> req[p].key] \in Row
        BY Zenon, <2>1 DEF Row
    <2>3. Tables'
        BY <1>1, <1>8, <2>1, <2>2 DEF CreateAccount
    <2> QED BY Zenon, <1>2, <2>1, <2>3
<1>9. ASSUME NEW p \in Procs, NEW n \in Nonces, NEW r \in Requests, Deliver(p, n, r)
      PROVE  Tables' /\ Handlers'
    BY Zenon, <1>1, <1>9 DEF Deliver, Goto
<1>10. ASSUME NEW n \in Nonces, NewNonce(n) \/ RefuseNonce(n)
       PROVE  Tables' /\ Handlers'
    BY Zenon, <1>1, <1>10 DEF NewNonce, RefuseNonce
<1>11. ASSUME NEW a \in Accounts, OperatorCreatesAccount(a)
       PROVE  Tables' /\ Handlers'
    BY <1>1, <1>11 DEF OperatorCreatesAccount, Row
<1>12. CASE Tick
    BY <1>12, AccountAssumption DEF TypeOK, Tick, nonceVars, NonceTypeOK
<1>13. CASE UNCHANGED vars
    BY Zenon, <1>13 DEF TypeOK, vars, nonceVars, NonceTypeOK
<1> HIDE DEF Tables, Handlers
<1>14. CASE Next /\ ~Tick
    BY Zenon, <1>3, <1>4, <1>5, <1>6, <1>7, <1>8, <1>9, <1>10, <1>11, <1>14 DEF Next
<1> QED BY Zenon, <1>12, <1>13, <1>14

-----------------------------------------------------------------------------
(* The theorems.                                                             *)

\* The start satisfies the invariant.
LEMMA InvInit ==
    ASSUME Init
    PROVE  Inv
<1>1. Given = {}
    BY DEF Init, NonceInit, Given
<1>2. GivenOK
    BY <1>1, FS_EmptySet, AccountAssumption DEF Init, NonceInit, GivenOK
<1>3. NoRow \in Row
    BY Zenon DEF NoRow, Row
<1>4. NonceTypeOK
    BY Zenon DEF Init, NonceInit, NonceTypeOK
<1>5. TypeOK
    BY <1>3, <1>4, AccountAssumption DEF Init, TypeOK
<1>6. AccountInv
    BY Zenon DEF Init, AccountInv, HandlerOK, KeysRecorded, OneWriter, OneAccountPerKey, KeyChangeKept, KeyHolderActs,
           NoRow
<1>7. NonceOnce /\ NoncesKept
    BY DEF Init, NonceInit, NonceOnce, NoncesKept, KeptUntilFull
<1> QED BY Zenon, <1>2, <1>5, <1>6, <1>7 DEF Inv

\* Every step keeps the invariant.
LEMMA InvStep ==
    ASSUME Inv, [Next]_vars
    PROVE  Inv'
<1>1. TypeOK' /\ AccountInv'
    BY Zenon, TypeStep, AccountStep DEF Inv
<1>2. clock \in Nat /\ NonceTypeOK
    BY DEF Inv, TypeOK
<1>3. CASE Tick
    <2>1. clock' = clock + 1 /\ UNCHANGED nonceVars
        BY Zenon, <1>3 DEF Tick
    <2>2. GivenOK' /\ NonceOnce'
        BY <1>2, <2>1 DEF Inv, GivenOK, Given, NonceOnce, nonceVars, NonceTypeOK
    <2>3. NoncesKept'
        BY <1>2, <2>1, NonceAssumption DEF Inv, NoncesKept, KeptUntilFull, nonceVars, NonceTypeOK
    <2> QED BY Zenon, <1>1, <2>2, <2>3 DEF Inv
<1>4. ASSUME NonceStep, UNCHANGED clock
      PROVE  Inv'
    BY Zenon, <1>1, <1>2, <1>4, GivenStep, OnceStep, KeptStep DEF Inv
<1>5. CASE UNCHANGED vars
    BY Zenon, <1>4, <1>5 DEF vars, NonceStep
<1>6. CASE Next /\ ~Tick
    BY Zenon, <1>4, <1>6, EveryNonceStep
<1> QED BY Zenon, <1>3, <1>5, <1>6

\* The invariant holds always.
THEOREM Invariance == Spec => []Inv
<1>1. Init => Inv
    BY Zenon, InvInit
<1>2. Inv /\ [Next]_vars => Inv'
    BY Zenon, InvStep
<1> QED BY <1>1, <1>2, PTL DEF Spec

\* Every variable of AcmeAccounts keeps its type.
THEOREM AccountsTypeCorrect == Spec => []TypeOK
<1>1. Inv => TypeOK
    BY Zenon DEF Inv
<1> QED BY <1>1, Invariance, PTL

\* decodeACMEJWS accepts a nonce at most once, in either nonce store, however
\* many handlers race for it.
THEOREM NoncesOnce == Spec => []NonceOnce
<1>1. Inv => NonceOnce
    BY Zenon DEF Inv
<1> QED BY <1>1, Invariance, PTL

\* A nonce that was not used is dropped early only by a memory store that holds as
\* many nonces as it may, all as young, whatever its size and lifetime are.
THEOREM NoncesAreKept == Spec => []NoncesKept
<1>1. Inv => NoncesKept
    BY Zenon DEF Inv
<1> QED BY <1>1, Invariance, PTL

\* No two accounts have one key, whatever creations and key changes overlap.
THEOREM KeysUnique == Spec => []OneAccountPerKey
<1>1. Inv => OneAccountPerKey
    BY Zenon DEF Inv, AccountInv
<1> QED BY <1>1, Invariance, PTL

\* Where transactions run alone, no update undoes a key change.
THEOREM KeyChangesStay == Spec => []KeyChangeKept
<1>1. Inv => KeyChangeKept
    BY Zenon DEF Inv, AccountInv
<1> QED BY <1>1, Invariance, PTL

\* A handler changes an account only for a client that holds, or held, its key.
THEOREM OnlyKeyHolders == Spec => []KeyHolderActs
<1>1. Inv => KeyHolderActs
    BY Zenon DEF Inv, AccountInv
<1> QED BY <1>1, Invariance, PTL

\* No step changes a deactivated account.
THEOREM DeactivationIsFinal == Spec => DeactivatedForGood
<1> DEFINE Kept == \A a \in Accounts : account[a].status = "deactivated" => account'[a] = account[a]
<1>1. ASSUME Inv, Next
      PROVE  Kept
    <2>1. account \in [Accounts -> Row]
        BY Zenon, <1>1 DEF Inv, TypeOK
    <2>2. ASSUME NEW p \in Procs, WriteRow(p)
          PROVE  Kept
        BY Zenon, <2>1, <2>2 DEF WriteRow, IfStatus, accounts
    <2>3. ASSUME NEW p \in Procs, NEW a \in Accounts, CreateAccount(p, a)
          PROVE  Kept
        BY Zenon, <2>1, <2>3 DEF CreateAccount, accounts
    <2>4. ASSUME NEW a \in Accounts, OperatorCreatesAccount(a)
          PROVE  Kept
        BY Zenon, <2>1, <2>4 DEF OperatorCreatesAccount
    <2>5. ASSUME account' = account
          PROVE  Kept
        BY Zenon, <2>5
    <2>6. ASSUME NEW p \in Procs, DecodeJWS(p) \/ FindAccount(p) \/ CheckOldKey(p) \/ ReadRow(p) \/ Abort(p)
          PROVE  account' = account
        BY Zenon, <2>6 DEF DecodeJWS, FindAccount, CheckOldKey, ReadRow, Abort, accounts
    <2>7. ASSUME NEW p \in Procs, NEW n \in Nonces, NEW r \in Requests, Deliver(p, n, r)
          PROVE  account' = account
        BY Zenon, <2>7 DEF Deliver, accounts
    <2>8. ASSUME NEW n \in Nonces, NewNonce(n) \/ RefuseNonce(n)
          PROVE  account' = account
        BY Zenon, <2>8 DEF NewNonce, RefuseNonce, accounts
    <2>9. Tick => account' = account
        BY Zenon DEF Tick, accounts
    <2> HIDE DEF Kept
    <2> QED BY Zenon, <1>1, <2>2, <2>3, <2>4, <2>5, <2>6, <2>7, <2>8, <2>9 DEF Next
<1>2. Inv /\ [Next]_vars => [Kept]_vars
    BY Zenon, <1>1
<1> QED BY <1>2, Invariance, PTL DEF Spec, DeactivatedForGood
=============================================================================
