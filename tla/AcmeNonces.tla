----------------------------- MODULE AcmeNonces -----------------------------
(***************************************************************************)
(* The replay nonces of the ACME endpoints: the memory store of httpapi,   *)
(* which holds at most MaxNonces of them, and the SQL store, which holds   *)
(* any number.  Each operation is one step: the memory store holds its     *)
(* mutex, the SQL store decides in one DELETE statement.                   *)
(***************************************************************************)
EXTENDS Integers, FiniteSets

CONSTANTS
    Nonces,     \* the random values a server may draw; it never draws one twice
    TTL,        \* defaultACMENonceTTL, in clock ticks
    MaxNonces   \* defaultACMENonceCacheSize

ASSUME NonceAssumption == TTL \in Nat \ {0} /\ MaxNonces \in Nat \ {0}

VARIABLES
    inMemory,  \* whether the nonce store is the memory store
    stored,    \* the nonces in the store
    issuedAt,  \* history: when a nonce was issued, -1 if it was not
    consumed   \* history: how often a nonce was accepted

nonceVars == <<inMemory, stored, issuedAt, consumed>>

NonceInit ==
    /\ inMemory \in BOOLEAN
    /\ stored = {}
    /\ issuedAt = [n \in Nonces |-> -1]
    /\ consumed = [n \in Nonces |-> 0]

\* removeExpiredLocked, or the expiry in the WHERE clause.
Live(S, t) == {n \in S : issuedAt[n] + TTL > t}

\* evictOldestLocked(maxSize - 1) turns S into T: the oldest nonces go until
\* there is room for one more.  Among equally old ones the map order decides.
Evicted(S, T) ==
    /\ T \subseteq S
    /\ Cardinality(T) = IF Cardinality(S) < MaxNonces THEN Cardinality(S) ELSE MaxNonces - 1
    /\ \A n \in T, m \in S \ T : issuedAt[m] <= issuedAt[n]

\* Issue at time t.
Issue(n, t) ==
    /\ issuedAt[n] = -1
    /\ LET S == Live(stored, t) IN
       IF inMemory THEN \E T \in SUBSET S : Evicted(S, T) /\ stored' = T \cup {n}
                   ELSE stored' = S \cup {n}
    /\ issuedAt' = [issuedAt EXCEPT ![n] = t]
    /\ UNCHANGED <<inMemory, consumed>>

\* Faulty variant of Consume: the nonce is looked up but not deleted.
ConsumeKeeps(n, t) ==
    /\ n \in Live(stored, t)
    /\ consumed' = [consumed EXCEPT ![n] = @ + 1]
    /\ stored' = IF inMemory THEN Live(stored, t) ELSE stored
    /\ UNCHANGED <<inMemory, issuedAt>>

\* Consume at time t succeeds.
Consume(n, t) ==
    /\ n \in Live(stored, t)
    /\ consumed' = [consumed EXCEPT ![n] = @ + 1]
    /\ stored' = (IF inMemory THEN Live(stored, t) ELSE stored) \ {n}
    /\ UNCHANGED <<inMemory, issuedAt>>

\* Consume at time t fails; the memory store drops what has expired.
Refuse(n, t) ==
    /\ n \notin Live(stored, t)
    /\ stored' = IF inMemory THEN Live(stored, t) ELSE stored
    /\ UNCHANGED <<inMemory, issuedAt, consumed>>

-----------------------------------------------------------------------------
NonceTypeOK ==
    /\ inMemory \in BOOLEAN
    /\ stored \subseteq Nonces
    /\ issuedAt \in [Nonces -> Nat \cup {-1}]
    /\ consumed \in [Nonces -> Nat]

\* A nonce is accepted at most once, however often a request that carries it is
\* delivered and whatever expires or is evicted meanwhile.
NonceOnce == \A n \in Nonces : consumed[n] <= 1 /\ (n \in stored => consumed[n] = 0)

\* The store keeps what it handed out: a nonce that was neither used nor has
\* expired is missing only from a full memory store, and then MaxNonces others
\* were issued no earlier than it (evictOldestLocked drops the oldest).
KeptUntilFull(t) ==
    \A n \in Nonces \ stored :
        (issuedAt[n] >= 0 /\ consumed[n] = 0 /\ issuedAt[n] + TTL > t) =>
            /\ inMemory
            /\ Cardinality({m \in Nonces \ {n} : issuedAt[m] >= issuedAt[n]}) >= MaxNonces
=============================================================================
