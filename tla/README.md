# TLA+ specifications of modern-pki

modern-pki is a certificate authority. A Go service (`service/`) keeps identities,
issuers, enrollments, certificates and revocations in an SQL database (PostgreSQL, or
SQLite for one node) and calls a C++ core (`src/`) as a child process for every
operation that parses or signs. Several service processes may share one database. This
directory holds the TLA+ modules that model the service, the TLC runs that check them
on small instances and the TLAPS proofs that hold for every instance. `PROJECT.json`
maps each definition to the lines it models and lists runs, hazards and theorems.

## 1. The system

### Parts

| Part | Where | State | Operations |
| --- | --- | --- | --- |
| Enrollments and issuance | `lifecycle/service.go`, `store/sqlstore_certificate.go` | enrollments, issuance attempts, certificates | create, approve, reject, issue (claim, sign, persist, finalize), audit, repair |
| Outbox and dispatcher | `lifecycle/outbox_*.go`, `store/sqlstore_outbox.go` | outbox messages, job attempts | create, list due, recover, claim, finish, retry, replay |
| Webhooks | `lifecycle/webhook_handler.go` | notification endpoints, deliveries | create, disable, post, record |
| Certificate status | `lifecycle/service.go`, `expiration_scan_worker.go` | certificates, revocations | suspend, resume, revoke, force revoke, scan |
| CRL publication | `PublishCRL` | CRL publications | publish, get latest |
| OCSP | `RespondOCSP` | certificates, revocations, responders | respond; create, disable, rotate responders |
| Renewal and reissue | `createCertificateReplacementEnrollment` | enrollments | renew, reissue |
| API keys | `service.go` 742–969 | API keys | ensure, create, rotate, disable, authenticate |
| ACME | `service.go` 1297–1715 and 3306–3562, `httpapi/acme.go`, `store/sqlstore_acme.go` | accounts, orders, authorizations, challenges, nonces | account and order life cycle, validation, finalization |
| Policy | `service.go` 3564–3660 and 4061–4470, `caa.go` | none | name, address, validity and CAA checks |
| Repository | `store/memory.go`, `store/sqlstore*.go`, `store/migrate.go` | all tables | conditional updates, transactions, migrations |
| HTTP API | `httpapi/server.go` | rate limits | decode, authorize, route |
| Core | `src/core`, `src/cli`, `corecli/runner.go` | none | inspect, issue, CRL, OCSP |
| Process | `cmd/modern-pki-service/main.go` | workers | start, shut down |

### How the parts interact

Every lifecycle change writes its audit event and its outbox message in its own
transaction. Issuance is the exception: it signs outside the database, in several
transactions held together by the issuance attempt, and writes its audit event last.
The dispatcher hands outbox messages to webhooks. The expiration scan and the operators
write the same certificate rows. CRL publication and OCSP read, without a transaction,
what revocation writes. ACME finalization runs enrollment, approval and issuance one
after the other and then updates its order.

### What is hard

* Concurrency is between processes, through conditional updates: an update names the
  status (and, for attempts and messages, the update time and the lease) it expects.
  At READ COMMITTED other transactions commit between the read and the update.
* Leases end while their holder still works: the holder comes back late.
* A process can stop after any transaction and after any external call.
* Times are read once per request and used much later.
* Rows are written back whole, so a condition on the status alone loses other columns.

The hazards of `PROJECT.json` give the lines.

## 2. Modules

| Module | Models | Composed of |
| --- | --- | --- |
| `Issuance` | enrollment decisions and certificate issuance | |
| `EnrollmentLedger` | what issuance promises, abstractly | |
| `Outbox` | outbox, dispatcher, webhook delivery | |
| `DeliveryQueue` | what the outbox promises for a message, abstractly | |
| `Certificates` | operators and expiration scans on issued certificates | |
| `CertificateStatus` | the allowed status changes, abstractly | |
| `RevocationStatus` | CRL publication and OCSP answers | `CertificateStatus` |
| `AcmeOrders` | orders, authorizations, challenges, finalization | `EnrollmentLedger` |
| `AcmeOrderLedger` | what an order promises its client, abstractly | |
| `AcmeAccounts` | signed requests and the accounts they change | `AcmeNonces` |
| `AcmeNonces` | both nonce stores | |
| `ApiKeys` | API keys, authentication, starts with and without a pepper | `Responders` |
| `Responders` | OCSP responders: creation, rotation, disabling | |
| `Startup` | migration, bootstrap, serving and shutdown of replicas | |
| `MemoryStore` | the in-memory store under concurrent transactions, renewal, pruning, paging | `Listing` |
| `Listing` | list queries as operators: the store's, the fallback's and SQL's | |
| `Frontend` | routes, scopes, client addresses, rate limit | `Policy` |
| `Policy` | profiles, ceilings, names, CAA, and when each is looked at | |
| `MC…` | instances for TLC | |
| `…Proofs` | theorems and their proofs | |

**Transactions.** A transaction that reads a row and then writes it is two steps, with
the steps of others between. All writes of one transaction are one step: each re-checks
its condition on the current row and keeps the row locked until the commit, so when the
last write is made all conditions hold together. A rollback is a step that changes
nothing in the tables. `AcmeOrders` and `AcmeAccounts` have a variable `isolated`, chosen
at the start: true for the stores that run one transaction at a time (SQLite, memory),
false for PostgreSQL at READ COMMITTED. There, `AcmeOrders` splits the writes of a
challenge completion from their commit, because the completion also reads rows that other
open transactions have written.

**Issuance.** `enrollment`, `attempt`, `certificate` and `audit` are the tables. A
process goes through `claimRead`, `claimWrite`, `sign`, `persist`, `finalizeRead`,
`finalizeWrite`, (`lookup`, `markFailed`), `auditRead`, `auditWrite`; the labels are the
transactions and calls of `IssueCertificate` and the functions below it. `now` is the
time read at the start of the request, from which the lease is computed and against
which it is compared, as in the code. `Abort` stops a request at any label: a crash, an
error of the signer, an error of the database. Serial numbers are drawn from a set, so
that collisions happen. `signings` and `returned` are history.

**Outbox.** Times in a row are the ticks left until it is available and until its lease
ends. The condition of `UpdateOutboxMessageIfCurrent` compares `updated_at`, which is
different after every update; `current[w]` holds the messages of which worker `w` knows
the stored row, and every update removes its message from the sets of all others.
`HandlerError` is an error of any read or write of the handler, `Post` has an answer
that may be lost. `PromptHandlers` restricts time: with it, a handler ends before its
lease does.

**Certificates.** `row` is the status and whether `renewal_notified_at` is set. `read`
holds the rows a process has read and will write back whole. The revocation record, the
audit event and the outbox message of a change belong to its transaction, so `records`,
`warnings` and `expiries` count both.

**RevocationStatus.** `crls` are the stored lists in their order, `pub` and `ocsp` the
requests in progress. The status of the certificates changes by `CertificateStatus!Next`,
which `Certificates` implements. `after` and `before` record, for the properties, what
was stored when a request began.

**AcmeOrders.** A process is one request of a client or an operator. Validation reads its
context, asks the web server of the client (`Verify`, which may take long) and completes
the challenge in a transaction of its own; `promote` is what that transaction decided
about the order. Finalization creates and approves an enrollment, issues and stores the
order, each in its own transaction; `enrollment` and `serial` change as `EnrollmentLedger`
allows. `OperatorDecides` is an operator who approves or rejects an enrollment of an
order through the management API. `owner` and `returned` are history.

**AcmeAccounts, AcmeNonces.** A delivery of a signed request is any request with any
nonce, so replays, late requests and requests signed with any key are all there; the handler goes
through the checks of `decodeACMEJWS` in their order. `inMemory` selects the nonce store.

**ApiKeys, Responders.** A request reads its key, writes the whole row back with the time
of its use if the key is still active, checks the scope, and runs its handler, which for
responders has the call of the core between two transactions. `Start` may introduce a
pepper; keys hashed without it stay. A key is identified with its token except for the
bootstrap key, whose token `Boot` is configured.

**Startup.** The schema has three tables, one for each way the migration treats a column
that older databases lack. `work` is what the open migration transaction would commit.
Keys are numbered, so that "the key file holds the key of the issuer's certificate" can
be said. `Crash` also stands for a restart with another build.

**MemoryStore, Listing.** `db` are the tables, `tx` the clones a transaction works on,
`alias` says whether a list given to a caller shares its array with the store.
`QueriesAgree`, `ListsAgree` and `EventQueriesAgree` compare, in every reachable table
and for every query, the Go filters with the SQL statements. An order of a list is the
set of pairs of which the first comes before the second; `Sorted` is the one sequence
that respects it, from which the service cuts a page, while SQL takes the rows whose
`Rank` is in the page.

**Frontend, Policy.** Routes are the table of `registerRoutes`, a method and a path. A
request is one step: it is authorized, limited, and handled. DNS names are sequences of
labels; `zone` is what the DNS answers and changes at any time. `CAALookup` stops at the
first name, going up, that has records, does not answer, or is the root. `admitted` is
history: the requests the limiter let through, with their time.

**Workloads.** Three modules choose at the start which operations a behaviour uses
(`workload`). This bounds the instance, like the number of processes does: operations of
different workloads touch different rows and columns (keys and responders; replacement,
status, paging and pruning; rate limit and policy), and those that touch the same ones
are together in one workload. The proofs hold for every choice.

**Faulty variants.** Operators marked *Faulty variant* stand before the definition they
vary. No specification uses them. Each is a plausible mistake in the modelled code, and
putting it in the place of the definition makes TLC find a property violated; they
document what each property depends on.

## 3. Runs

All `.cfg` files are run as `tlc -config <cfg> <module>`.

| Run | Configuration | Properties | Instance |
| --- | --- | --- | --- |
| `issuance` | `MCIssuance` | `IssuedConsistent` `LiveLeaseExclusive` `AnswersAgree` `GivesUpOnlyOnCollision` `StoredMaterialKept` `ImplementsLedger` | two processes, two enrollments, colliding serial numbers |
| `issuance_live` | `MCIssuanceLive` | `IssuanceCompletes` | two processes, one enrollment, crashes |
| `outbox` | `MCOutbox` | `ClaimExclusive` `AttemptsAccounted` `CompletedWasReceived` `ImplementsQueue` | two workers, one message, two endpoints, crash, replay |
| `outbox_live` | `MCOutboxLive` | `MessagesSettle` | two workers, one endpoint |
| `certificates` | `MCCertificates` | `EventsMatchStatus` `ImplementsStatus` `ScansCatchUp` | an operator and two scans of one row over two certificates |
| `revocation` | `MCRevocationStatus` | `AnswersCurrent` `LaterListsComplete` `NumbersInOrder` `ServedIsNewestOfItsPoint` | two publishers, two distribution points, an OCSP request |
| `acme_orders` | `MCAcmeOrders` | `ValidatedIsReady` `LateValidationNeverIssues` `OneOutcome` `ImplementsOrderLedger` `ReadyIsSettled` | two processes, one order of two names, an abort |
| `acme_accounts` | `MCAcmeAccounts` | `NonceOnce` `OneAccountPerKey` `KeyChangeKept` | two processes, two accounts, two keys, three nonces in a store for two |
| `api_keys` | `MCApiKeys` | `DeadTokensRefused` `RotationExclusive` `OneActiveResponder` | two processes, three keys, three responders, two starts |
| `startup` | `MCStartup` | `ServesItsSchema` `DefaultIssuerSigns` `StartsAndStops` | two replicas, two builds, four databases, three configurations |
| `memory_store` | `MCMemoryStore` | `CommitsAreSound` `HeldKept` `WalksSeeAll` `FiltersAgree` | two requests, three certificates, a client that pages |
| `frontend` | `MCFrontend` | `ScopesRespected` `RateLimitExact` `IssuedWithinPolicy` | all routes and scopes; a proxy; two domains, six zones |

Every property holds. The comment above each definition says what it means for the code.
Some properties are conjunctions of ones that are named for themselves:

| Property | Conjuncts |
| --- | --- |
| `IssuanceCompletes` | `ApprovedIsIssued` `IssuedIsAudited` |
| `ScansCatchUp` | `EndedIsExpired` `NearEndIsWarned` |
| `StartsAndStops` | `EventuallyServes` `ShutdownEnds` |
| `CommitsAreSound` | `OneRowOneEvent` `ReplacedWasValid` |
| `FiltersAgree` | `QueriesAgree` `ListsAgree` `EventQueriesAgree` `ScanHandlesSLO` |
| `RateLimitExact` | `WindowBound` `RefusedOnlyWhenSpent` |
| `IssuedWithinPolicy` | `IssuedCovered` `LifetimeBounded` `CAAHonoured` |

The type invariants and a few further invariants (`AuditOnlyIssued`, `SerialsUnique`,
`ReadyIsValidated`, `OrderSettled`, `NoncesKept`, `KeyHolderActs`, `DeactivatedForGood`,
`OperatorsManageKeys`, `RotationWithoutGap`, `MigrationAllOrNothing`,
`ProductionGuarded`) are in no run, since they are proved for every instance (section 4).

### Bounds

* `MaxTime`, `MaxSignings` (Issuance): the clock passes a whole lease after the first
  claim, and there are enough signatures for two processes to sign and one to sign again
  after a failed attempt. `Abort` is allowed only while a lease can still run out before
  the clock stops; otherwise the bound on the clock would block the enrollment.
* `MaxAttempts = 2`, one retry delay of a tick (Outbox): a first failure with a retry
  left and a last one. The code's values, five attempts and four delays, add no other
  case. One replay and one crash per behaviour; more repeat the same states. One message:
  what a worker does to one message of its batch leaves the others alone, and the proofs
  cover any number.
* `MaxTime`, `MaxRequests`, `MaxAborts` (Certificates): the clock passes the warning
  window and the end; with `Limit = 1` and two certificates the limit binds.
* `MaxPublications = 3` (RevocationStatus): two lists at one point and one at the other.
* `Lifetime = MaxTime = 2`, `ReuseCeiling = 1`, `MaxAborts = 1` (AcmeOrders): a validation
  can come in time, too late for a public order, and after the expiry; two enrollments let
  two finalizations run side by side, or one after a crash of the other.
* `TTL = 2`, `MaxNonces = 2`, three nonces (AcmeNonces): expiry, and one eviction.
* `MaxTime = 1`, `MaxStarts = 2` (ApiKeys): a key expires; a second start brings the
  pepper. Three keys: the bootstrap key, one more and a successor.
* `MaxLaunches = 1` (Startup): each replica is signalled or crashes once, at any point, and
  comes back with either build. Starts after a failed start are not bounded.
* `MaxTime = 2`, `MaxRequests = 2` (MemoryStore): two transactions around a walk, tables
  of up to three rows, two of which expire together and two of which share an attribute.
* `MaxTime = 3` (Frontend): an order's lifetime and a rate window of two ticks and the
  tick after; the ceiling falls at time 2.
* Processes, operators, scanners, certificates, keys and endpoints are interchangeable
  where a configuration declares a symmetry; runs with liveness properties declare none.

`CHECK_DEADLOCK FALSE` stands where the bounded clock and bounded requests let the model
come to rest.

### Fairness

* Issuance: a started request goes on (weak). The caller of an approved enrollment asks
  again until it is issued and gets through (strong): `issueMu` is a `sync.Mutex`, which
  hands itself to a waiter that starves. The clock advances.
* Outbox: `OutboxWorker.Run` runs `RunOnce` at every tick of its timer. A due message is
  in some batch (strong), since `ListDueOutboxMessages` orders by the time due. The
  handler ends before its lease (`PromptHandlers`): the HTTP client gives a post a few
  seconds, the lease is ten minutes, and the first failed post ends the handler. Without
  that, workers may overtake each other for ever.
* Certificates: the scan worker runs at every interval (weak) and requests end (weak).
  Operator requests are finite; an operator who suspends and resumes for ever at the
  moment of every scan could keep it from writing.
* AcmeOrders: a request goes on (weak), the clock advances, and somebody asks for the
  finalization of an order again and again and gets through (strong): net/http serves
  every connection in its own goroutine.
* Startup: a process goes on (weak) and is started again after it exits; the lock of a
  migration is handed to a waiter (strong), as the database does; `Shutdown` returns when
  it is drained or its context ends (weak). Nothing is assumed of handlers.

## 4. Proofs

The theorems hold for any number of processes, workers, enrollments, messages, endpoints,
certificates, distribution points, orders, accounts, nonces, keys, responders, replicas
and builds, for any set of names, zones, profiles, addresses and queries, and for any
value of the bounds, under the named assumptions of the modules. These say that leases,
limits and windows are positive, that serial numbers are not zero, that the `No…` values
are not identifiers, that a name has at least one label, and that the public TLS ceilings
fall from era to era, as those of `publicTLSValidityCeiling` do. A leaf that needs no
arithmetic names Zenon: a module is then checked in minutes, without depending on the
time limit of the SMT solver.

* `IssuanceProofs`. `IssuedConsistent` is not inductive. Its strengthening `TablesInv`
  says what a process at each label knows: a held attempt that equals the row in status,
  update time and lease equals it in material as well; a result about to be returned is
  the stored certificate. `LiveLeaseExclusive` needs that a claim's lease starts at a time
  no later than the clock. `IssuanceImplementsLedger` maps `enrollment` and the serial
  number of `certificate`; only the two decisions, the creation and `FinalizeWrite` are
  visible. `GivingUpIsLate` needs that an attempt a process has lost never comes back.
  `GiveUpInv` numbers the signatures of an enrollment: what a signer returned is new, so
  storing it never makes the row again what another process has in hand.
  `GivesUpOnlyOnCollision` is about the step that gives up and not about the states after
  it: the failed mark compares status, update time and lease of the attempt, and claims
  read at one and the same time may agree in all three.
* `OutboxProofs`. `QueueInv` adds to type, claim and account that a worker which still
  knows its message's row knows it in the status its label requires. `DeliveryInv` says
  that what a handler has passed was received and what it has not is in `todo`, and that
  a delivery recorded as succeeded was received. `OutboxImplementsQueue` hides claims,
  recovery and leases.
* `CertificatesProofs`. `Inv` adds that an operator holds a row in a status its request
  accepts; the conditional update then makes stale rows harmless for the status. The
  second part is about `RevocationSpec` of `RevocationStatus`: `PubInv` says that the
  numbers of a point are `1..n`, that a number in hand is at most one more, and that
  entries in hand are revoked and contain those of the lists stored before the request.
  `OcspInv` says what an answer knows after each of its two reads; both rest on revocation
  being final in `CertificateStatus`. `ServedIsNewest` follows from the numbering by
  counting.
* `AcmeOrdersProofs`. `ControlInv` relates the rows, the enrollment ledger and what each
  process has in hand: two open transactions never hold the same challenge, and an open
  transaction that promotes its order knows that all other authorizations are valid.
  `OrderInv` are the four invariants themselves, which need each other: an order can be
  stored as valid only because its enrollment belongs to it and was created in time.
  `OrdersImplementLedger` maps status, certificate and the valid authorizations.
* `AcmeAccountsProofs`. `Inv` adds that a handler past the signature check works with a
  key its account has had, and, where transactions run alone, that a row in hand is the
  stored row; the nonces rest on a count of the younger ones.
* `ApiKeysProofs`. `KeysOK` says that no two rows have one token, whatever hash they were
  stored under, because nothing is hashed with a pepper before there is one. `DeadOK`,
  `HeirsOK` and `RequestsOK` say that a dead token is that of a disabled row, that a
  successor belongs to a disabled key, and that a key in hand is the stored one or was
  disabled since, so that writing it back changes nothing. The second part is about
  `StartupSpec` of `Startup`. `LocksOK` and `WorkOf` say that a migration runs alone and
  what it has done so far to the database it found; `ServedOf` and `KeyOf` what a process
  past it relies on. What the statements of the script compute is `MigrationAssumption`,
  which has no free parameter: TLC evaluates it for all legacy schemas, since the prover
  cannot unfold the recursion.
* `MemoryStoreProofs`. A strict total order on a finite set gives every element a rank;
  `SortedAtRank` says that sorting puts it there, so cutting a page out of the sorted list
  and selecting a range of ranks agree (`PagesAgree`), and the agreement of the filters
  becomes one of sets. `MemoryInv` says that whoever is inside `WithinTx` works on clones
  of what is committed, with at most the writes of its own request, and that no list in a
  caller's hands shares its array with the store. `WalksSeeAll` rests on `RankGrows`: rows
  that are issued during a walk only move later rows back, never to a page that was read.
* `ServerProofs`. `PolicyInv` records what the handlers checked of a row when they wrote
  it: a public profile respects the ceiling of the day of its creation, an order's names
  passed CAA in the zone of its day, a certificate is within its profile. Profiles are
  never changed, so the checks still describe the rows when a certificate is issued.
  `AllowedCoversAllowed` goes from patterns to hosts, `CheckedIsPermitted` from the climb
  of `CAALookup` to the record that decides. `RateInv` says that a bucket has counted the
  requests since its window began, that one of them began it, and that of the part of any
  window before that beginning at most one less than the limit was admitted; this is why
  two limits are never reached in one window (`AdmittedFits`). `ScopesRespected` goes
  through the table of routes and needs no history.

Only model-checked: the liveness properties (`IssuanceCompletes`, `MessagesSettle`,
`ScansCatchUp`, `ReadyIsSettled`, `StartsAndStops`), since fairness is outside what the
proof system supports, and `MigrationAssumption`. Every safety property of every run is
also proved.

## 5. Where code and documents differ, and what the code does not promise

The properties above state what the code does guarantee. While modelling, these
differences and limits came up; the properties are worded around them.

1. A signer slower than the lease is overtaken, so two processes may sign for one
   enrollment (`service.go:2418`); one certificate is stored and callers never see the
   other (`AnswersAgree`). `docs/reference/state-transitions.md:66` says the attempt table
   "prevents duplicate signing across service nodes". The same table lacks the step from
   `signed` to `failed` that a taken serial number causes (`GivesUpOnlyOnCollision`).
2. A failed delivery goes back to `pending` (`outbox_dispatcher.go:84`); status `failed`,
   which `state-transitions.md:99` and `:101` name, is never written.
3. Two scans that both listed a certificate both warn of it, and a suspend or resume can
   write an unset `renewal_notified_at` back (`service.go:2059`);
   `docs/architecture/renewal-flow.md:12` says duplicates are prevented.
4. The CRL served for an issuer has the highest number over all distribution points, each
   of which counts on its own (`sqlstore_certificate.go:1025`), so it need not be the
   list published last (`docs/reference/target-architecture.md:69`). The in-memory store
   chooses among equal numbers by map order (`memory.go:1925`).
5. On PostgreSQL, completions of the last two challenges in overlapping transactions
   leave the order pending, against `state-transitions.md:136`; and a contact update that
   overlaps a key change writes the old key back. `ValidatedIsReady` and `KeyChangeKept`
   are stated for the stores that run transactions alone.
6. A database older than the migration table that has the table but lacks the column the
   initial script indexes cannot be migrated: the script fails before the compatibility
   statements (`Upgradeable`).
7. Every start with ACME defaults writes a new key over the file (`main.go:780`); earlier
   default issuers of that path can no longer sign. A replica without defaults is not
   ready once another has created default issuers (`ServesItsSchema` excludes it).
8. Two replicas that introduce a pepper at different times may both create a bootstrap
   row. `ApiKeys` has one process that starts at a time.
9. The in-memory store does not refuse two keys with one token hash; `ApiKeys` models the
   unique index of SQL.
10. The fallback filter and the SQL statement for certificates differ for a certificate
    that expires at this very instant and for a window combined with a status other than
    valid; `QueriesAgree` leaves these two out.
11. The expiry SLO counts suspended certificates, which the scan never warns of.
12. The public TLS ceiling is applied when a profile is created, not when a certificate is
    issued (`service.go:4159`); `docs/runbooks/public-tls-readiness.md:5` speaks of the
    certificates. The override may be longer than the schedule.
13. CAA is checked when an ACME order is created (`service.go:1437`), not for enrollments
    of the management API and not again at finalization.
14. An enrollment approved late is issued even if its end has passed; `LifetimeBounded`
    promises a positive lifetime only for orders.

## 6. Not modelled

* The C++ core and its runner: sequential encoding and signing with OpenSSL and JSON
  between two processes, without state from one call to the next. The models treat a call
  as one that may fail or take long.
* Cryptography and encodings: signatures of JWS, hashing, PEM, DER and JSON. A signature
  is valid exactly for the key that made it.
* The network side of HTTP-01 and CAA (resolution, redirects, address rules): input and
  output whose outcome the models choose freely.
* The remaining tables of the in-memory store and of the SQL store (identities, issuers,
  endpoints and others): maps and statements with the same conditional update as those
  modelled.
* Email, URI and key-algorithm rules of the policy, the choice of the issuer by hash in
  an OCSP request, metrics and logging: pure functions or output, without interleavings.
