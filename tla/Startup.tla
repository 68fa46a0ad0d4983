------------------------------ MODULE Startup ------------------------------
(***************************************************************************)
(* The life of a service process, from main to its exit, for replicas that *)
(* share one database: configuration, the schema migration, the bootstrap  *)
(* key, the ACME defaults, serving, and the shutdown on a signal.          *)
(*                                                                         *)
(* The schema is abstracted to three tables, one for each way in which the *)
(* migration treats a column that older databases lack: "indexed" (the     *)
(* initial script indexes it: identities.owner), "late" (only the          *)
(* compatibility statements do: acme_accounts.key_thumbprint) and "plain"  *)
(* (nothing does: certificate_profiles.public_tls).                        *)
(***************************************************************************)
EXTENDS Integers, Sequences

CONSTANTS
    Replicas,     \* processes
    Builds,       \* builds of the service; each has an initial script of its own
    Databases,    \* bound: the schemas of LegacySchemas that are started on
    Configs,      \* configurations a process is started with
    MaxLaunches,  \* bound: starts of each process that a fault or an operator causes
    NoBuild       \* the migration table has no row

ASSUME StartupAssumption ==
    /\ NoBuild \notin Builds
    /\ MaxLaunches \in Nat

VARIABLES
    legacy,    \* the schema objects of the database before the first start
    schema,    \* committed schema objects
    migration, \* committed row of schema_migrations: build (checksum) and dirty
    locked,    \* the processes in a migration transaction
    work,      \* what that transaction would commit: schema and migration
    bootKey,   \* whether the row of the bootstrap key exists
    issuers,   \* default issuers created, by the number of their key
    keyFile,   \* the number of the key in the key file of each process
    lastKey,   \* the last key generated
    phase,     \* where each process stands
    build,     \* the build it runs
    conf,      \* its configuration
    issuer,    \* the default issuer it serves, 0 if none
    requests,  \* HTTP requests in progress
    launches   \* starts that followed a fault or a shutdown

db    == <<schema, migration, bootKey, issuers>>
procs == <<phase, build, conf, issuer, requests, launches>>
startupVars == <<legacy, schema, migration, locked, work, bootKey, issuers, keyFile, lastKey, procs>>

-----------------------------------------------------------------------------
(* Configuration.                                                          *)

Config == [production : BOOLEAN, mode : {"dev", "api_key"}, pepper : {"none", "weak", "strong"},
           bootKey : {"none", "weak", "strong"}, nonces : {"memory", "sql"}, defaults : BOOLEAN,
           caa : BOOLEAN, resolver : BOOLEAN]

\* validateProductionAuthConfig.
ValidAuth(c) ==
    c.production => c.mode = "api_key" /\ c.pepper = "strong" /\ c.bootKey # "weak"

\* loadACMENonceConfig.
ValidNonces(c) == c.production => c.nonces = "sql"

\* loadPublicTLSConfig: CAA checking needs a resolver.
ValidCAA(c) == c.caa => c.resolver

\* The configuration main accepts.
Valid(c) == ValidAuth(c) /\ ValidNonces(c) /\ ValidCAA(c)

-----------------------------------------------------------------------------
(* The schema and the statements of a migration.                           *)

Columns == {"indexed", "late", "plain"}
Object  == {"table", "column", "index"} \X Columns
Whole   == Object \ {<<"index", "plain">>}

\* A schema that a statement has failed on.
Failed == {<<"table", "failed">>}

\* CREATE TABLE IF NOT EXISTS, with its column.
CreateTable(s, c) == IF <<"table", c>> \in s THEN s ELSE s \cup {<<"table", c>>, <<"column", c>>}

\* CREATE INDEX IF NOT EXISTS fails where the table lacks the column.
CreateIndex(s, c) == IF <<"column", c>> \in s THEN s \cup {<<"index", c>>} ELSE Failed

\* ADD COLUMN where sqliteColumnExists, or IF NOT EXISTS, finds none.
AddColumn(s, c) == IF <<"table", c>> \in s THEN s \cup {<<"column", c>>} ELSE Failed

Execute(s, statement) ==
    CASE s = Failed             -> Failed
      [] statement[1] = "table"  -> CreateTable(s, statement[2])
      [] statement[1] = "index"  -> CreateIndex(s, statement[2])
      [] statement[1] = "column" -> AddColumn(s, statement[2])

\* Statements run in order; the first that fails ends the transaction.
ExecuteAll(s, statements) ==
    LET after[n \in 0..Len(statements)] == IF n = 0 THEN s ELSE Execute(after[n - 1], statements[n])
    IN after[Len(statements)]

\* migrations/0001_init.sql and 0001_init_sqlite.sql.
InitialScript ==
    <<<<"table", "indexed">>, <<"index", "indexed">>, <<"table", "plain">>, <<"table", "late">>>>

\* applySQLiteCompatibilityMigrations and applyPostgresCompatibilityMigrations.
Compatibility ==
    <<<<"column", "indexed">>, <<"column", "plain">>, <<"index", "indexed">>, <<"table", "late">>,
      <<"column", "late">>, <<"index", "late">>>>

\* Schemas of databases older than the migration table: any tables, each with or
\* without its newer column, and no index yet.
LegacySchemas ==
    {s \in SUBSET ({"table", "column"} \X Columns) :
        \A c \in Columns : <<"column", c>> \in s => <<"table", c>> \in s}

\* The legacy schemas a migration can make whole.
Upgradeable(s) == <<"table", "indexed">> \in s => <<"column", "indexed">> \in s

\* The statements make a legacy schema whole exactly where Upgradeable says so;
\* elsewhere the initial script fails.  A whole schema stays whole.  (There are
\* finitely many legacy schemas: TLC evaluates this for all of them.)
ASSUME MigrationAssumption ==
    /\ \A s \in LegacySchemas :
          LET scripted == ExecuteAll(s, InitialScript) IN
          IF Upgradeable(s) THEN scripted \in SUBSET Object /\ ExecuteAll(scripted, Compatibility) = Whole
                            ELSE scripted = Failed
    /\ ExecuteAll(Whole, Compatibility) = Whole

-----------------------------------------------------------------------------
NoMigration == [build |-> NoBuild, dirty |-> FALSE]

\* checkSchemaMigration: the row of another build, or a dirty one, is an error.
Applied(row, b) == row.build = b /\ ~row.dirty
Refused(row, b) == row.build # NoBuild /\ ~Applied(row, b)

StartupInit ==
    /\ legacy \in LegacySchemas \cap Databases
    /\ schema = legacy
    /\ migration = NoMigration
    /\ locked = {}
    /\ work = [schema |-> legacy, migration |-> NoMigration]
    /\ bootKey = FALSE
    /\ issuers = {}
    /\ keyFile = [r \in Replicas |-> 0]
    /\ lastKey = 0
    /\ phase = [r \in Replicas |-> "down"]
    /\ build \in [Replicas -> Builds]
    /\ conf \in [Replicas -> Configs]
    /\ issuer = [r \in Replicas |-> 0]
    /\ requests = [r \in Replicas |-> 0]
    /\ launches = [r \in Replicas |-> 0]

Goto(r, l) == phase' = [phase EXCEPT ![r] = l]

NoWork == [schema |-> legacy, migration |-> NoMigration]

\* Faulty variant of Release: a failed migration is not rolled back.
ReleaseNever(r) == UNCHANGED <<locked, work>>

\* The end of a migration transaction: Commit, or the deferred Rollback.
Release(r) == locked' = locked \ {r} /\ work' = IF r \in locked THEN NoWork ELSE work

\* log.Fatalf: the process exits; what it has open is rolled back, and it is
\* started again.
Exit(r) ==
    /\ Goto(r, "down")
    /\ Release(r)
    /\ issuer' = [issuer EXCEPT ![r] = 0]
    /\ requests' = [requests EXCEPT ![r] = 0]
    /\ UNCHANGED <<legacy, db, keyFile, lastKey, build, conf, launches>>

-----------------------------------------------------------------------------
(* Start.                                                                  *)

\* main loads its configuration and opens the database; a configuration that is
\* not valid ends it there.
Load(r) ==
    /\ phase[r] = "down" /\ Valid(conf[r])
    /\ Goto(r, "migrate")
    /\ UNCHANGED <<legacy, db, locked, work, keyFile, lastKey, build, conf, issuer, requests, launches>>

\* Faulty variant of LockFree: the migration takes no lock.
LockFreeAlways == TRUE

\* BEGIN IMMEDIATE, or the advisory lock: one migration at a time.
LockFree == locked = {}

\* ApplyInitialMigration: the transaction begins, and reads the migration row.
BeginMigration(r) ==
    /\ phase[r] = "migrate" /\ LockFree
    /\ \/ /\ ~Refused(migration, build[r])
          /\ locked' = locked \cup {r}
          /\ work' = [schema |-> schema, migration |-> migration]
          /\ Goto(r, IF Applied(migration, build[r]) THEN "compat" ELSE "script")
          /\ UNCHANGED <<issuer, requests>>
       \/ Refused(migration, build[r]) /\ Exit(r)
    /\ UNCHANGED <<legacy, db, keyFile, lastKey, build, conf, launches>>

\* SQLite gives up waiting for the lock after its busy timeout.
LockTimeout(r) == phase[r] = "migrate" /\ locked # {} /\ Exit(r)

\* A dirty row is inserted and the initial script executed.
RunScript(r) ==
    LET s == ExecuteAll(work.schema, InitialScript) IN
    /\ phase[r] = "script"
    /\ \/ /\ s # Failed
          /\ work' = [schema |-> s, migration |-> [build |-> build[r], dirty |-> TRUE]]
          /\ Goto(r, "compat")
          /\ UNCHANGED <<locked, issuer, requests>>
       \/ s = Failed /\ Exit(r)
    /\ UNCHANGED <<legacy, db, keyFile, lastKey, build, conf, launches>>

\* markSchemaMigrationClean.
CleanRow(b) == [build |-> b, dirty |-> FALSE]

\* The compatibility statements run, the row is marked clean, and all of it is
\* committed.
CommitMigration(r) ==
    LET s == ExecuteAll(work.schema, Compatibility) IN
    /\ phase[r] = "compat"
    /\ \/ /\ s # Failed
          /\ schema' = s
          /\ migration' = CleanRow(build[r])
          /\ Release(r)
          /\ Goto(r, IF conf[r].bootKey = "none" THEN "defaults" ELSE "ensure")
          /\ UNCHANGED <<legacy, bootKey, issuers, keyFile, lastKey, build, conf, issuer, requests, launches>>
       \/ s = Failed /\ Exit(r)

\* EnsureAPIKey reads the bootstrap key ...
EnsureRead(r) ==
    /\ phase[r] = "ensure"
    /\ Goto(r, IF bootKey THEN "defaults" ELSE "insert")
    /\ UNCHANGED <<legacy, db, locked, work, keyFile, lastKey, build, conf, issuer, requests, launches>>

\* ... and inserts it; the unique token hash stops the slower of two processes.
EnsureInsert(r) ==
    /\ phase[r] = "insert"
    /\ \/ /\ ~bootKey
          /\ bootKey' = TRUE
          /\ Goto(r, "defaults")
          /\ UNCHANGED <<legacy, schema, migration, locked, work, issuers, keyFile, lastKey, build,
                         conf, issuer, requests, launches>>
       \/ bootKey /\ Exit(r)

\* Faulty variant of WrittenKey: a key file that exists is kept.
WrittenKeyOnce(r) == IF keyFile[r] = 0 THEN lastKey + 1 ELSE keyFile[r]

\* ensureACMESmokeIssuerMaterial writes a new key over the file.
WrittenKey(r) == lastKey + 1

\* bootstrapACMEDefaults writes a key ...
WriteKey(r) ==
    /\ phase[r] = "defaults"
    /\ \/ /\ conf[r].defaults
          /\ lastKey' = lastKey + 1
          /\ keyFile' = [keyFile EXCEPT ![r] = WrittenKey(r)]
          /\ issuer' = [issuer EXCEPT ![r] = lastKey + 1]
          /\ Goto(r, "issuer")
       \/ ~conf[r].defaults /\ Goto(r, "listen") /\ UNCHANGED <<lastKey, keyFile, issuer>>
    /\ UNCHANGED <<legacy, db, locked, work, build, conf, requests, launches>>

\* ... and creates an identity, the issuer with the key's certificate, and a profile.
CreateDefaults(r) ==
    /\ phase[r] = "issuer"
    /\ issuers' = issuers \cup {issuer[r]}
    /\ Goto(r, "listen")
    /\ UNCHANGED <<legacy, schema, migration, bootKey, locked, work, keyFile, lastKey, build, conf,
                   issuer, requests, launches>>

\* The workers are started and the server listens.
Listen(r) ==
    /\ phase[r] = "listen"
    /\ Goto(r, "serving")
    /\ UNCHANGED <<legacy, db, locked, work, keyFile, lastKey, build, conf, issuer, requests, launches>>

\* newServiceReadinessCheck: CheckInitialMigration passes, and the key file of
\* every active issuer can be read here (all default issuers name one path).
Ready(r) == Applied(migration, build[r]) /\ (issuers # {} => keyFile[r] # 0)

-----------------------------------------------------------------------------
(* Serving and stopping (runServerUntilShutdown).                          *)

Accept(r) ==
    /\ phase[r] = "serving" /\ requests[r] = 0
    /\ requests' = [requests EXCEPT ![r] = 1]
    /\ UNCHANGED <<legacy, db, locked, work, keyFile, lastKey, phase, build, conf, issuer, launches>>

Answer(r) ==
    /\ requests[r] = 1
    /\ requests' = [requests EXCEPT ![r] = 0]
    /\ UNCHANGED <<legacy, db, locked, work, keyFile, lastKey, phase, build, conf, issuer, launches>>

\* SIGTERM: the context is done, the workers stop, and Shutdown is called.
Signal(r) ==
    /\ phase[r] = "serving" /\ launches[r] < MaxLaunches
    /\ launches' = [launches EXCEPT ![r] = @ + 1]
    /\ Goto(r, "draining")
    /\ UNCHANGED <<legacy, db, locked, work, keyFile, lastKey, build, conf, issuer, requests>>

\* Shutdown returns when no request is in progress ...
Drained(r) == phase[r] = "draining" /\ requests[r] = 0 /\ Exit(r)

\* Faulty variant of ShutdownTimeout: Shutdown is given a context without a deadline.
ShutdownTimeoutNever(r) == FALSE /\ UNCHANGED startupVars

\* ... or its context is done, and main ends with requests in progress.
ShutdownTimeout(r) == phase[r] = "draining" /\ requests[r] # 0 /\ Exit(r)

\* A crash, or a start of another build and configuration, at any point.
Crash(r) ==
    /\ phase[r] # "down" /\ launches[r] < MaxLaunches
    /\ launches' = [launches EXCEPT ![r] = @ + 1]
    /\ build' \in {[build EXCEPT ![r] = b] : b \in Builds}
    /\ Goto(r, "down")
    /\ Release(r)
    /\ issuer' = [issuer EXCEPT ![r] = 0]
    /\ requests' = [requests EXCEPT ![r] = 0]
    /\ UNCHANGED <<legacy, db, keyFile, lastKey, conf>>

Progress(r) ==
    \/ Load(r) \/ BeginMigration(r) \/ RunScript(r) \/ CommitMigration(r) \/ EnsureRead(r)
    \/ EnsureInsert(r) \/ WriteKey(r) \/ CreateDefaults(r) \/ Listen(r)

StartupNext == \E r \in Replicas :
    Progress(r) \/ LockTimeout(r) \/ Accept(r) \/ Answer(r) \/ Signal(r) \/ Drained(r) \/ ShutdownTimeout(r) \/ Crash(r)

StartupSpec == StartupInit /\ [][StartupNext]_startupVars

\* A process runs, the lock of a finished migration is handed on, and Shutdown
\* returns; handlers need not end.
Fairness == \A r \in Replicas :
    WF_startupVars(Progress(r)) /\ SF_startupVars(BeginMigration(r)) /\ WF_startupVars(Drained(r) \/ ShutdownTimeout(r))

FairSpec == StartupSpec /\ Fairness

-----------------------------------------------------------------------------
(* Properties.                                                             *)

StartupTypeOK ==
    /\ legacy \in LegacySchemas
    /\ schema \subseteq Object
    /\ migration \in [build : Builds \cup {NoBuild}, dirty : BOOLEAN]
    /\ locked \subseteq Replicas
    /\ work \in [schema : SUBSET Object, migration : [build : Builds \cup {NoBuild}, dirty : BOOLEAN]]
    /\ bootKey \in BOOLEAN
    /\ issuers \subseteq 1..lastKey
    /\ keyFile \in [Replicas -> 0..lastKey]
    /\ lastKey \in Nat
    /\ phase \in [Replicas -> {"down", "migrate", "script", "compat", "ensure", "insert", "defaults", "issuer",
                            "listen", "serving", "draining"}]
    /\ build \in [Replicas -> Builds]
    /\ conf \in [Replicas -> Configs]
    /\ issuer \in [Replicas -> 0..lastKey]
    /\ requests \in [Replicas -> {0, 1}]
    /\ launches \in [Replicas -> 0..MaxLaunches]

\* Processes past the migration.
Migrated == {r \in Replicas : phase[r] \in {"ensure", "insert", "defaults", "issuer", "listen", "serving", "draining"}}

\* The database is as it was, or whole and marked clean: no crash, no failing
\* statement and no second process leaves a part of a migration behind
\* (ApplyInitialMigration runs in one transaction, under a lock).
MigrationAllOrNothing ==
    \/ schema = legacy /\ migration = NoMigration
    \/ schema = Whole /\ migration.build # NoBuild /\ ~migration.dirty

\* A process that serves finds, at every later moment, the schema of its own
\* build; builds with different initial scripts never serve one database
\* together.  Where every process with ACME defaults shares them, a serving
\* process also answers /readyz with ok, whatever its replicas create.
ServesItsSchema ==
    \A r \in Migrated :
        /\ Applied(migration, build[r])
        /\ phase[r] = "serving" /\ (\A q \in Replicas : conf[q].defaults => conf[r].defaults) => Ready(r)

\* In production a process serves only behind API keys hashed with a pepper, and
\* with nonces that its replicas share.
ProductionGuarded ==
    \A r \in Migrated : conf[r].production =>
        conf[r].mode = "api_key" /\ conf[r].pepper = "strong" /\ conf[r].nonces = "sql"

\* The default issuer a process serves ACME with signs with the key of its
\* certificate: the key file, which every start writes anew, still holds it.
DefaultIssuerSigns ==
    \A r \in Replicas : phase[r] \in {"listen", "serving", "draining"} /\ conf[r].defaults =>
        issuer[r] \in issuers /\ keyFile[r] = issuer[r]

\* A process with a valid configuration and the build of the database serves in
\* the end, however the processes race for the migration and the bootstrap key.
EventuallyServes ==
    \A r \in Replicas :
        <>[](/\ Upgradeable(legacy) /\ Valid(conf[r]) /\ ~Refused(migration, build[r])
             /\ phase[r] # "draining") => []<>(phase[r] = "serving")

\* A signalled process exits, even if a handler never returns.
ShutdownEnds == \A r \in Replicas : phase[r] = "draining" ~> phase[r] = "down"

\* No process hangs on its way up or down: not on the migration lock, not on the
\* bootstrap key of another, not on its own handlers.
StartsAndStops == EventuallyServes /\ ShutdownEnds
=============================================================================
