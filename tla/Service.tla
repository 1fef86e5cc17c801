------------------------------ MODULE Service ------------------------------
(***************************************************************************)
(* The process around the storage manager (local-storage/src/main.rs,      *)
(* app.rs, handlers/health_handler.rs): the router with its concurrency    *)
(* limit and its timeout, the pool of database connections all handlers    *)
(* share, and the background task that applies the migrations while the    *)
(* server already answers.  What a handler does to objects is the subject  *)
(* of StorageManager; here a handler is a series of queries.               *)
(***************************************************************************)
EXTENDS Naturals, FiniteSets

CONSTANTS
    Clients,         \* requests that can be in flight at once
    MaxConcurrent,   \* Semaphore::new(100)
    PoolSize,        \* connections of the sqlx pool
    MaxAttempts,     \* MAX_ATTEMPTS of run_background_db_init
    Latest,          \* the number of files under migrations/
    MaxOutages,      \* bound: how often the database goes away or comes back
    MaxRestarts      \* bound: how often the process is restarted

ASSUME ServiceAssumption ==
    /\ IsFiniteSet(Clients)
    /\ MaxConcurrent \in Nat \ {0} /\ PoolSize \in Nat \ {0} /\ Latest \in Nat \ {0}
    /\ MaxAttempts \in Nat /\ MaxOutages \in Nat /\ MaxRestarts \in Nat

\* upload_router, main_router (its two health routes apart) and s3::router.
Routes == {"upload", "main", "health", "deep", "s3"}
Limited == {"main", "health", "deep"}

VARIABLES
    permits,    \* request_semaphore
    pool,       \* idle connections of the pool
    phase,      \* of each request: idle, running (no connection held), query
    route,      \* the router that serves it
    status,     \* what it was last answered and why, Pending while it is served
    db,         \* does Postgres accept connections
    schema,     \* migrations applied, in the database
    init,       \* run_background_db_init: load, migrate, apply, check, done, failed
    attempts,   \* its retries
    outages, restarts

requests == <<phase, route, status>>
startup  == <<init, attempts>>
bounds   == <<outages, restarts>>
vars     == <<permits, pool, requests, db, schema, startup, bounds>>

\* An answer.  The cause of an error is history: it tells an outage, an exhausted
\* pool, tables that are not (fully) migrated, a statement that a live and migrated
\* database refuses (a foreign key, a CHECK of the statistics trigger, a value that
\* does not decode, a connection that breaks) and every other StorageError (Io,
\* Encryption, Compression, Redis, a key that is gone) apart, all of them 500 to
\* the client.  400 stands for every refusal (4xx).
Causes == {"none", "away", "pool", "schema", "refused", "internal"}
Answer(code, why) == [code |-> code, why |-> why]
Pending == Answer(0, "none")

\* The database may be new, may hold the schema of an older release, or may not
\* be up yet; the process has just called axum::serve and spawned the task.
Init ==
    /\ permits = MaxConcurrent /\ pool = PoolSize
    /\ phase = [t \in Clients |-> "idle"]
    /\ route \in [Clients -> {"main"}]
    /\ status = [t \in Clients |-> Pending]
    /\ db \in BOOLEAN /\ schema \in 0 .. Latest
    /\ init = "load" /\ attempts = 0
    /\ outages = 0 /\ restarts = 0

-----------------------------------------------------------------------------
(* Requests.                                                               *)

Holds(t) == phase[t] # "idle" /\ route[t] \in Limited
Queries(t) == phase[t] = "query"

\* concurrency_limiter (try_acquire: it never waits) on the routes of
\* main_router; the upload route and the S3 routes have no such layer.
Admit(t, r) ==
    \/ /\ r \notin Limited \/ permits > 0
       /\ permits' = IF r \in Limited THEN permits - 1 ELSE permits
       /\ phase' = [phase EXCEPT ![t] = "running"]
       /\ status' = [status EXCEPT ![t] = Pending]
    \/ /\ r \in Limited /\ permits = 0
       /\ status' = [status EXCEPT ![t] = Answer(429, "none")]
       /\ UNCHANGED <<permits, phase>>

Arrive(t) ==
    /\ phase[t] = "idle"
    /\ \E r \in Routes : route' = [route EXCEPT ![t] = r] /\ Admit(t, r)
    /\ UNCHANGED <<pool, db, schema, startup, bounds>>

\* The request ends: drop(permit), or its drop with the handler's future, and
\* likewise the connection it holds.
Finish(t, answer) ==
    /\ phase' = [phase EXCEPT ![t] = "idle"]
    /\ status' = [status EXCEPT ![t] = answer]
    /\ permits' = IF Holds(t) THEN permits + 1 ELSE permits
    /\ pool' = IF Queries(t) THEN pool + 1 ELSE pool
    /\ UNCHANGED route

\* health_check touches nothing.
Health(t) ==
    /\ phase[t] = "running" /\ route[t] = "health"
    /\ Finish(t, Answer(200, "none"))
    /\ UNCHANGED <<db, schema, startup, bounds>>

\* A query takes a connection from the pool ...
Acquire(t) ==
    /\ phase[t] = "running" /\ route[t] # "health"
    /\ db /\ pool > 0
    /\ pool' = pool - 1
    /\ phase' = [phase EXCEPT ![t] = "query"]
    /\ UNCHANGED <<permits, route, status, db, schema, startup, bounds>>

\* ... or gives up waiting for one (acquire_timeout).
Unavailable(t, why) == Answer(IF route[t] = "deep" THEN 503 ELSE 500, why)
PoolTimeout(t) ==
    /\ phase[t] = "running" /\ route[t] # "health"
    /\ \/ ~db /\ Finish(t, Unavailable(t, "away"))
       \/ pool = 0 /\ Finish(t, Unavailable(t, "pool"))
    /\ UNCHANGED <<db, schema, startup, bounds>>

\* health_check_deep asks SELECT 1; every other query needs the tables as the last
\* migration leaves them.
Answerable(t) == db /\ (route[t] = "deep" \/ schema = Latest)

\* What the handler answers after a query of a live, migrated database: the query
\* may still be refused, and health_check_deep also PINGs the cache.
Answers(t) == {Answer(200, "none"), Unavailable(t, "refused")}

\* The connection goes back and the handler goes on.
Release(t) ==
    /\ phase' = [phase EXCEPT ![t] = "running"]
    /\ pool' = pool + 1
    /\ UNCHANGED <<permits, route, status>>

\* A handler makes several queries (health_check_deep one), each with a
\* connection of its own.
QueryOk(t) ==
    /\ Queries(t) /\ Answerable(t)
    /\ \/ \E answer \in Answers(t) : Finish(t, answer)
       \/ route[t] # "deep" /\ Release(t)
    /\ UNCHANGED <<db, schema, startup, bounds>>

\* A query that cannot succeed ends the request, or is only logged (update_access).
QueryFails(t) ==
    /\ Queries(t) /\ ~Answerable(t)
    /\ \/ Finish(t, Unavailable(t, IF db THEN "schema" ELSE "away"))
       \/ route[t] # "deep" /\ Release(t)
    /\ UNCHANGED <<db, schema, startup, bounds>>

\* The handler answers without a (further) query: it refuses the request, has what
\* it needs from the cache and the disk, or fails there (IntoResponse for
\* StorageError: Io, Encryption, Compression, Redis and others are a 500 too).
AnswerNow(t) ==
    /\ phase[t] = "running" /\ route[t] \notin {"health", "deep"}
    /\ \E answer \in {Answer(200, "none"), Answer(400, "none"), Answer(500, "internal")} :
         Finish(t, answer)
    /\ UNCHANGED <<db, schema, startup, bounds>>

\* MUTANT of Timeout: a query is not interrupted.
TimeoutUnlessQuerying(t) ==
    /\ Holds(t) /\ ~Queries(t)
    /\ Finish(t, Answer(408, "none"))
    /\ UNCHANGED <<db, schema, startup, bounds>>

\* TimeoutLayer, inside the limiter: main_router only.
Timeout(t) ==
    /\ Holds(t)
    /\ Finish(t, Answer(408, "none"))
    /\ UNCHANGED <<db, schema, startup, bounds>>

\* MUTANT of Disconnect: the connection stays with the dropped handler.
DisconnectLeaks(t) ==
    /\ phase[t] # "idle"
    /\ phase' = [phase EXCEPT ![t] = "idle"]
    /\ status' = [status EXCEPT ![t] = Pending]
    /\ permits' = IF Holds(t) THEN permits + 1 ELSE permits
    /\ UNCHANGED <<pool, route, db, schema, startup, bounds>>

\* The client goes away (or the handler panics) and the future is dropped.
Disconnect(t) ==
    /\ phase[t] # "idle"
    /\ Finish(t, Pending)
    /\ UNCHANGED <<db, schema, startup, bounds>>

-----------------------------------------------------------------------------
(* run_background_db_init.                                                 *)

\* Migrator::new reads migrations/; if that fails the task returns at once.
Load ==
    /\ init = "load" /\ init' \in {"migrate", "failed"}
    /\ UNCHANGED <<permits, pool, requests, db, schema, attempts, bounds>>

\* migrator.run takes a connection for the whole attempt ...
MigrateBegin ==
    /\ init = "migrate" /\ db /\ pool > 0
    /\ init' = "apply" /\ pool' = pool - 1
    /\ UNCHANGED <<permits, requests, db, schema, attempts, bounds>>

\* ... and applies what _sqlx_migrations does not list, each file in a
\* transaction of its own.
Migrate ==
    /\ init = "apply" /\ db /\ schema < Latest
    /\ schema' = schema + 1
    /\ UNCHANGED <<permits, pool, requests, db, startup, bounds>>

\* MUTANT of MigrateOk: one file is taken for all of them.
MigrateOkEarly ==
    /\ init = "apply" /\ db /\ schema > 0
    /\ init' = "check" /\ pool' = pool + 1
    /\ UNCHANGED <<permits, requests, db, schema, attempts, bounds>>

MigrateOk ==
    /\ init = "apply" /\ db /\ schema = Latest
    /\ init' = "check" /\ pool' = pool + 1
    /\ UNCHANGED <<permits, requests, db, schema, attempts, bounds>>

\* An attempt can fail at any point: no database, no connection, an outage half
\* way, a statement of a file, a version or a checksum that does not match.
AttemptFails ==
    \/ init = "migrate" /\ UNCHANGED pool
    \/ init = "apply" /\ pool' = pool + 1

\* MUTANTS of MigrateFails: retries that are not counted; one retry too many.
MigrateFailsUncounted ==
    /\ AttemptFails
    /\ init' = "migrate"
    /\ UNCHANGED <<permits, requests, db, schema, attempts, bounds>>
MigrateFailsOneMore ==
    /\ AttemptFails
    /\ \/ attempts <= MaxAttempts /\ attempts' = attempts + 1 /\ init' = "migrate"
       \/ attempts > MaxAttempts /\ init' = "failed" /\ UNCHANGED attempts
    /\ UNCHANGED <<permits, requests, db, schema, bounds>>

\* A failed attempt is repeated up to MaxAttempts times, whatever the error; then
\* the task returns, and the server goes on serving.
MigrateFails ==
    /\ AttemptFails
    /\ \/ attempts < MaxAttempts /\ attempts' = attempts + 1 /\ init' = "migrate"
       \/ attempts = MaxAttempts /\ init' = "failed" /\ UNCHANGED attempts
    /\ UNCHANGED <<permits, requests, db, schema, bounds>>

\* The warning about files without rows: advisory, whatever the query returns.
SanityCheck ==
    /\ init = "check"
    /\ init' = "done"
    /\ UNCHANGED <<permits, pool, requests, db, schema, attempts, bounds>>

-----------------------------------------------------------------------------
(* The environment.                                                        *)

\* Postgres goes away or comes back (it may be scaled to zero); what it stores
\* stays.
Outage ==
    /\ outages < MaxOutages
    /\ outages' = outages + 1
    /\ db' = ~db
    /\ UNCHANGED <<permits, pool, requests, schema, startup, restarts>>

\* The process is killed, at any point of a migration or a request, and started
\* again with a new semaphore, a new pool and a new task.
Restart ==
    /\ restarts < MaxRestarts
    /\ restarts' = restarts + 1
    /\ permits' = MaxConcurrent /\ pool' = PoolSize
    /\ phase' = [t \in Clients |-> "idle"]
    /\ status' = [t \in Clients |-> Pending]
    /\ init' = "load" /\ attempts' = 0
    /\ UNCHANGED <<route, db, schema, outages>>

-----------------------------------------------------------------------------
Request(t) ==
    \/ Arrive(t) \/ Health(t) \/ Acquire(t) \/ PoolTimeout(t) \/ QueryOk(t)
    \/ QueryFails(t) \/ AnswerNow(t) \/ Timeout(t) \/ Disconnect(t)
BackgroundInit ==
    Load \/ MigrateBegin \/ Migrate \/ MigrateOk \/ MigrateFails \/ SanityCheck

Next == (\E t \in Clients : Request(t)) \/ BackgroundInit \/ Outage \/ Restart
Spec == Init /\ [][Next]_vars

\* The timer of TimeoutLayer fires, and the runtime polls the background task,
\* whose statements succeed or fail.  Nothing else is fair: a query, a body that
\* is being uploaded or a client may hang for ever.
FairSpec ==
    /\ Spec
    /\ \A t \in Clients : WF_vars(Timeout(t))
    /\ WF_vars(BackgroundInit)

-----------------------------------------------------------------------------
\* The retries stay within their budget, and the counters, the phases and the
\* answers within the ranges the code gives them.
TypeOK ==
    /\ permits \in 0 .. MaxConcurrent /\ pool \in 0 .. PoolSize
    /\ phase \in [Clients -> {"idle", "running", "query"}]
    /\ route \in [Clients -> Routes]
    /\ status \in [Clients -> [code : {0, 200, 400, 408, 429, 500, 503}, why : Causes]]
    /\ db \in BOOLEAN /\ schema \in 0 .. Latest
    /\ init \in {"load", "migrate", "apply", "check", "done", "failed"}
    /\ attempts \in 0 .. MaxAttempts
    /\ outages \in 0 .. MaxOutages /\ restarts \in 0 .. MaxRestarts

\* Every permit is in the semaphore or with one limited request in flight, and
\* every connection in the pool, with one request that is querying or with the
\* migrator: answers, timeouts, disconnects, failures and restarts, in any order,
\* lose none and create none, so at most MaxConcurrent limited requests run at
\* once.  (concurrency_limiter, TimeoutLayer, the pool's guards.)
NothingLeaks ==
    /\ permits + Cardinality({t \in Clients : Holds(t)}) = MaxConcurrent
    /\ pool + Cardinality({t \in Clients : Queries(t)})
            + (IF init = "apply" THEN 1 ELSE 0) = PoolSize

\* "a request landing before either finishes just hits the DB's normal
\* transient-error handling": while the process whose background task has applied
\* the migrations runs, no request fails for a table that is missing or half
\* migrated, however often earlier processes were killed, or earlier attempts
\* failed, between two files.  Errors with another cause (Causes) go on for as
\* long as their cause does, a key that is gone or a file that cannot be read
\* for ever.
SchemaErrorsEnd ==
    [][\A t \in Clients :
         status'[t] # status[t] /\ status'[t].why = "schema"
         => init \in {"load", "migrate", "apply", "failed"}]_vars

\* A permit that is taken comes back, even if the database, the disk or the
\* client never answers: saturation, and with it a /health that is answered 429,
\* does not outlast the requests that cause it.
PermitsReturn == \A t \in Clients : Holds(t) ~> ~Holds(t)

\* The background task comes to an end, however often its statements fail, the
\* database goes away or hanging requests keep the connections: it succeeds (and
\* then, by SchemaErrorsEnd, has applied every migration) or gives up.  That every
\* statement ends one way or the other is assumed (FairSpec): an attempt that
\* waits for ever on a lock of the database has no timeout in the code.
MigrationsSettle == <>[](init \in {"done", "failed"})

=============================================================================
