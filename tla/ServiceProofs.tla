--------------------------- MODULE ServiceProofs ---------------------------
(***************************************************************************)
(* No permit and no connection is ever lost or made up, for any number of  *)
(* requests in flight, any limit and any pool: TypeOK and NothingLeaks are *)
(* invariants of Service, and inductive together.                          *)
(***************************************************************************)
EXTENDS Service, FiniteSetTheorems, TLAPS

Holders == {t \in Clients : Holds(t)}
Querying == {t \in Clients : Queries(t)}
Migrator == IF init = "apply" THEN 1 ELSE 0

\* What a handler can be answered once it is admitted.
Codes == {0, 200, 400, 408, 500, 503}

Inv == TypeOK /\ NothingLeaks

\* What NothingLeaks counts: sets of requests, of which there are finitely many.
LEMMA CountType ==
    ASSUME NEW S, S \subseteq Clients
    PROVE  IsFiniteSet(S) /\ Cardinality(S) \in Nat
  BY ServiceAssumption, FS_Subset, FS_CardinalityType DEF ServiceAssumption

\* One holder more is one more in the count.
LEMMA CountAdd ==
    ASSUME NEW S, S \subseteq Clients, NEW t \in Clients, t \notin S
    PROVE  Cardinality(S \union {t}) = Cardinality(S) + 1
  BY CountType, FS_AddElement

\* One holder less is one less.
LEMMA CountRemove ==
    ASSUME NEW S, S \subseteq Clients, NEW t \in S
    PROVE  Cardinality(S \ {t}) = Cardinality(S) - 1
  BY CountType, FS_RemoveElement

\* Nobody holds nothing.
LEMMA CountNone == Cardinality({}) = 0
  BY FS_EmptySet

\* The counts of NothingLeaks are naturals.
LEMMA Counts ==
    /\ Holders \subseteq Clients /\ Querying \subseteq Clients
    /\ Cardinality(Holders) \in Nat /\ Cardinality(Querying) \in Nat
  BY CountType DEF Holders, Querying

\* So are they after the step.
LEMMA CountsNext ==
    /\ Cardinality(Holders') \in Nat /\ Cardinality(Querying') \in Nat
<1>1. Holders' \subseteq Clients /\ Querying' \subseteq Clients
  BY DEF Holders, Querying
<1> QED BY <1>1, CountType

\* NothingLeaks in terms of these counts, before and after a step.
LEMMA Balance ==
    /\ NothingLeaks <=> /\ permits + Cardinality(Holders) = MaxConcurrent
                        /\ pool + Cardinality(Querying) + Migrator = PoolSize
    /\ NothingLeaks' <=> /\ permits' + Cardinality(Holders') = MaxConcurrent
                         /\ pool' + Cardinality(Querying') + Migrator' = PoolSize
  BY DEF NothingLeaks, Holders, Querying, Migrator

\* A request that ends gives back exactly what it held.
LEMMA FinishStep ==
    ASSUME Inv, NEW t \in Clients, NEW answer \in [code : Codes, why : Causes],
           phase[t] # "idle", Finish(t, answer),
           UNCHANGED <<db, schema, startup, bounds>>
    PROVE  Inv'
<1> USE ServiceAssumption DEF ServiceAssumption
<1>1. Holders' = Holders \ {t}
  BY DEF Inv, TypeOK, Finish, Holders, Holds
<1>2. Querying' = Querying \ {t}
  BY DEF Inv, TypeOK, Finish, Querying, Queries
<1>3. permits' + Cardinality(Holders') = permits + Cardinality(Holders)
  <2>1. CASE Holds(t)
    <3>1. t \in Holders /\ permits' = permits + 1
      BY <2>1 DEF Finish, Holders
    <3>2. Cardinality(Holders') = Cardinality(Holders) - 1
      BY <1>1, <3>1, Counts, CountRemove
    <3> QED BY <3>1, <3>2, Counts DEF Inv, TypeOK
  <2>2. CASE ~Holds(t)
    <3>1. Holders' = Holders /\ permits' = permits
      BY <1>1, <2>2 DEF Finish, Holders
    <3> QED BY <3>1
  <2> QED BY <2>1, <2>2
<1>4. pool' + Cardinality(Querying') = pool + Cardinality(Querying)
  <2>1. CASE Queries(t)
    <3>1. t \in Querying /\ pool' = pool + 1
      BY <2>1 DEF Finish, Querying
    <3>2. Cardinality(Querying') = Cardinality(Querying) - 1
      BY <1>2, <3>1, Counts, CountRemove
    <3> QED BY <3>1, <3>2, Counts DEF Inv, TypeOK
  <2>2. CASE ~Queries(t)
    <3>1. Querying' = Querying /\ pool' = pool
      BY <1>2, <2>2 DEF Finish, Querying
    <3> QED BY <3>1
  <2> QED BY <2>1, <2>2
<1>5. permits' \in Nat /\ pool' \in Nat
  BY DEF Inv, TypeOK, Finish
<1>6. NothingLeaks'
  BY <1>3, <1>4, <1>5, Counts, CountsNext, Balance DEF Inv, TypeOK, Migrator, startup
<1>7. permits' \in 0 .. MaxConcurrent /\ pool' \in 0 .. PoolSize
  BY <1>5, <1>6, CountsNext DEF NothingLeaks, Holders, Querying
<1>8. TypeOK'
  BY <1>7 DEF Inv, TypeOK, Finish, Codes, startup, bounds
<1> QED BY <1>6, <1>8 DEF Inv

\* A request that is admitted takes a permit that was there; one that is refused
\* takes nothing.
LEMMA ArriveStep ==
    ASSUME Inv, NEW t \in Clients, Arrive(t)
    PROVE  Inv'
<1> USE ServiceAssumption DEF ServiceAssumption
<1>1. PICK r \in Routes : route' = [route EXCEPT ![t] = r] /\ Admit(t, r)
  BY DEF Arrive
<1>2. /\ phase[t] = "idle" /\ t \notin Holders
      /\ UNCHANGED <<pool, db, schema, startup, bounds>>
  BY DEF Arrive, Holders, Holds
<1>3. Querying' = Querying
  BY <1>1, <1>2 DEF Admit, Querying, Queries, Inv, TypeOK
<1>4. /\ permits' \in Nat
      /\ permits' + Cardinality(Holders') = permits + Cardinality(Holders)
  <2>1. CASE r \in Limited /\ permits > 0
    <3>1. Holders' = Holders \union {t}
      BY <1>1, <1>2, <2>1 DEF Admit, Holders, Holds, Inv, TypeOK
    <3>2. permits' = permits - 1
      BY <1>1, <2>1 DEF Admit
    <3> QED BY <1>2, <2>1, <3>1, <3>2, Counts, CountAdd DEF Inv, TypeOK
  <2>2. CASE r \notin Limited
    <3>1. Holders' = Holders /\ permits' = permits
      BY <1>1, <1>2, <2>2 DEF Admit, Holders, Holds, Inv, TypeOK
    <3> QED BY <3>1 DEF Inv, TypeOK
  <2>3. CASE r \in Limited /\ ~(permits > 0)
    <3>1. Holders' = Holders /\ permits' = permits
      BY <1>1, <1>2, <2>3 DEF Admit, Holders, Holds, Inv, TypeOK
    <3> QED BY <3>1 DEF Inv, TypeOK
  <2> QED BY <2>1, <2>2, <2>3
<1>5. NothingLeaks'
  BY <1>2, <1>3, <1>4, Counts, CountsNext, Balance DEF Inv, TypeOK, Migrator, startup
<1>6. permits' \in 0 .. MaxConcurrent
  BY <1>4, <1>5, CountsNext DEF NothingLeaks, Holders, Querying
<1>7. phase' \in [Clients -> {"idle", "running", "query"}]
  BY <1>1 DEF Admit, Inv, TypeOK
<1>8. status' \in [Clients -> [code : {0, 200, 400, 408, 429, 500, 503}, why : Causes]]
  BY <1>1 DEF Admit, Inv, TypeOK, Answer, Pending, Causes
<1>9. TypeOK'
  BY <1>1, <1>2, <1>6, <1>7, <1>8 DEF Inv, TypeOK, startup, bounds
<1> QED BY <1>5, <1>9 DEF Inv

\* A query takes a connection out of the pool.
LEMMA AcquireStep ==
    ASSUME Inv, NEW t \in Clients, Acquire(t)
    PROVE  Inv'
<1> USE ServiceAssumption DEF ServiceAssumption
<1>1. Holders' = Holders
  BY DEF Acquire, Holders, Holds, Inv, TypeOK
<1>2. Querying' = Querying \union {t} /\ t \notin Querying
  BY DEF Acquire, Querying, Queries, Inv, TypeOK
<1>3. Cardinality(Querying') = Cardinality(Querying) + 1
  BY <1>2, Counts, CountAdd
<1>4. NothingLeaks'
  BY <1>1, <1>3, Counts, Balance DEF Acquire, Inv, TypeOK, Migrator, startup
<1>5. TypeOK'
  BY DEF Acquire, Inv, TypeOK, startup, bounds
<1> QED BY <1>4, <1>5 DEF Inv

\* A handler that goes on after a query has put the connection back.
LEMMA ReleaseStep ==
    ASSUME Inv, NEW t \in Clients, Queries(t), Release(t),
           UNCHANGED <<db, schema, startup, bounds>>
    PROVE  Inv'
<1> USE ServiceAssumption DEF ServiceAssumption
<1>1. Holders' = Holders
  BY DEF Release, Queries, Holders, Holds, Inv, TypeOK
<1>2. Querying' = Querying \ {t} /\ t \in Querying
  BY DEF Release, Querying, Queries, Inv, TypeOK
<1>3. Cardinality(Querying') = Cardinality(Querying) - 1
  BY <1>2, Counts, CountRemove
<1>4. NothingLeaks'
  BY <1>1, <1>3, Counts, Balance DEF Release, Inv, TypeOK, Migrator, startup
<1>5. pool' \in 0 .. PoolSize
  BY <1>4, CountsNext DEF Release, Inv, TypeOK, NothingLeaks, Querying, startup
<1>6. TypeOK'
  BY <1>5 DEF Release, Inv, TypeOK, startup, bounds
<1> QED BY <1>4, <1>6 DEF Inv

\* The background task holds one connection exactly while it applies migrations.
LEMMA MigrateStep ==
    ASSUME Inv, BackgroundInit
    PROVE  Inv'
<1> USE ServiceAssumption DEF ServiceAssumption
<1>1. Holders' = Holders /\ Querying' = Querying /\ UNCHANGED <<permits, requests, bounds>>
  BY DEF BackgroundInit, Load, MigrateBegin, Migrate, MigrateOk, MigrateFails, SanityCheck,
         Holders, Holds, Querying, Queries, requests
<1>2. \/ pool' = pool /\ Migrator' = Migrator
      \/ pool' = pool - 1 /\ Migrator' = 1 /\ Migrator = 0 /\ pool > 0
      \/ pool' = pool + 1 /\ Migrator' = 0 /\ Migrator = 1
  <2>1. CASE MigrateBegin
    BY <2>1 DEF MigrateBegin, Migrator
  <2>2. CASE Load \/ Migrate \/ SanityCheck
    BY <2>2 DEF Load, Migrate, SanityCheck, Migrator, startup
  <2>3. CASE MigrateOk
    BY <2>3 DEF MigrateOk, Migrator
  <2>4. CASE MigrateFails
    BY <2>4 DEF MigrateFails, AttemptFails, Migrator
  <2> QED BY <2>1, <2>2, <2>3, <2>4 DEF BackgroundInit
<1>3. NothingLeaks'
  <2>1. permits' + Cardinality(Holders') = MaxConcurrent
    BY <1>1, Balance DEF Inv
  <2>2. pool + Cardinality(Querying) + Migrator = PoolSize /\ pool \in Nat
    BY Balance DEF Inv, TypeOK
  <2>3. pool' + Cardinality(Querying) + Migrator' = PoolSize
    BY <1>2, <2>2, Counts DEF Migrator
  <2> QED BY <1>1, <2>1, <2>3, Balance
<1>4. pool' \in 0 .. PoolSize
  BY <1>2, <1>3, CountsNext, Balance DEF Inv, TypeOK, Migrator
<1>5. /\ db' = db /\ schema' \in 0 .. Latest
      /\ init' \in {"load", "migrate", "apply", "check", "done", "failed"}
      /\ attempts' \in 0 .. MaxAttempts
  BY DEF BackgroundInit, Load, MigrateBegin, Migrate, MigrateOk, MigrateFails, AttemptFails,
         SanityCheck, Inv, TypeOK, startup
<1>6. TypeOK'
  BY <1>1, <1>4, <1>5 DEF Inv, TypeOK, requests, bounds
<1> QED BY <1>3, <1>6 DEF Inv

\* A new process starts with all permits, all connections and no request.
LEMMA RestartStep ==
    ASSUME Inv, Restart
    PROVE  Inv'
<1> USE ServiceAssumption DEF ServiceAssumption
<1>1. Holders' = {} /\ Querying' = {}
  BY DEF Restart, Holders, Holds, Querying, Queries
<1>2. NothingLeaks'
  BY <1>1, CountNone DEF Restart, NothingLeaks, Holders, Querying
<1>3. TypeOK'
  BY DEF Restart, Inv, TypeOK, Answer, Pending, Causes
<1> QED BY <1>2, <1>3 DEF Inv

\* Every permit and every connection is free at the start.
LEMMA InitInv == Init => Inv
<1> SUFFICES ASSUME Init PROVE Inv
  OBVIOUS
<1> USE ServiceAssumption DEF ServiceAssumption
<1>1. Holders = {} /\ Querying = {}
  BY DEF Init, Holders, Holds, Querying, Queries
<1>2. NothingLeaks
  BY <1>1, CountNone DEF Init, NothingLeaks, Holders, Querying
<1>3. TypeOK
  BY DEF Init, TypeOK, Routes, Answer, Pending, Causes
<1> QED BY <1>2, <1>3 DEF Inv

\* No step loses or makes up a permit or a connection, one case per action.
LEMMA NextInv == Inv /\ [Next]_vars => Inv'
<1> SUFFICES ASSUME Inv, [Next]_vars PROVE Inv'
  OBVIOUS
<1>0. /\ \A code \in Codes, why \in Causes : Answer(code, why) \in [code : Codes, why : Causes]
      /\ Pending \in [code : Codes, why : Causes]
      /\ \A t \in Clients, why \in Causes : Unavailable(t, why) \in [code : Codes, why : Causes]
  BY DEF Answer, Pending, Unavailable, Codes, Causes
<1>1. ASSUME NEW t \in Clients, Health(t) PROVE Inv'
  BY <1>0, <1>1, FinishStep DEF Health, Codes, Causes
<1>2. ASSUME NEW t \in Clients, PoolTimeout(t) PROVE Inv'
  BY <1>0, <1>2, FinishStep DEF PoolTimeout, Causes
<1>3. ASSUME NEW t \in Clients, QueryOk(t) PROVE Inv'
  <2>1. \A answer \in Answers(t) : answer \in [code : Codes, why : Causes]
    BY <1>0 DEF Answers, Codes, Causes
  <2> QED BY <1>3, <2>1, FinishStep, ReleaseStep DEF QueryOk, Queries
<1>4. ASSUME NEW t \in Clients, QueryFails(t) PROVE Inv'
  BY <1>0, <1>4, FinishStep, ReleaseStep DEF QueryFails, Queries, Causes
<1>5. ASSUME NEW t \in Clients, AnswerNow(t) PROVE Inv'
  <2>1. \A answer \in {Answer(200, "none"), Answer(400, "none"), Answer(500, "internal")} :
          answer \in [code : Codes, why : Causes]
    BY <1>0 DEF Codes, Causes
  <2> QED BY <1>5, <2>1, FinishStep DEF AnswerNow
<1>6. ASSUME NEW t \in Clients, Timeout(t) PROVE Inv'
  BY <1>0, <1>6, FinishStep DEF Timeout, Holds, Codes, Causes
<1>7. ASSUME NEW t \in Clients, Disconnect(t) PROVE Inv'
  BY <1>0, <1>7, FinishStep DEF Disconnect
<1>8. CASE Outage
  <2>1. Holders' = Holders /\ Querying' = Querying
    BY <1>8 DEF Outage, requests, Holders, Holds, Querying, Queries
  <2>2. NothingLeaks'
    BY <1>8, <2>1 DEF Outage, Inv, NothingLeaks, Holders, Querying, startup
  <2>3. TypeOK'
    BY <1>8, ServiceAssumption DEF Outage, Inv, TypeOK, requests, startup, ServiceAssumption
  <2> QED BY <2>2, <2>3 DEF Inv
<1>9. CASE UNCHANGED vars
  <2>1. Holders' = Holders /\ Querying' = Querying
    BY <1>9 DEF vars, requests, Holders, Holds, Querying, Queries
  <2>2. NothingLeaks'
    BY <1>9, <2>1 DEF vars, Inv, NothingLeaks, Holders, Querying, startup
  <2>3. TypeOK'
    BY <1>9 DEF vars, Inv, TypeOK, requests, startup, bounds
  <2> QED BY <2>2, <2>3 DEF Inv
<1> QED
  BY <1>1, <1>2, <1>3, <1>4, <1>5, <1>6, <1>7, <1>8, <1>9, ArriveStep, AcquireStep,
     MigrateStep, RestartStep DEF Next, Request

\* Whatever the timeouts, disconnects, failures and restarts, permits and
\* connections are conserved (app.rs: concurrency_limiter, TimeoutLayer; main.rs:
\* run_background_db_init).
THEOREM Conserved == Spec => []NothingLeaks
<1> QED BY InitInv, NextInv, PTL DEF Inv, Spec

\* The retries stay within MAX_ATTEMPTS (main.rs), and the counters within their
\* ranges.
THEOREM TypeCorrect == Spec => []TypeOK
<1> QED BY InitInv, NextInv, PTL DEF Inv, Spec

-----------------------------------------------------------------------------
(* Errors after the migrations.                                            *)

\* The task that has succeeded has applied everything, and nothing takes a
\* migration back.
Migrated == init \in {"check", "done"} => schema = Latest

\* Once the task has seen every migration applied, they stay applied.
LEMMA MigratedStep ==
    ASSUME Inv, Migrated, [Next]_vars
    PROVE  Migrated'
<1>1. CASE BackgroundInit
  BY <1>1 DEF BackgroundInit, Load, MigrateBegin, Migrate, MigrateOk, MigrateFails,
     SanityCheck, Migrated, startup
<1>2. ASSUME NEW t \in Clients, Request(t) PROVE UNCHANGED <<init, schema>>
  BY <1>2 DEF Request, Arrive, Health, Acquire, PoolTimeout, QueryOk, QueryFails,
     AnswerNow, Timeout, Disconnect, startup
<1>3. CASE Outage
  BY <1>3 DEF Outage, Migrated, startup
<1>4. CASE Restart
  BY <1>4 DEF Restart, Migrated
<1>5. CASE UNCHANGED vars
  BY <1>5 DEF vars, Migrated, startup
<1> QED BY <1>1, <1>2, <1>3, <1>4, <1>5 DEF Next, Migrated

\* A step that answers a request with an error of the schema.
Blames(t) == status'[t] # status[t] /\ status'[t].why = "schema"
Excused == init \in {"load", "migrate", "apply", "failed"}

\* A step that ends or begins a request leaves the answers of the others alone.
LEMMA OnlyOwnAnswer ==
    ASSUME Inv, NEW t \in Clients, NEW u \in Clients, NEW answer,
           status' = [status EXCEPT ![u] = answer]
    PROVE  Blames(t) => t = u /\ answer.why = "schema"
  BY DEF Inv, TypeOK, Blames

\* A step that ends one request answers no other.
LEMMA OnlyOwnFinish ==
    ASSUME Inv, NEW t \in Clients, NEW u \in Clients, NEW answer, Finish(u, answer)
    PROVE  Blames(t) => t = u /\ answer.why = "schema"
  BY OnlyOwnAnswer DEF Finish

\* Only a query of a live database whose migrations are not through fails for the
\* schema.
LEMMA ErrorStep ==
    ASSUME Inv, Migrated, Next, NEW t \in Clients, Blames(t)
    PROVE  Excused
<1>1. ASSUME NEW u \in Clients, QueryFails(u) PROVE Excused
  <2>1. ~Release(u)
    BY DEF Release, Blames
  <2>2. CASE ~db
    <3>1. Finish(u, Unavailable(u, "away"))
      BY <1>1, <2>1, <2>2 DEF QueryFails
    <3>2. Unavailable(u, "away").why # "schema"
      BY DEF Unavailable, Answer
    <3> QED BY <3>1, <3>2, OnlyOwnFinish
  <2>3. CASE db
    <3>1. schema # Latest
      BY <1>1, <2>3 DEF QueryFails, Answerable
    <3> QED BY <3>1 DEF Excused, Migrated, Inv, TypeOK
  <2> QED BY <2>2, <2>3
<1>2. ASSUME NEW u \in Clients, NEW answer, answer.why # "schema", Finish(u, answer)
      PROVE  FALSE
  BY <1>2, OnlyOwnFinish
<1>3. /\ \A code : Answer(code, "none").why # "schema" /\ Answer(code, "internal").why # "schema"
      /\ Pending.why # "schema"
      /\ \A u \in Clients : /\ Unavailable(u, "away").why # "schema"
                            /\ Unavailable(u, "pool").why # "schema"
                            /\ Unavailable(u, "refused").why # "schema"
  BY DEF Answer, Pending, Unavailable
<1>4. ASSUME NEW u \in Clients, Arrive(u) PROVE FALSE
  <2>1. \/ status' = [status EXCEPT ![u] = Pending]
        \/ status' = [status EXCEPT ![u] = Answer(429, "none")]
    BY <1>4 DEF Arrive, Admit
  <2> QED BY <1>3, <2>1, OnlyOwnAnswer
<1>5. ASSUME NEW u \in Clients, Acquire(u) PROVE FALSE
  BY <1>5 DEF Acquire, Blames
<1>6. ASSUME NEW u \in Clients, QueryOk(u) PROVE FALSE
  <2>1. \A answer \in Answers(u) : answer.why # "schema"
    BY <1>3 DEF Answers
  <2> QED BY <1>6, <1>2, <2>1 DEF QueryOk, Release, Blames
<1>7. ASSUME NEW u \in Clients, PoolTimeout(u) PROVE FALSE
  BY <1>7, <1>2, <1>3 DEF PoolTimeout
<1>8. ASSUME NEW u \in Clients, AnswerNow(u) PROVE FALSE
  <2>1. PICK answer \in {Answer(200, "none"), Answer(400, "none"), Answer(500, "internal")} :
          Finish(u, answer)
    BY <1>8 DEF AnswerNow
  <2>2. answer.why # "schema"
    BY <1>3
  <2> QED BY <1>2, <2>1, <2>2
<1>9. ASSUME NEW u \in Clients, Health(u) \/ Timeout(u) \/ Disconnect(u)
      PROVE  FALSE
  BY <1>9, <1>2, <1>3 DEF Health, Timeout, Disconnect
<1>10. CASE BackgroundInit \/ Outage
  BY <1>10 DEF BackgroundInit, Load, MigrateBegin, Migrate, MigrateOk, MigrateFails,
     SanityCheck, Outage, requests, Blames
<1>11. CASE Restart
  BY <1>11, <1>3 DEF Restart, Blames
<1> QED
  BY <1>1, <1>4, <1>5, <1>6, <1>7, <1>8, <1>9, <1>10, <1>11 DEF Next, Request

\* Once run_background_db_init has succeeded (main.rs), no request of that process
\* fails for a missing or half-migrated table, for any number of migrations, kills,
\* failed attempts and outages.
THEOREM TransientSchemaErrors == Spec => SchemaErrorsEnd
<1>1. Init => Inv /\ Migrated
  BY InitInv DEF Init, Migrated
<1>2. Inv /\ Migrated /\ [Next]_vars => (Inv /\ Migrated)'
  BY NextInv, MigratedStep
<1>3. Inv /\ Migrated /\ [Next]_vars =>
        [\A t \in Clients :
           status'[t] # status[t] /\ status'[t].why = "schema"
           => init \in {"load", "migrate", "apply", "failed"}]_vars
  BY ErrorStep DEF Blames, Excused
<1> QED BY <1>1, <1>2, <1>3, PTL DEF SchemaErrorsEnd, Spec

=============================================================================
