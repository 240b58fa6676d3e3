# Verification of logs-collector-api

TLA+ models of the log collector's request paths, checked with TLC on small
instances and proved with TLAPS for instances of any size. All paths below are relative to the repository's root.

## 1. The system

The process takes log entries and queries by REST and by gRPC, keeps the entries
in PostgreSQL, announces each stored entry on the NATS subject `logs.send` and
indexes it in Elasticsearch.

| component | state it keeps | operations | talks to |
|---|---|---|---|
| `cmd/main.go` startup, shutdown | connections, two signal channels, the servers' goroutines | `run`, `startGRPCServer`, `startRESTServer` | starts everything, ends the process |
| REST server (`internal/pkg/server`, `handler/rest`, `middleware/rest`) | per request: the echo context, the response's status and committed flag, a context with a deadline | middleware Logging → Timeout → Recovery → Validation → handler | use case (call in the same goroutine) |
| gRPC server (`handler/grpc`, `middleware/grpc`) | per call: three goroutines, a channel of capacity 1, `done`, the shared variables `resp` and `err` | interceptors Logging → Timeout → Recovery → Validation → handler | use case (call in the third goroutine) |
| `middleware/timeout.go` | none; reads the context after the handler | `WithTimeout` | both timeout middlewares |
| Validation (`middleware/validation.go`, `helper/query.go`) | none | `ValidateSendLogRequest`, `ValidateGetLogsRequest`, `ParseQueryParams` | both servers |
| Use case (`usecase/log_usecase.go`) | none of its own | `SendLog`: insert, publish, index; `GetLogs`: one query | repository, producer, searcher |
| Repository (`infra/db`) | the `logs` table | `SendLog`, `GetLogs` | PostgreSQL |
| Generated models (`infra/db/models`) | three maps of statements, an RWMutex each | `Insert`, `Update`, `Upsert`, `All` and others | PostgreSQL |
| Migration program (`infra/db/migrations`) | the schema and its version, in the database | `main`, `runMigration` | golang-migrate, PostgreSQL |
| Configuration (`config/env.go`), logger (`logger/logger.go`) | what they were started with | `NewConfig`, `ParseLevel`, `SetLevel` | everything that starts |
| Producer (`infra/queue`) | the NATS client's outgoing buffer | `Publish` | NATS |
| Searcher (`infra/search`) | none | `IndexLog` | Elasticsearch |
| Echo validator, API description, test utilities | | | |

What is hard in it:

* **Three effects, no transaction.** `SendLog` inserts, then publishes, then
  indexes; each step can fail, can succeed with its answer lost, or can be cut
  off by a panic or by the process going away. Only the first failure is
  reported; the other two are logged and swallowed.
* **An answer that comes before the work ends.** The gRPC timeout answers the
  client while the handler keeps running in goroutines nobody waits for: it may
  store, publish and index afterwards. The REST timeout does the opposite: it
  looks at the clock only when the handler is back, and then writes a second
  response behind the first.
* **Two kinds of ended context** (deadline, client hang-up), read once, treated
  differently by the two servers.
* **Retries.** Clients that saw an error or a timeout send the entry again, with
  the same id in the same or another spelling, or with none, while the first
  INSERT may still be running. The primary key alone keeps them apart.
* **Waiting without a limit.** `IndexLog` uses `context.Background()` and a
  client with no timeout.
* **Exit.** `run` returns on the first signal. Calls in flight and the NATS
  client's buffer go with it. Another goroutine asks for the same signals to shut
  the REST server down, earlier or later than `run` does, and nobody waits for it.

* **One table, two front doors.** Both servers stand over one use case, one table
  and one process; a client may write by one and read, or retry, by the other.
* **Shared statement maps.** Every goroutine that stores an entry reads a map under
  a read lock, fills in what it did not find outside the lock, runs it, and writes
  the map under the write lock. The statements may come before the table does.
* **A migration that is three transactions.** golang-migrate marks the version
  dirty, runs the statement and marks the version clean; a crash may come between
  any two of them, and another run may be waiting for the lock.

What makes each component correct:

* use case: "ok" means stored; nobody hears of what is not stored; a reported
  failure is never announced; no key is announced twice; a page with room for
  every match holds every match acknowledged before it was read;
* gRPC server: OK is never said of a call that failed, panicked or did not
  finish; a refused call leaves no trace with the consumers; every call is
  answered whatever the services do, and no goroutine stays behind for ever;
* REST server: a status line that says 200, 400, 404 or 500 is true; a response
  in time is one JSON document, logged with the status that was sent; every
  request ends if the services answer;
* startup and shutdown: a signal `run` has asked for ends the process; a REST
  server told to shut down takes no request; nothing but a signal or the gRPC port
  cuts requests off;
* the whole process: a key is acknowledged to one call by whatever interface, an
  acknowledged entry is in the answer to a later query by either, and the answers
  of both keep the contract of the use case;
* statement maps: a call runs its own statement, no map is touched while it is
  written, nothing is kept that has never worked, no call hangs on a mutex;
* migrations: success means the table and a clean version, one run works at a time,
  a broken migration is left as it is, no run hangs behind another;
* configuration: the documented environments are accepted and no others, and no log
  level mutes the access log line of a failed gRPC call;
* validation: queries are accepted exactly in the ranges the validator names, what may be
  written may be queried for, and both servers report an outcome alike.

## 2. The modules

```
LogContract                abstract: what callers and consumers may observe
   ^ refined by (INSTANCE Contract ... WITH; theorem Implements)
LogUseCase                 use case + repository + producer + searcher + outside
   ^ EXTENDS               ^ EXTENDS              ^ EXTENDS
GrpcServer                RestServer             LogUseCase_proofs
   ^ EXTENDS both, and refines LogContract on the wire (Wire; theorem ServerImplements)
LogServer                  both servers in one process
RequestValidation          pure functions: validators, parsing, error codes (both servers EXTEND it)
   ^ EXTENDS
Configuration              pure functions: the environment, log levels
   ^ EXTENDS
RequestInput               what comes in, one thing at a time, and the properties of these functions
Lifecycle                  the process from its start to its end
SchemaContract             abstract: what migrations may do to the schema
   ^ refined by (INSTANCE Contract ... WITH; theorem SchemaKeeps)
Migration                  the migration program, any number of runs of it
   ^ EXTENDS
StatementCache             the statements of the models package, over the same table

LogUseCase_proofs          the inductive invariant, what follows from it and what a page may not
                           miss; extended by
  LogUseCase_refines       the refinement of LogContract
  GrpcServer_proofs        with GrpcServer: theorems of the gRPC server
  RestServer_proofs        with RestServer: theorems of the REST server
LogServer_proofs           with both of these: theorems of LogServer
RequestInput_proofs        theorems of the pure functions, for every input
Lifecycle_proofs           theorems of Lifecycle
StatementCache_proofs      theorems of Migration and StatementCache
MC*                        instances for TLC
```

**LogUseCase** follows each call (an element of `Calls`; a client's retry is
another call) through `log_usecase.go`. `pc[c]` is the place of its goroutine:
`insert` and `await` stand on either side of the exchange with PostgreSQL,
`publish`, `index` and `query` before the other exchanges, `ret` after the
return. Everything between two exchanges is local to the goroutine, so one
exchange is one action. The INSERT has a life of its own (`stmt[c]`): sent,
then applied or rejected by the server, at a moment the driver may or may not
learn of. `InsertFails` is enabled the whole time, because the driver returns
as soon as the context ends or the connection breaks; `DbApply` stays enabled
afterwards, because the server may still run the statement. `rows` is the table,
with the key as PostgreSQL reads it (`Canon`: two spellings of one uuid are one
key, and a text that is no uuid is `Malformed`), and the call that made the row.
`buf` is what the NATS client holds, `bus` what the server has carried; a full
buffer refuses a message, a broken connection drops one. `esSent` and `docs`
count the requests sent for an entry and the documents they left: the index API
is used without a document id and the client repeats a request that got no
usable answer, so there may be several. `Kill` ends every running call and
empties `buf`; calls that have not started belong to the next process. `Panic`
is the goroutine's panic between exchanges, as the recovery middlewares expect.

**LogContract** says the same with four sets and a verdict per call and no word
about statements, buffers or goroutines. The refinement mapping (end of
`LogUseCase`): an entry is *announced* when the NATS server has carried it,
*heard* at the index when a document exists, and a call that was killed or
panicked has verdict "aborted".

**GrpcServer** gives each call its three goroutines (`rpc`, `worker`, `chain`),
the channel and the shared `err`, and calls the actions of `LogUseCase` from the
handler's place. `SelectDone` and `SelectErr` are the two cases of the select
and may both be enabled. `late` is a history variable: the chain came back after
the deadline.

**RestServer** is the single goroutine of a REST request. `wire` is the committed
status, `bodies` the documents written, `status` what `Response().Status` says:
`JSON` is `echo.Context.JSON`, which sets `status` and appends its document every
time and the status line once. `overdue` is a history variable.

**LogServer** takes the actions of both server modules side by side. `GrpcSide` and
`RestSide` are a step of one server that leaves the other's goroutines alone;
`SArrive` notes which calls had been answered with success when a request came in
(`seen`, a history variable); `SExit` ends the calls of both. Each server module
allows for calls that are none of its own (`Elsewhere`, `RElsewhere`): they use the
same use case, and its steps on their behalf are all that the server sees. `Told`
is what a client may conclude from the answer: after a timeout, a hang-up, a panic
or the end of the process it knows nothing, and the refinement mapping says
"aborted".

**Migration** follows each run of `migrate.go` through its configuration, the
driver, the lock, the version and the three transactions of the one migration
(`Body`). `sql` is the statement a session has in hand, which the server applies or
gives up whether or not the client is still there; `lock` is the advisory lock,
which the server drops when it notices that the session is gone and its statement
over. `Killed` may happen at any place, `BodyFails` and `FinishLocked` are what a
lost connection does. golang-migrate and PostgreSQL are external: their steps are
taken from what `runMigration` asks of them and how it reads `Up`'s result.

**SchemaContract** says what runs may do to the schema with no word about locks,
sessions or versions: it is begun once, it is in the hands of the run that began it,
which completes it or lets go of it for good, and success is reported of a ready
schema only. The mapping (end of `Migration`) takes table and version together for
the schema: a table with a clean version is "ready", neither is "absent", everything
between is "partial"; it is in the hands of whoever holds the lock and works.

**StatementCache** follows each call of `Insert`, `Update` and `Upsert` from the read
lock over the lookup and the exchange with the database to the write lock. A call's
arguments are records, its statement is the record of what its text depends on, and
a key is the record of what it is written from. `wlock` is the place of a goroutine
that waits for the write lock: sync.RWMutex lets no new reader in before it.
`ProcessEnds` empties the maps and the mutexes; calls still to come belong to the
next process. The table is Migration's.

**Lifecycle** has one place per goroutine of `cmd/main.go`: `main` (`run`), `grpc`
(`startGRPCServer`), `rest` (echo's `Start`) and `waiter` (the goroutine that calls
`Shutdown`). `mainCh` and `waiterCh` are the two signal channels, each with room
for one; `Signal` sends to those that were asked for, drops what has no room and
ends the process where none was asked for. Requests are only "new", "active",
"answered" or "cut": what they do while they are active is the matter of the
server modules, and `EndProcess` is what `Kill`, `GoroutinesDie` and `RequestsDie`
say there. `told` is a history variable: a signal came after `run` had asked.

**RequestValidation** holds the validators as ordered lists of checks, the
parsing of the query parameters, and the error-to-code tables of both handlers
with what the recovery middlewares make of a panic and of an unknown code.

**Configuration** does the same for `NewConfig`, and holds the logger's levels and
the choice the access log makes between them.

**RequestInput** has one variable, the entry, query, outcome or environment that came
in, and states the properties of the two modules above about it. `Inputs` is any set
of such records: `InputAssumption` says which fields are numbers and which truth
values, and leaves the texts alone.

Definitions marked as deviations in a comment, such as `DuplicateIsSuccess`, are
no part of the system: each is a plausible mistake in the definition that follows
it, kept to show that the properties notice it.

## 3. The runs

| run | instance | what it shows |
|---|---|---|
| `RequestValidation` | one state per request, outcome or environment, values on both sides of every bound | an entry that may be written can be queried for by its service and level; a query is accepted exactly in the ranges the validator's error texts name, defaults included (the API description is wider, see the findings and what follows them); both interfaces answer alike; the process starts with exactly the documented environments; a failed gRPC call is in the access log whatever LOG_LEVEL says |
| `LogUseCase_calls` | 2 writers, 1 reader; ids: one uuid in two spellings, none, a malformed text; two levels; a reader of everything and one of a level past its first entry; buffer 1, 2 index attempts | types, four safety properties, the refinement of `LogContract`, what a page may not miss (`ReadsAcknowledged`), and that a page is short at the end of the listing only (`PagesAreFull`) |
| `GrpcServer_answers` | 1 gRPC call (a shared id, a malformed one, a rejected level, a query) and 1 call of another interface | what each code implies (`OkIsReal`, `RefusedIsSilent`), log against wire, that no goroutine waits for one that is gone (`NobodyWaitsInVain`), that every call is answered and its goroutines end |
| `GrpcServer_late` | 1 call | finding, below |
| `RestServer_answers` | 1 REST call (a shared id, a body that does not parse, a rejected level, a query) and 1 call of another interface | what each status implies, what is sent and logged in time and late (`ResponseAsLogged`), and that every request ends if the services answer |
| `RestServer_504`, `RestServer_hang` | 1 call | findings, below |
| `RequestValidation_levels` | as `RequestValidation` | finding, below |
| `Lifecycle_signals` | 1 gRPC request, 2 REST requests, 2 signals | that signals `run` has asked for reach it and nothing else does (`SignalReachesRun`), that they end the process, a closed REST server, what cuts requests off |
| `Lifecycle_graceful` | the same | finding, below |
| `LogServer` | 1 gRPC call, 1 REST call: one id in two spellings, a rejected level, queries | `KeyAckedOnce`, `ReadYourWrites`, and that what both answer keeps `LogContract` |
| `StatementCache` | 2 runs of the migration, or 1 beside 3 calls: three first calls of one map, or two with a third of another | `SuccessIsComplete`, `OneAtATime`, `BrokenStaysBroken`, the refinement of `SchemaContract`, `EveryMigrationEnds`; `OwnStatement`, `MapNotTorn`, `CachedIsProven`, `SomebodyMoves`, `EveryStatementEnds` |

*Why the bounds are enough.* The safety properties relate at most two calls: the
one concerned and one that shares its key. A third call adds nothing a second
one cannot do in turn, and the theorems of section 5 remove the bound for every
property but the liveness ones. Reading needs a reader and two writers, so that one matches the filter
and one does not. `LogUseCase_calls` lets a context end only where the use case
looks at it, and in one of the two ways it does not tell apart. Each server run has
one call of its own, whose goroutines share nothing with another call's but the
services, and one elsewhere, which meets it there. Migrations and calls meet in the
table only, so the run takes two small families apart instead of their product (the
migrations, or calls, that a family leaves out are dead from the start). Two runs of
the migration are one that dies over the schema and one that waits for the lock or
comes later; a map needs two first calls to be filled twice and a third to find what
they left. A buffer of one or two messages fills, drains and is lost;
two index attempts make a duplicate. The server runs keep one attempt and a
buffer of one because their properties are about the goroutines. Two signals are
one for either channel, or one that is missed and one that is not; with two REST
requests one is in flight when another one comes. Liveness
needs one call in the servers: behind the statement maps, whose mutexes are
`StatementCache`'s matter, the calls share no lock, no pool limit is set (`sql.Open` is left at
its defaults), and no server goroutine serves two calls.

*Symmetry* is used where a run has only invariants or action properties over
interchangeable calls, never in a run with liveness.

*Deadlock* is checked in every run. `AtRest`, `GAtRest`, `RAtRest`, `SAtRest`, `MAtRest`
and `CacheAtRest` are the states where everything has come to an end, `LAtRest` one
where the process is gone or serves with nothing to do.

*Fairness.* The specifications with safety only have none, `LogServer` among them. For gRPC (`FairRpc`):
a runnable goroutine runs, a select with a ready case takes one, and the timer
of `context.WithTimeout` fires; these are promises of the Go runtime. Nothing is
asked of the services, and `EveryRpcAnswered` holds all the same. `NoGoroutineLeak`
also needs `FairOutside`: an exchange with PostgreSQL ends (the driver watches
the context, which ends), and the index answers. For REST (`FairRest`) the
request's goroutine runs, the timer fires and exchanges with PostgreSQL end;
`EveryRequestAnswered` needs `FairIndexRest` in addition, and `RestServer_hang`
shows that it does. In Lifecycle a runnable goroutine runs; `ToldEnds` asks nothing
of the requests, nor that `Shutdown` returns. A migration that can go on does
(`Runs`), the server answers the statement in hand and notices who is gone
(`MFairness`); nobody is asked to give up or to be killed, so `EveryMigrationEnds`
holds for a run that waits for the lock. It is stated from the driver on: before it
there is only the reading of the environment. The goroutine of a statement runs, and its exchange
with the database ends (`CacheFairness`): calls carry a context with a deadline.

## 4. Findings

Each is a run whose property states what the repository says, and is violated.

* `RequestValidation_levels`: the API description of `GET /logs` lists the levels
  info, warn and error (`internal/app/handler/rest/log_handler.go:144`);
  `IsValidLogLevel` knows upper-case names only, so each of them is answered 400.
* `GrpcServer_late`: `middleware/grpc/timeout.go:16` says a call not processed
  within the duration gets DeadlineExceeded. A call whose chain ends late leaves
  its result in the channel while the context has ended as well; the select
  takes either case, and the late call may be answered OK or with its own error.
* `RestServer_504`: `middleware/rest/timeout.go:15` says HTTP 504 is returned. By
  the time `onTimeout` runs the handler has committed its response: the status
  line stays what it was and the 504 document is appended to the body.
* `RestServer_hang`: the same sentence promises an answer. While Elasticsearch
  does not answer, `IndexLog` does not return, and neither does the request,
  however long ago its deadline was.
* `Lifecycle_graceful`: `run` logs "Shutting down both servers gracefully"
  (`cmd/main.go:115`) and returns. Nothing stops the gRPC server, and the other
  goroutine's `Shutdown` is not waited for: requests in flight by either interface
  are cut off.

Seen while modelling, and part of the models, without a run of their own: a
hang-up is logged and answered as "gRPC timeout" (`middleware/grpc/timeout.go:54-58`);
`WithTimeout` says it calls `onTimeout` on cancellation too
(`middleware/timeout.go:12`) and returns an error instead; the status logged for an
overdue REST request is 504 although another one was sent; the query parameter
`service` is described as optional (`log_handler.go:143`) and rejected when it is
missing; a client that sends no id and retries stores the entry twice; a signal
that comes when the REST goroutine has asked for signals and `run` has not stops
the REST server only, and the process goes on serving gRPC; the access log chooses its
level by the error, which is nil when a REST handler has written its own 4xx or 5xx,
so these are logged "request completed" at INFO and muted by LOG_LEVEL=WARN;
timeouts of zero and below are accepted (`config/env.go:45-47`); `migrate.go:53`
joins host and port with a colon where `main` uses `net.JoinHostPort`, which differ
for an IPv6 address; `Upsert` leaves its option functions out of the key of
its map, so that a call with options could run the statement of one without (nothing
in the repository passes any); a migration that broke off is refused by every later
run until somebody repairs `schema_migrations` by hand.

## 5. The proofs

For every set of calls, requests and ids, every buffer and attempt bound and any
number of signals:

| module | theorem | statement |
|---|---|---|
| `LogUseCase_proofs` | `Invariance` | `Spec => []IInv` |
| | `TypeCorrect` | `Spec => []TypeOK` |
| | `AckStored` | `Spec => []AckIsStored` |
| | `HeardStored` | `Spec => []HeardIsStored` |
| | `FailedSilent` | `Spec => []FailedIsSilent` |
| | `OncePublished` | `Spec => []PublishedOnce` |
| | `ReadsAll` | `Spec => ReadsAcknowledged` |
| | `PagesFull` | `Spec => PagesAreFull` |
| `LogUseCase_refines` | `Implements` | `Spec => ImplementsContract` |
| `GrpcServer_proofs` | `GrpcDrivesUseCase` | `GSpec => Spec` |
| | `GrpcTypeCorrect` | `GSpec => []GTypeOK` |
| | `OkReal` | `GSpec => []OkIsReal` |
| | `RefusedSilent` | `GSpec => []RefusedIsSilent` |
| | `LoggedAnswered` | `GSpec => []LoggedIsAnswered` |
| | `NobodyInVain` | `GSpec => []NobodyWaitsInVain` |
| `RestServer_proofs` | `RestDrivesUseCase` | `RSpec => Spec` |
| | `RestTypeCorrect` | `RSpec => []RTypeOK` |
| | `OkStored` | `RSpec => []OkIsStored` |
| | `ErrorSilent` | `RSpec => []ErrorIsSilent` |
| | `Accounted` | `RSpec => []ResponseAsLogged` |
| `LogServer_proofs` | `ServesGrpc` | `SSpec => GSpec` |
| | `ServesRest` | `SSpec => RSpec` |
| | `ProcessKeeps` | `SSpec` implies what is proved of the use case and of either server |
| | `KeyAcked` | `SSpec => []KeyAckedOnce` |
| | `ServerImplements` | `SSpec => ClientContract` |
| | `ReadsOwnWrites` | `SSpec => []ReadYourWrites` |
| `Lifecycle_proofs` | `LifecycleTypeCorrect` | `LSpec => []LTypeOK` |
| | `SignalsReachRun` | `LSpec => []SignalReachesRun` |
| | `CutsExplained` | `LSpec => []CutHasCause` |
| | `RestClosed` | `LSpec => RestStaysClosed` |
| `StatementCache_proofs` | `MigrationsAlone` | `CacheSpec => MSpec` |
| | `MigrationTypeCorrect` | `MSpec => []MTypeOK` |
| | `SuccessComplete` | `MSpec => []SuccessIsComplete` |
| | `HoldersGoOn` | `MSpec => []HolderGoesOn` |
| | `OneMigration` | `MSpec => []OneAtATime` |
| | `StaysBroken` | `MSpec => BrokenStaysBroken` |
| | `SchemaKeeps` | `MSpec => KeepsSchemaContract` |
| | `CacheTypeCorrect` | `CacheSpec => []CacheTypeOK` |
| | `RunsOwnStatement` | `CacheSpec => []OwnStatement` |
| | `NeverTorn` | `CacheSpec => []MapNotTorn` |
| | `NoDeadlock` | `CacheSpec => []SomebodyMoves` |
| | `CachedWorked` | `CacheSpec => []CachedIsProven` |
| `RequestInput_proofs` | `Findable` | `InputSpec => []AcceptedEntryIsFindable` |
| | `QueriesInRange` | `InputSpec => []QueryAcceptedIffInRange` |
| | `Agree` | `InputSpec => []InterfacesAgree` |
| | `StartDocumented` | `InputSpec => []ConfigAcceptedIffDocumented` |
| | `FailureWritten` | `InputSpec => []FailureIsWritten` |

**The use case.** None of the safety properties is inductive. `AckIsStored`, for
one, says nothing of a call at `index` whose INSERT was never applied, and such a
call returns "ok". `IInv` adds:

* `KindInv`: a call stands at a place its request leads to, and only SendLog has
  an INSERT;
* `RowInv`: a call has its row exactly when its INSERT was applied;
* `KeyInv`: rows with one key are one row, and every key is a uuid;
* `StepInv`: a call past `await` has an applied INSERT, a call has a result
  exactly when it has returned, and one before the exchange has no INSERT;
* `ResultInv`: a query answered "ok" has a page, and only a query finds no logs;
* `HeardInv`: what NATS or the index heard of is an applied call at `index` or
  beyond that did not fail, and no document exists without a request for it;
* `OnceInv`: a call is in `bus` or `buf` at most once, and not in both.

Each part has a lemma of its own (`TypeStep`, `KindStep`, `RowStep`, `StepStep`,
`ResultStep`, `HeardStep`, `OnceStep`) with one step per action; `CarriedStep`
isolates the one way a call comes to be carried, its own `Publish`. Uniqueness
then takes two facts: a call publishes once (`OnceInv`), and calls that publish
under one key have one row, hence are one call (`OneCarrierPerKey`). The
refinement has one lemma per step the contract sees (`StoreMaps`, `FlushMaps`,
`IngestMaps`, `OkMaps`, `ErrorMaps`, `PanicMaps`, `ExitMaps`) and three for the
steps it does not see. `ReadsAll` rests on `WholePage`: the table is finite, so a
page as large as the set of matches is that set; `PagesFull` on `RowPerAcknowledged`:
acknowledged entries have rows of their own, so there are at least as many matches.

**The servers.** `ServerStep` and `RestStep` show that a step of a server is a
step of the use case or leaves it alone. So `GSpec => Spec` and `RSpec => Spec`,
and every theorem above holds behind either server. What the client reads takes
one invariant more per server. For gRPC, `CodeInv` ties the error the chain left
behind to the result of the use case (and an invalid request to a call that never
began), and `PassedInv` says that the channel and the wire carry that error or
tell of the context; `LoggedInv` does the same for the log. `WaitInv` adds to
`NobodyWaitsInVain` that the channel of a call that has not arrived is empty; its
step takes one case per hand-over (error into the channel, `done` closed, context
ended) and needs from the use case that a running call stays running or returns
(`StaysOrReturns`). For REST, `WireInv`
ties the status line to the result, and includes that it is never 504, because
the goroutine gets to `Unwind` only with a response written; `BodyInv` describes
the body and the log of a request: in time they show the status line, late they show
the 504 behind it.

**Lifecycle.** `LInv` takes `SignalReachesRun` and `CutHasCause` together with two
facts more: requests are in flight only with a server that has listened
(`ServedInv`), and a REST server told to shut down is not serving (`ClosedInv`).
`CutHasCause` is not inductive without the first: `run` may return, and cut requests
off, only after it was woken, and it is `SignalReachesRun` that says by what.

**The process.** `GrpcView` and `RestView` show that a step of `LogServer` is, seen
from one server, a step of its own or of a call served elsewhere, so `SSpec`
implements both and inherits their invariants. `ToldMeans` says what an answer
implies of the use case's verdict, by either interface; `KeyAcked` then follows from
the unique keys of `IInv`, and the refinement has one lemma per kind of step, as that
of the use case has. `ReadsOwnWrites` needs `SeenInv`: the row of whatever was
acknowledged when a query came in is there from then on, and in the page once the
query has run. `ProcessKeeps` collects what `SSpec` inherits.

**Migrations and statements.** `MInv` says that whoever works on the schema, or has
left a statement with the server, holds the lock (`Holds`), and what each stage has
found and left behind (`Stage`): only the lock's holder changes the version, so what a
run has read stays true until it is done. All theorems of migrations are about `MSpec`,
which `CacheSpec` implements (`MigrationsAlone`). The refinement of `SchemaContract`
(`SchemaStep`) has one case per step: the statement that marks the version dirty is
`Start`, the one that marks it clean `Complete`, a result is a `Report` (`Reports`),
and a run that fails, dies or loses its session while it holds the schema does an
`Abandon` (`LetsGo`); `MInv` is needed to know that it is its holder who does, and
that nobody works on it otherwise. `CInv` says that who reads or writes a map
is inside its mutex (`LockInv`), that an entry's statement is the one its key asks for
(`EntryInv`, with `KeyTells`: equal keys, equal statements), and that a statement on
its way into a map has succeeded (`ProvenInv`). `NoDeadlock` needs `LockInv` only: whoever
is kept out of a map is kept out by a call inside its mutex, which goes on, or by a
call that waits to write, which is kept out by one inside.

**Requests.** The validators and `NewConfig` are lists of checks of which the first
that fails is reported, so everything rests on the lemma `ReportsTheFirst`, which takes the
well-ordering of the indices (the library's `NatLessThanWellFounded` and `WFMin`)
to know that there is a first. `SendRange`, `QueryRange` and `StartRange` then say
in so many words what each list lets in, and the five properties follow for every
input: all texts, all integers.

*Assumptions*: `IdAssumption` (the absent id is no client's text; a generated id,
for which the call itself stands, differs from every client's uuid),
`RequestAssumption` (a request is a SendLog with an id or none, or a GetLogs whose
limit and offset are integers), `BoundAssumption` (the bounds are naturals;
nothing says they are small), `GrpcAssumption` and `RestAssumption` (a server's
calls are calls), `LifecycleAssumption` and
`InterfaceAssumption` (a request comes in by one interface), `MigratorAssumption` (the
absent holder of the lock is no run), `ArgAssumption` (a call is an insert, an update
or an upsert), `InputAssumption` (numbers are integers and flags are truth values).

The type invariants of all modules but the core's, and `HolderGoesOn`, are in no run:
they are proved for every instance.

*Only model-checked*: liveness, which is beyond the prover: `EveryRpcAnswered`,
`NoGoroutineLeak`, `EveryRequestAnswered`, `ToldEnds`, `EveryMigrationEnds` and
`EveryStatementEnds`. For most of them the safety half is proved: `NobodyWaitsInVain`,
`SignalReachesRun`, `HolderGoesOn` and `SomebodyMoves` say that somebody can always go
on, so that only fairness is left to the model checker. The violation runs' properties
are refuted, not proved.

## 6. What is abstracted and what is left out

A row keeps its key, service, level and maker; message, trace id, timestamp and
metadata are only validated. The text of messages, documents and log lines is
left out. `service` is a single value in the runs, levels are two. A page is any
set of matching rows of the right size, since the query has no ORDER BY.
PostgreSQL, the NATS client and server, Elasticsearch, grpc-go and golang-migrate are
modelled from how the code uses them. Columns are sets: a list's order changes
neither what a statement does nor whether it is the same key.

Not modelled:

* the functions of the models package that keep no state and that nothing in `src/`
  calls (find, one, exists, count, delete, update all, reload), and its hooks, of which
  none is registered;
* the logger's formatting and output; `SetLevel`, which replaces `logger.slog` under
  a mutex the logging methods do not take: a data race for any caller that uses it
  while others log, but nothing outside the tests calls it;
* the text of connection strings;
* the down migration, which nothing runs;
* the echo validator, which no handler calls; `NewESClient` and `ParseTimestamp`,
  which only tests call; the Swagger route and the generated API description; the
  tests' own helpers.

## 7. Plan

Done: the use case and its contract, both servers, startup and shutdown, both
servers in one process, migrations and statement maps, configuration, and the proofs
of section 5. What could be added:

1. **Pagination without an order**: what a client that walks a listing may rely on
   beyond `PagesAreFull`, if the query is ever given an ORDER BY.
2. **Exit of Lifecycle in LogServer**: `SExit` ends both servers at any moment; with
   the places of Lifecycle in it, the answers cut off could be told by their cause.
3. **Proofs about the contracts**: that `LogContract` and `SchemaContract` by
   themselves imply the promises their comments list.
