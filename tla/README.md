# Verification of micromart

TLA+ specifications of the order processing in micromart (paths below are
relative to the repository), the TLC runs that check them on small instances,
and the theorems TLAPS proves about them for every instance.

- `tlc -config X.cfg M` runs a configuration `X` of the MC module `M` (the table
  under *Runs* names the pairs).
- `tlapm M.tla` checks the proofs of a module: `InventoryProofs`,
  `InventoryTxProofs`, `OrderSagaProofs`, `OrderIntakeProofs`, `GatewayProofs`,
  `AnalyticsProofs`, `PaginationProofs`, `PackageProofs` (`Breaker` and `RedisLock`).
- `PROJECT.json` maps every definition to the lines it models, and lists runs,
  mutants, findings, hazards and theorems.

## 1. The system

| component | state | operations | talks to |
| --- | --- | --- | --- |
| gateway (`services/gateway`) | requests in flight | nine routes, REST to gRPC and back, deadlines, shutdown | order and inventory services |
| gRPC servers (`pkg/grpcutil/server.go`, `main.go` of both services) | calls in flight | interceptors, recovery of a panic, GracefulStop | the gateway, each other |
| order intake (`order_server.go`, `order_repository.go`, `pkg/redis/idempotency.go`) | `orders`, `order_items`, Redis keys | CreateOrder, GetOrder, ListOrders | inventory (GetProduct), Redis, the saga |
| saga (`saga.go`, `main.go`) | `saga_state`, `orders.status` | Execute, compensateReserve, fail, Resume at start | inventory (ReserveStock, DecrementStock, ReleaseStock), analytics |
| cancellation (`order_repository.go`) | `orders.status` | CancelOrder | - |
| inventory stock (`stock_repository.go`) | `products.stock_available`, `products.stock_reserved`, `stock_reservations` | ReserveStock, ReleaseStock, DecrementStock, one transaction each | - |
| catalogue (`product_repository.go`) | `products` | CreateProduct, UpdateProduct, GetProduct, ListProducts, SearchProducts | - |
| gRPC client (`pkg/grpcutil`) | breaker counters | retry outside, circuit breaker inside | every call order to inventory |
| analytics (`clickhouse.go`) | channel, batch, ClickHouse table | Publish, consumer, flush, Close | ClickHouse |
| Redis locks (`distributed_locking.go`) | lock keys | Lock, LockWithRetry | called by nobody |

The order service runs as two replicas or more (`deploy/k8s/order-service.yaml`),
each of which runs `Resume` once when it starts.  Requests run concurrently on
all replicas; what they share is the two PostgreSQL databases, Redis and, within
a process, the circuit breaker and the analytics channel.

What is hard here, and what each part must guarantee:

- **Stock.**  Transactions of many orders interleave, repeat and meet rows that
  were already moved.  Never more reserved than there is, and the counters of a
  product always equal what its reservation rows say.
- **Saga.**  Each step is a separate statement or remote call with its own
  failure; calls are retried although the first may have been executed; the
  process may die between any two steps; the request's context may end.  An
  order takes its goods once or not at all; a failed one gives them back; every
  order ends; an outcome once recorded is final.
- **Resume.**  Works from rows that another replica may be writing.
- **Cancellation.**  Writes the same column as the saga, from a read that may be stale.
- **Intake.**  Concurrent requests with one idempotency key, a cache in front.
- **Requests.**  A request passes three processes, each of which may stop, die or
  be slow, over connections that break, and has two deadlines and a client that may
  leave.  What the client is
  told must fit what was done, or will be done later by a call nobody waits for.
- **Breaker and retry.**  Shared by all calls; when it opens, closes and probes.
- **Analytics.**  Bounded channel, batches, drain on shutdown; what is in memory dies
  with the process; ClickHouse, its tables or its view may be missing at the start,
  and an INSERT may fail in part.

Section "hazards" of `PROJECT.json` lists these at the lines where they bite.

## 2. Modules

| module | what it is |
| --- | --- |
| `Inventory` | the stock tables and their transactions, one step each |
| `InventoryTx` | the same transactions statement by statement with row locks, shown to implement `Inventory` |
| `Checkout` | what order and inventory service promise together: an order takes all its goods or none, goods taken are sold or returned, once |
| `OrderSaga` | the saga, Resume, CancelOrder, the retry of calls, crashes and lost messages, composed with `Inventory` (as `Stock`) and shown to implement `Checkout` (as `Goods`) |
| `Promise` | what a service promises the callers of its RPCs: a call does its work once or not at all, duplicates share it, and what a caller is told fits what was done |
| `OrderIntake` | CreateOrder around the saga: idempotency key, cache, lookups, transaction; shown to implement `Promise` (as `Promised`) |
| `Gateway` | an HTTP request through gateway, gRPC and a service that keeps `Promise` (as `Svc`), with deadlines, hang-ups, broken connections, panics, stops and deaths |
| `Breaker` | the gRPC client: retries around the circuit breaker that all calls share |
| `Analytics` | start with or without ClickHouse, channel, batches, materialized view, shutdown |
| `Pagination` | walking the pages of a table that changes |
| `RedisLock` | the lock of `pkg/redis` |
| `MC...` | the instance of a module that TLC checks |
| `...Proofs` | the theorems about a module; `PackageProofs` those about `Breaker` and `RedisLock` |

### Inventory

`available` and `reserved` are the two stock columns, `listed` and `active` the
rows of `products` and their flag.  An order asks for the same items every time
(the saga sends the order's items), and Release and Decrement always move all
RESERVED rows of an order, so the rows one call inserts never part: `rows[o][s]`
counts the batches of order `o` in status `s`.  Items of one order that name a
product twice add up, as the loop of ReserveStock makes them.  Each RPC is one
step with one answer; an error rolls the transaction back and changes nothing.
A `ReserveStock` that has both an unknown product and a short one answers with
whichever item came first: either.  The CHECK constraints of the columns are
guards of Release and Decrement; `Settleable` says they never reject one.

One step per transaction rests on the row locks (`SELECT ... FOR UPDATE`);
`InventoryTx` makes that argument.

### InventoryTx

A call `c` is one RPC with its transaction, `at[c]` the statement it is at.
Nothing a transaction wrote is visible before COMMIT, so `available`, `reserved`
and `row` change in `CommitReserve` and `CommitSettle` only; until then what a
call will change is in `change`, `found` and `moved`.

| code | action |
| --- | --- |
| ReserveStock: per item `SELECT ... FOR UPDATE`, check, UPDATE, INSERT | `ReserveItem` (one step, the row lock is held over the three statements) |
| Release/DecrementStock: `SELECT ... FOR UPDATE` of the reservations | `VisitRow` at `"select"`, then `Selected` |
| UPDATE of the product, per reservation | `SettleRow` |
| UPDATE of the reservations by order and status | `Settled` begins it, `VisitRow` at `"update"` |
| COMMIT, deferred Rollback | `CommitReserve`, `CommitSettle`, `Rollback` |
| PostgreSQL: waiting, deadlock abort | `May`, `AbortDeadlocked` |

This is READ COMMITTED: a statement sees the rows committed when it began, waits
for a row that is locked, and looks again at the row it waited for
(`StillReserved`).  An order may name a product twice, products may be locked in
opposite orders, and an aborted transaction answers Internal.

`TransactionsAreAtomic` says that all this moves the tables as `Inventory` does.
It needs a client that waits for the answer of ReserveStock before it settles
the order.  With `LateReserve = TRUE` it does not wait, which is what a retry
whose first attempt is still under way amounts to: section 3 has what happens then.
`OrderSaga` takes its transactions from `Inventory` and so does not have it.

### OrderSaga

A process is the handler of an order (`o \in Orders`) or a replica of the order
service (`r \in Replicas`).  `pc` is what it does next; each value is one
statement on the order database or one call:

| code | action |
| --- | --- |
| INSERT of CreateOrder, after the product checks | `CreateOrder` |
| `getExistingSaga` + `createSagaState` | `CreateSaga` |
| `updateOrderStatus` RESERVING / PAYING / CONFIRMING / COMPLETED | `Reserving`, `Paying`, `Confirming`, `Completed` |
| `reserveInventory`, `confirmOrder`, `compensateReserve` | the call (`Goto`, `Serve`, `CallFails`, `Retry`), then `Reserved`, `Confirmed`, `Released` |
| `setReservationID` | `SetReservationID` |
| `processPayment` | `ProcessPayment` |
| `completeSaga`, `Publish` | `CompleteSaga`, `Publish` |
| `fail` | `FailSaga`, `FailOrder` |
| start of the process, `Resume`, serving | `Start`, `ResumeNext` (and the shared `Released`, `FailSaga`, `FailOrder`), `BeginServing` |
| `CancelOrder` | `CancelOrder` (the SELECT), `Cancelled` (the UPDATE) |

A call is `"sent"` until `Serve` runs its transaction and leaves a status code
in `call`.  `CallFails` replaces the answer by an error of the transport; the
request may then be a `stray` one that the service executes later, or has been
executed.  `Retry` is the RetryInterceptor: it repeats transient errors, at most
`MaxRetries` times and only while the context lives.  `Crash` kills a replica
with the handlers it runs.  `ContextEnds` ends the context of a handler: the call
it waits for fails, every later statement and call fails at once.  Every status
write whose error the code ignores may be lost (`StatementLost`).

`Budget` bounds how many faults of each kind happen in a behaviour; `MaxBatches`
bounds the reservations of one order.  Both are bounds of the runs, not of the
proofs.

Simplifications: `saga_state.current_step` is written and never read, and is
left out.  `active` products stay active here.  An open circuit breaker shows
as a call that fails with Unavailable.  The stub payment always succeeds; the
runs also let it fail, as the tests of the saga do.  The 30 s of the gateway and
the delays of the retries are not timed: the context may end at any step.

### OrderIntake

A request `r` is one CreateOrder and also names the order it inserts.  `pc` goes
through `Receive`, `GetIdempotencyResult`, `GetProduct` per item, the transaction
of `Repository.CreateOrder` (`SelectByKey`, `Insert`, `Commit`), the saga
(`SagaWorks`, `SagaEnds`: any of the outcomes `OrderSaga` has), `GetOrder` and
`SetIdempotencyResult`.  `open` holds the transactions that have inserted and not
yet ended: the INSERT of another request with the key waits for them (the UNIQUE
index) and fails if they commit.  `Expire` ends the 24 hours of a cache entry,
`CreateProduct` lists products, `UpdateProduct` turns them on and off, `Resumed` and `Cancelled` are what
other processes do to the order.  `Faults` names the kinds of fault that may
happen, each at every step and without bound: Redis, calls, statements (COMMIT
included, before or after it took effect), contexts, crashes.  The checks of the
fields of a request (no customer, no items, quantities) come before all state and
are left out.

### Promise

`done` are the calls whose work is done and `told` is what a handler returned:
the work is done (by this call or a twin, a call with the same key), it is refused, or
it failed, which leaves open whether it was done.  Work happens only while the
caller has not been told, at most once per key; a refusal is never followed by it.
`OrderIntake` maps `done` to the stored orders and `told` to the answers
(`ToldTo`): OK names an order, NotFound and FailedPrecondition refuse, Internal fails
(`DbError`: also when COMMIT took effect and its answer was lost).  The saga does not
show here: an order whose saga failed is an order that was placed.

### Gateway

A request `r` takes one of the nine routes of `Router`; a row says whether the
handler must read a body or needs a parameter, which RPC it calls and how success is
answered, and the row of the RPC which codes its handler refuses with and what
every other error becomes.  `pc[r]` is where the request is in the gateway and
`call[r]` where its RPC is:

| code | action |
| --- | --- |
| net/http and the middlewares | `Receive`, `Flush`, `TimePasses`, `HangUp` |
| a handler: decoding and parameters | `BadRequest` |
| the call, its answer, `grpcToHTTP` | `Call`, `Respond`, `GiveUp`, `HTTPStatus` |
| a service: `Serve`, the handler, the interceptors | `Accept`, `Refuse`, `Work`, `Return`, `Panic` |
| `main` of the gateway: signal, `Shutdown` of ten seconds | `StopGateway`, `ExitGateway`, `StartGateway` |
| `main` of a service: signal, `GracefulStop` | `StopService`, `ExitService` (when `Drained`), `StartService` |
| death of a process | `KillGateway`, `KillService` |
| the connection to a service breaks, `Unavailable` in `grpcToHTTP` | `Disconnected` |

`clock[r]` is the last of the three deadlines that has passed: reading (10 s),
writing (30 s, from the headers), the context (30 s, from the middleware, so
later); `Meets` says which of them a request can still run into.  A written answer leaves with `Flush`, which cuts the connection instead once the
deadline of writes has passed.  A call whose context has ended is given up by the
gateway, while the service goes on with it, `Work` and `Return` included.  So does it
with a call whose connection breaks: the gateway dials without retry
(`grpcutil.Dial`) and answers 503, at any time from the sending of the call to the
arrival of its answer, and nothing bounds how often.  `severed` is a history variable:
the requests that lost their connection in this way, or their service by a kill while
it ran their call; `RestartsLeaveNoDoubt` says that nobody else is answered 503 for
work that was done.  `Svc`
says what a handler may do and answer; `Panic` may happen before or after the work.
The work of a read is to have read.  Only CreateOrder has keys.  Left out: `/health`
and `/metrics`, what the answers hold, and the order service as a client of the
inventory service (`OrderSaga`, `Breaker`).

### Breaker

A caller goes through `Call`, an attempt that the breaker admits (`AdmitClosed`,
`AdmitFirstProbe`, `AdmitProbe`) or rejects (`Reject`), `Answered`, `Record` and,
on a transient error, `Retry` or `GiveUp`.  The counting is that of
`sony/gobreaker`, which is not in the repository: it is modelled as an external
library, from the settings the code gives it and its documented states.  A result
of an earlier generation is ignored; `current` is the set of calls of the present
one.  `Counted` is the code's classification: the interceptor hands every error
to the breaker.  Time is in nanoseconds, because `Timeout: 10` is a
`time.Duration` of ten of them; `Second` scales a second down for the runs.
`foreign` is a history variable: the callers whose call did not cause all the
failures counted.

### Analytics

`Complete`, `Publish`: handlers; `Receive`, `Tick`, `SeesDone`, `Drain`, `Drained`,
`Flush`: the consumer's select loop; `Sigterm`, `Close`, `Exit`: `main`.  `Stopped`
is GracefulStop returning: no handler runs.  ClickHouse is optional: a process
without an address for it, or that cannot ping it, starts with the consumer
`"disabled"`, its sagas publish nothing (`PublishNothing`) and its `main` ends without
`Close`.  Otherwise `CreateTables` gets as far as it gets and the consumer starts all the
same: `schema` says whether `order_events` exists, and with it the view.  The INSERT of
`Flush` is executed (`Inserts`) or logs an error (`InsertFails`) after it was executed
not at all, in full, or in `order_events` or the view alone; the batch is reset in each
case.  The view
`revenue_daily_mv` writes one row per day and insert, and `Merge` adds up rows of a
day, as SummingMergeTree does at a time of its own.  Neither the properties nor
the code depend on the order of events, so channel and batch are sets.  `Kill`
takes what is `InMemory` away; `Start` is the next process, after it or after an
`Exit`.  History variables are `completed`, the orders whose saga has completed; `lost`,
those that a killed process took along or that completed in a process without
analytics; `failed`, those an error in the log is about; and `unviewed`, those inserted
without an error while there was no view.  With them `NoneLostSilently` says where
every completed order is, and `RevenueAgrees` between which sums the revenue of a day
lies: they are equal for a day without failed inserts that began with the view.

### Pagination

Rows are their ids; a page is one SELECT (`NextPage`), between two of which rows
come to match (`Appear`) or cease to (`Disappear`).  ListOrders, ListProducts and
SearchProducts differ in the WHERE clause only.  A client sends back the tokens it
got, and any page size: the gateway cuts the number it parses down to an int32
(`Int32`, `Parsed`), the repository replaces what is out of range (`PageSize`).  `pages`
counts the answers.  Base64 and back is the identity on those.  A token that is not base64 reads
as none (`helper.go:14`), which such a client never meets.

### RedisLock

`Acquire`, `Refused` and `LockFails` are the three ends of `SET NX`; `LockFails`
may leave the key set.  `Release` is the returned function: DEL, whoever holds the
key, its error ignored.  `Expire` may happen at any time, as a TTL of any length
would.  No service calls these functions; the module is about the package as it is.

## 3. Runs

| cfg | module | instance | shows |
| --- | --- | --- | --- |
| `MCInventory` | `MCInventory` | two products, three orders, one of which asks for a product that does not exist; three batches per order | `NoOversell`, `StockLedger`, `Settleable` |
| `StockTransactions` | `MCInventoryTx` | six calls: two reserves, a release and a decrement of one order, a reserve of another that locks in the opposite order, one that must roll back | `TransactionsAreAtomic`, `SettledOnce`, `EveryCallEnds` |
| `SagaNoFaults` | `MCOrderSaga` | one replica, 2 cancellations | `KeepsPromise` (implements `Checkout` with its fairness), `AllOrNothing`, `EveryOrderEnds` |
| `SagaRecovery` | `MCOrderSaga` | one replica, 2 crashes, 1 lost write, 1 ended context | `TakesGoodsOnce` (implements `Checkout!SafeSpec`), `RecordedReservationReturned`, `SagaOutcomeIsFinal`, `NoOrphanSaga`, `EverySagaEnds` |
| `SagaReplicas` | `MCOrderSaga` | two replicas that start at any time, 1 lost call, 1 lost write | `CompletedIsSold`, `NoStockHeldAtRest` |
| `IntakeFaults` | `MCOrderIntake` | a request and its duplicate, every fault at every step | `KeepsPromise` (implements `Promise`), `OneOrderPerKey`, `AnswersAgree`, `EveryRequestAnswered` |
| `GatewayRequests` | `MCGateway` | two requests, an order and its duplicate, or two routes of the other kinds; 1 stop or death of a process, any number of broken connections | `AnswerTellsEffect`, `RestartsLeaveNoDoubt`, `EveryRequestEnds`, `StopsEnd` |
| `BreakerCalls` | `MCBreaker` | two callers that call again and again, three retries, service up or down | `OneCallCannotTrip`, `EveryCallEnds`, `Recovers` |
| `AnalyticsBatches` | `MCAnalytics` | four orders of two days, channel and batch of two; any number of failed inserts, kills and starts with and without ClickHouse | `NoneLostSilently`, `StoredAtMostOnce`, `RevenueAgrees`, `NothingLeftBehind`, `AcceptedIsFlushed`, `ShutdownEnds` |
| `PagesWalk` | `MCPagination` | six rows, page sizes 1 to 3, out of range, no number and too large for an int32 | `NoRowTwice`, `NoneSkipped`, `WalkIsShort` |
| `LockClients` | `MCRedisLock` | four clients, lost answers and releases | `OneHolder` |

`MCInventory`, `SagaNoFaults` and `IntakeFaults` check the type invariant of their
module too.  Those of `Inventory`, `InventoryTx`, `OrderSaga`, `OrderIntake`, `Gateway`, `Breaker` and
`RedisLock` are theorems; the others document the variables and are not listed with the runs.

**Bounds.**  All runs of `MCOrderSaga` use one product with two units, order `oa`
that asks for one and order `ob` that asks for two: they fit one at a time, so
one of them fails, reserves late or never, and a leak or a double sale is visible
at once.  `MaxRetries = 1` (3 in `main.go`): one retry shows what a repeated
request does, more add more of the same batches; `MaxBatches` (3, or 4 with two
replicas) bounds how often ReserveStock is executed for an order.  Two crashes are enough
for a crash of the handler and one of the Resume that follows; one fault of every other kind
separates any two adjacent steps.  In `StockTransactions` order `oa` is reserved
and settled twice, so that two calls meet the rows of each other at every
statement; the second order deadlocks with it.  `IntakeFaults` has no request without a key: it has fewer steps than one that has,
shares nothing with the others, and the theorems of section 4 hold for it.  In
`GatewayRequests` two requests to one service show how it drains; one stop shows what
a stop, a death and a new process do to a request at each of its steps, and the
theorems have any number.  `ProductGet` and `OrderList`, which differ from `OrderGet` and
`ProductSearch` in the service alone, are left to the theorems.  The breaker has the settings of the
code (three probes, five failures, three retries); `Second = 2` makes ten
seconds 20 ns, which only has to be more than the ten of `Timeout`.  `Analytics`
scales the channel of 1000 and the batch of 100 down to two; four events fill a
channel, a batch and leave a remainder.  `Pagination` uses default 2 and
maximum 3 for 20 and 100, and a word of 16 for 2^32: six rows are two full pages and more.  The theorems of section 4
have none of these bounds.

**Deadlock.**  `SagaNoFaults`, `SagaRecovery`, `SagaReplicas`, `StockTransactions` and
`GatewayRequests` do not check for it: once every order is handled, every call or request
answered, the system rests.  That it does not rest
earlier is what their liveness properties say.  The other systems never stop.

**Fairness.**

- `OrderSaga`: a handler and a resuming replica go on to their next step, the
  inventory service answers requests, a replica that is down is started again
  (Kubernetes restarts it).  Nothing makes a client act, a fault happen or a
  cancellation finish.  `EveryOrderEnds` is checked without crashes only: a crash
  between the INSERT of the order and that of its saga leaves a PENDING order
  nobody looks at again.
- `InventoryTx`: a call that was sent goes on when it is not waiting for a lock;
  PostgreSQL resolves deadlocks.
- `OrderIntake`: a handler goes on, and its saga returns (`EverySagaEnds`).
- `Gateway`: time passes, the gateway's handlers go on, a handler of a service whose
  context has ended returns (canceled, with its connection gone, or at the deadline that
  came with the call), `main` goes on after GracefulStop.  Nothing else makes a
  service answer: a handler may run until its caller gives up, a service may stay down.
- `Breaker`: gRPC answers or fails a call, delays end, time passes.  `Recovers`
  also needs requests that keep coming (`BusySpec`) and a service that answers
  them without error: a NotFound counts as a failure of the service.
- `Analytics`: handlers return, the ticker ticks, an INSERT ends within its ten
  seconds, `main` goes on.  Nothing makes SIGTERM arrive.

### What the code does not keep

One run ends in a violation; `findings` in `PROJECT.json` quotes what says otherwise.

| cfg | violated | behaviour |
| --- | --- | --- |
| `LostReply` | `SoldAtMostOnce` | the reply of ReserveStock is lost, the retry reserves again, Decrement takes both batches |

Every module ends with the promises of documents, comments and tests that its
code does not keep.  To see one of the following violated, add it to the
configuration named, as INVARIANT or, if it begins with `[][`, as PROPERTY;
`SPECIFICATION Spec` is enough.

| definition | cfg | behaviour |
| --- | --- | --- |
| `FailedHoldsNothing` | `SagaRecovery` | crash between ReserveStock and `setReservationID`: Resume releases nothing (`saga.go:187`) |
| `FailedSellsNothing` | `SagaRecovery` | crash after DecrementStock: Resume fails an order whose goods are sold (`saga.go:190`) |
| `ReturnsCompensated` | `SagaRecovery` | the compensating call uses the context that ended (`saga.go:135`) |
| `ResumesOnlyInterrupted` | `SagaReplicas` | Resume selects every IN_PROGRESS saga and fails those that run on the other replica (`saga.go:180`); "Resume any interrupted sagas from previous crash" (`main.go:118` of the order service), which Kubernetes runs twice |
| `CancelsOnlyCancellable` | `SagaNoFaults` | the order moves on between CancelOrder's SELECT and its UPDATE, which does not look at the status (`order_repository.go:182`) |
| `ReservedTracksRows` | `StockTransactions` with `LateReserve = TRUE` | the last UPDATE of Release or Decrement also moves the rows a repeated ReserveStock committed after the SELECT, and the counter keeps them (`stock_repository.go:147`); the test says "`stock_reserved` tracks what's reserved" (`stock_server_concurrent_test.go:199`) |
| `DuplicatesAnswered` | `IntakeFaults` with `Faults = {}` | the INSERT of a concurrent duplicate violates UNIQUE and is answered Internal (`order_repository.go:70`); "Duplicate requests return the original order" (`README.md:167`) |
| `RefusedHasNoOrder` | `IntakeFaults` with `Faults = {}` | a duplicate that comes after its product was deactivated, and finds no cache entry, is refused at the lookup (`order_server.go:55`), which precedes the SELECT by key; "Duplicate requests return the original order" (`README.md:167`) |
| `TimeoutsAreAnswered` | `GatewayRequests` | `WriteTimeout` (`main.go:103` of the gateway) starts before `middleware.Timeout` (`:73`) and is as long: the 504 of the table in `helper.go:47` is written when the connection takes no more |
| `CancelRefusalsAreClean` | `GatewayRequests` | the SELECT of the items fails after the UPDATE has committed (`order_repository.go:194`), which CancelOrder answers as FailedPrecondition (`order_server.go:183`): a cancellation that happened is a 422 |
| `TripsOnTransientOnly` | `BreakerCalls` | five NotFound in a row open the breaker (`circuit_breaker.go:33`), although they "should not trip the circuit breaker" (`:32`, `README.md:171`) |
| `FailsFastForTenSeconds` | `BreakerCalls` | `Timeout: 10` is ten nanoseconds (`circuit_breaker.go:67`, commented as "10 seconds in open state") |
| `RetriesStopWhenOpen` | `BreakerCalls` | the Unavailable of the open breaker is retried (`retry.go:33`); "retries stop when circuit opens" (`README.md:173`) |
| `RevenueIsExact` | `AnalyticsBatches` | the process goes on after CreateTables failed (`main.go:87` of the order service), so that `order_events` has orders from before the view; and an INSERT whose error is logged (`clickhouse.go:183`) may have reached only one of the two: `revenue_daily` is not the sum over `order_events` then |
| `AverageIsAverage` | `AnalyticsBatches` | a merge adds up `avg_order_value` (`clickhouse.go:95`) |
| `HeldUntilTTL` | `LockClients` | a client whose TTL is over deletes the key of the next (`distributed_locking.go:32`) |
| `RefusedRetries` | `LockClients` | a refused `SET NX` is the error `redis.Nil`, never `ErrLockNotAcquired`, so nothing is retried (`distributed_locking.go:23`, `:45`; the comment at `:38` says "retrying with backoff") |

## 4. Proofs

Each theorem holds for every value of the constants that the ASSUME of its module
allows: any sets of products, orders, replicas, requests, events, rows or
clients, any demand, bound and budget of faults.  Five kinds of hypothesis occur
beside that, always in the statement:

| hypothesis | where | why the code justifies it, or what happens without it |
| --- | --- | --- |
| `IsFiniteSet(Orders)`, `IsFiniteSet(Calls)` | sums and counts | at any time there are finitely many |
| `SingleReplica` | `OutcomesAreFinal`, `RestartsLeaveNoOrphan`, `RecordedIsReturned`, `SagasAreAtomic` | as the run that checks the property; with two, Resume fails sagas that run on the other replica (`ResumesOnlyInterrupted`, section 3) |
| `Budget["call"] = 0` | `GoodsTakenOnce`, `RecordedIsReturned` | no answer of a call is lost; the run `LostReply` shows that goods are taken twice otherwise |
| `~ LateReserve` | `AtomicTransactions`, `TablesAgree` | no ReserveStock is under way while its order is settled; with it the two tables part (`ReservedTracksRows`, section 3) |
| fewer attempts than failures | `TripsTakeTwo` | three retries (`main.go`) are four attempts, and five failures trip the breaker |

Every invariant and every action property of the runs is a theorem, and the
refinements of `Inventory`, of the safety part of `Checkout` and of `Promise` are.

**`InventoryProofs`.**  `StockTyped` and `NeverOversells`: `TypeOK` and
`NoOversell`.  `NoOversell` is not inductive in the code's own terms: a product
created after a reservation would start with its initial stock.  `Unlisted` adds
that a product not yet created has nothing reserved; the CHECK
guards carry Release and Decrement.  `LedgerAgrees` (`StockLedger`): a step changes the rows of one order,
so the sum over the orders changes by what that order's term does
(`SumChangeAt`), and `stock_reserved` by the same quantity.  It needs `RowsListed`: an
order that has rows asks for listed products only.  `AlwaysSettleable` (`Settleable`)
follows: what one order holds is a term of the sum (`SumOfNats`), and `NoOversell`
bounds the sum by `stock_available`.

The lemmas about sums are here too and serve three modules.  `SumFunctionOnSet` is
a fold, so each of them is an induction over a finite set: by contradiction, with
a smallest set for which the claim fails, which `WFMin` gives, as strict inclusion of
finite sets is well-founded.  From the fold being the only function
that sums (`SummingUnique`, `SummingExists`) comes `SumUnfolds`, and from that how
sums change, split (`SumUnion`) and survive a renaming (`SumRenamed`).
`AnalyticsProofs` and `InventoryTxProofs` cite them through an instance of this
module with no products and no orders (`Sums`).

**`InventoryTxProofs`.**  `TxTyped`: the types.  `SettlesOnce` (`SettledOnce`) holds
with and without `LateReserve`.  The invariant `LockInv` says that a row
found or moved is RESERVED and one call's (`RowLocks`), and that the last UPDATE
moves reservations as a whole (`Sight`): it begins after those that inserted
them committed.  Each OK then takes at least one reservation away from those that others can settle
(`OneEach`).

`AtomicTransactions` (`TransactionsAreAtomic`): only the two commits change the
tables, and each is the one-step transaction of `Inventory` (`CommitReserveMaps`,
`CommitSettleMaps`).  For this `AtomicInv` has to know at a commit what the statements before it did:
what a call will change is the sum of the items or rows it has visited
(`Counts`) and was visible to it in full (`Sees`); no other call can change those
products (`Owns`) or insert rows of that order (`Apart`); the result is within the CHECK constraints
(`Covers`, `InStock`); and the rows of one reservation have one status (`Uniform`), so that a batch of
`Inventory` is well defined.  A ReserveStock sums over positions and
`Inventory` over products, which `SumRenamed` and `SumUnion` bring together.
`TablesAgree` (`ReservedTracksRows`) is then `LedgerAgrees` carried over by the refinement.

**`OrderSagaProofs`.**  `UsesStockRPCs`: every step of the composed system is a
step of `Inventory` or leaves its tables alone.  From it `SagaNeverOversells`
follows by the theorem above.  `SagaTyped`: `TypeOK` of the composed system.
`CompletedOrdersAreSold`: `CompletedIsSold`.  The inductive invariant
`ConfirmedSold` adds what the control state knows: a handler whose
DecrementStock answered OK, or which is past it, has DECREMENTED rows; no step
ever takes such rows away, and only such a handler writes COMPLETED.

The theorems after that look at a step in one form: a process goes along an edge
of its control flow, with what it writes to its saga, its order and its list
(`Moves`), or a call, a fault or a cancellation happens; each action is put in that form once.  Faults are counted down
(`BudgetBound`), so "no call was ever lost" is a fact about the state.

- `RestHoldsNothing` (`NoStockHeldAtRest`), any number of replicas.  `HeldIsHandled`: RESERVED rows
  have a handler that is between the OK of its ReserveStock and the answer of
  the call that settles them.
- `GoodsTakenOnce` (`TakesGoodsOnce`), any number of replicas, crashes, lost writes and ended contexts.
  `ReservesOnce`: an order that has rows, or a request
  to reserve that may still be executed, has a handler that will not send another, so there is one batch at
  most; each step maps to one of `Checkout`.
- `OutcomesAreFinal` (`SagaOutcomeIsFinal`) by `OneAtATime`: no handler works
  while its replica is not serving, a handler past `createSaga` has its saga in
  progress, and what Resume has on its list or in its hands is in progress too.
- `RestartsLeaveNoOrphan` (`NoOrphanSaga`) by `AllAttended`: a saga in progress
  has a working handler, or the replica is down, or has it on its list or in its hands.
- `RecordedIsReturned` (`RecordedReservationReturned`) by `Recorded`: a process
  that is about to fail a saga has cleared it, and a request to reserve that may
  still be executed belongs to a handler that will not record it.
- `SagasAreAtomic` (`AllOrNothing`) by `Ledger`: what the tables say of the
  order at each step of its handler.  As the runs that check it have no faults, it says so in
  its conclusion instead of its hypothesis: until one of the faults happens.

**`OrderIntakeProofs`.**  `IntakeTyped`, `KeysAreUnique` (`OneOrderPerKey`) and
`OneAnswerPerKey` (`AnswersAgree`), for any number of requests.  At most one
order with a key is committed or in an open transaction: `Insert` waits for the
open one and fails on the committed one.  What a cache entry or an answer names is an order that
is stored under the key, so two of them are the same.  `IntakeKeepsPromise`
(`KeepsPromise`): every step is one of `Promise` or a stutter.  Only `Commit`
places an order (`NextPlaced`), as `Do` or, when its answer is lost, as `Fail`; each
way to an answer is a step of its own kind (`ConfirmStep`, `RollbackStep`).

**`GatewayProofs`.**  `GatewayTyped` (`TypeOK`), `AnswersTellEffect`
(`AnswerTellsEffect`) and `StopsLeaveNoDoubt` (`RestartsLeaveNoDoubt`), for any
requests, routes, keys and number of stops.  `IInv` ties the three stages of a
request together: what a call was told fits its code (`CallFits`), and the status
its code (`StatusFits`).  It is needed because the status may be written long before the call ends:
the gateway's own codes are then the only ones, 500 and 504, and the 503 of a broken
connection, whose request is in `severed`.

**`AnalyticsProofs`.**  `InsertedOnce` (`StoredAtMostOnce`), `ExitIsClean`
(`NothingLeftBehind`) and `LossesAreKnown` (`NoneLostSilently`).  An event is in one place at a time, handler, channel,
batch or table (`InOnePlace`), so that an insert finds a count of zero; and once
`main` waits for the consumer no handler runs and nothing enters the channel,
which the consumer leaves empty (`Shutdown`).  `RevenueIsSum` (`RevenueAgrees`): an order
is in at most one row of the view, in one of its day, and one of `order_events` is in none only if its
insert logged an error or went before the view (`Booked`), so an insert and a merge
leave the sum over rows equal to the sum over the orders they show (`Tallied`); the two
bounds follow, as sums of naturals grow with their sets (`TotalOfGrows`).  That finitely many
orders have completed is part of the invariant and no hypothesis.

**`PaginationProofs`.**  `WalksOnce` (`NoRowTwice`) and `WalkIsComplete`
(`NoneSkipped`).  Everything returned is at or behind the cursor
(`BehindCursor`), and every row behind it that matched all the time is returned
(`Complete`); the lemmas `FirstIsPrefix` and `LastPageIsAll` say what LIMIT cuts off.
`WalksAreShort` (`WalkIsShort`): every page but the last moves the cursor past at least one
more id, whatever size was asked for (`Short`).

**`PackageProofs`.**  The two packages with a state of their own; the breaker is the instance `CB`,
and the ASSUME of `Breaker` a hypothesis (`CB!BreakerConstants`).  Breaker: `BreakerTyped` (`TypeOK`) and
`TripsTakeTwo` (`OneCallCannotTrip`), for any callers.  `OwnFailures`: a call that may have caused
all the failures counted has ended as many attempts as that, and `tries` bounds
those.  Lock: `LockTyped` (`TypeOK`) and `LockExcludes` (`OneHolder`): while no
TTL ended in the hands of its client, whoever holds the lock is who set the key
(`HoldersKey`).

**What stays with TLC.**  Liveness, which needs fairness and ENABLED:
`EveryOrderEnds`, `EverySagaEnds`, `EveryCallEnds`, `EveryRequestAnswered`,
`EveryRequestEnds`, `StopsEnd`, `Recovers`, `AcceptedIsFlushed`, `ShutdownEnds`,
and the fairness of `Checkout` in `KeepsPromise` of `OrderSaga`, whose
safety part is `GoodsTakenOnce`.

## 5. Not modelled, and next

Not modelled: metrics, tracing, logging and health checks, which no decision
depends on; formats and fields of requests and responses; the generated gRPC code;
that a malformed id is an error of PostgreSQL and not an unknown id.
`components` in `PROJECT.json` lists them.

Next, in this order:

1. The hypotheses made weaker where the code allows it: `OutcomesAreFinal` and
   `RecordedIsReturned` for several replicas as long as only one starts at a
   time and no handler runs then, `GoodsTakenOnce` for lost calls to Release and
   Decrement.
2. What `OrderSaga` shows of a lost reply as a bound: no more batches of an order
   than attempts of ReserveStock.
3. `InventoryTx` under `OrderSaga`, so that requests that arrive late overlap the
   transactions that settle their order.
