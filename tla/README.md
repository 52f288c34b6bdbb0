# edge-logs in TLA+

Specifications, model checks and proofs for the edge-logs API server (`src/pkg`).
The server answers log queries from a
ClickHouse table that OpenTelemetry collectors fill, and enriches log rows with
metadata of the Kubernetes pods that wrote them.

Every definition is translated from the source; `PROJECT.json` names the lines
of each (`map`), the runs, the deliberate faults that each property is tested
with (`mutants`), and the places where the code is hard to test (`hazards`).

## 1. The system

| Component | State it keeps | Operations | What makes it correct |
|---|---|---|---|
| Metadata enrichment (`service/enrichment/metadata_service.go`, `cache.go`, `metrics.go`) | the pod cache, counters, the informer's queue | `EnrichLogs`, the informer's add/update/delete handlers, `cleanup`, `Shutdown` | each pod of a call is answered once, with a state the pod had; what the cache holds follows the cluster; counters add up |
| Log query path (`oapis/log/v1alpha1/handler.go`, `service/query`, `repository/clickhouse/repository.go` and its builders) | one request at a time per goroutine; the table | `queryLogs`, `QueryLogsByDataset`, `QueryLogs` | a page holds only what was asked for; `has_more` is right; a client that pages through a result gets it completely and without repetition |
| Query statistics (`repository/clickhouse/metrics.go`) | `query_stats`, the insert goroutines | `Finish`, `RecordQueryMetrics` | the records add up to what was returned |
| SQL builders (`query_builder.go`, `time_queries.go`, `k8s_queries.go`, `k8s_filter_builder.go`, `content_search_queries.go`, `aggregation_queries.go`, `optimized_query_builder.go`) | conditions and arguments of the query being built | `AddCondition`, `Build`, `Reset`, one `Build...Query` and one `Build...CountQuery` per route | each placeholder gets the argument meant for it; total and page ask for the same; nothing outside of the parameters is returned |
| Enrichment optimizer (`service/enrichment/optimization.go`) | the limiter channel, the configuration | `OptimizeEnrichment` and its three strategies, `UpdateConfig` | the answer is that of the calls it made; no more calls at once than configured; it returns |
| Connection pool manager (`optimization/connection_pool.go`) | health, configuration, the check goroutine, its cancel function and its done channel | `performHealthCheck`, `UpdateConfig`, `Warmup`, `Close`, `GetOptimalPoolSize` | one check goroutine, with the configured interval, which `Close` waits for; health follows the server; callers return |
| Connection manager (`repository/clickhouse/connection.go`) | `db`, `conn` | `HealthCheck`, `ReconnectIfNeeded`, `Close`, `GetDB` | no connection is leaked; a reconnect that succeeds leaves open ones; they come back with the server |
| Content search and filter parsing (`content_search_validator.go`, `k8s_validator.go`, the parameter parsing of `handler.go`) | none | parsing of expressions and of lists of patterns | the filters mean what the expression says |
| Aggregation (`aggregation_*.go`) | none | validation, one query | the rows grouped are those the parameters name |
| Dataset queries, query optimizer, pagination manager | none | one query each; arithmetic nobody calls | |
| Metrics exporters (`metrics/`, `oapis/.../*_metrics.go`) | counters | | nothing reads them back |
| API server (`apiserver/`) | the HTTP server | `Start`, `Stop`, the legacy route `/api/v1alpha1/logs/query` on the table `otel_logs` | the legacy route's rows are those the parameters name |
| Web client (`frontend/src/services`) | history in localStorage, a cache of suggestions | `addToHistory`, `fetchWithCache`, `fetchWithRetry` | the newest entries survive; an answer is that of its key; a request ends |

How they interact. The HTTP server runs a goroutine per request. `queryLogs`
parses it, `QueryLogsByDataset` validates it again and fills in defaults,
`QueryLogs` of the repository validates it once more, chooses one of three
builders, and runs a count and a page query on the shared `sql.DB`. Two
goroutines per call then insert into `query_stats`. If the request asks for it
and an enrichment service is configured, `EnrichLogs` looks up the pods of the
page: in the cache, then in the Kubernetes API. A shared informer and a janitor
goroutine write the same cache.

Hard behaviours: interleavings of enrichment calls with the informer and the
janitor; a lost watch; partly failing API calls; a table that changes between
two queries of one request and between two requests of one client; times that
are checked against a moving clock and then rounded; goroutines nobody waits
for; channels, goroutines and connections replaced under those who use them;
argument lists that nothing but their order ties to the placeholders; search
expressions flattened into lists of filters. `PROJECT.json` lists them one
by one.

Facts about the code that the models take into account or that a reader should
know:

- `apiserver.New` passes no enrichment service (`apiserver.go:90`), and the
  repository does not fill the attributes that hold a row's pod UID, so that
  enrichment is reached only by a server that is wired differently. The service
  is modelled as it is written.
- Which field selectors the API server supports for pods is outside this
  repository. `FetchFound` models the answer `fetchBatchMetadata` is written
  for, `FetchError` a refusal.
- The Kubernetes and content builders leave `time.Time` to the database driver;
  its precision is the constant `DriverGrain`.

## 2. Modules

| Module | What it is |
|---|---|
| `MetadataEnrichment` | the cache, `EnrichLogs`, informer handlers, janitor, `Shutdown` |
| `EnrichmentPromise` | what a query may expect of enrichment: one answer, at one moment |
| `MCMetadataEnrichment` | constants for TLC |
| `MetadataEnrichmentProofs` | types; the informer's half of the cache; what a call answers and how it counts; `MetadataEnrichment` implements `EnrichmentPromise` |
| `LogQuery` | a request from handler to answer, page walks, query statistics |
| `MCLogQuery` | constants for TLC |
| `LogQueryProofs` | types; the three validations; `has_more`; what is on a page; the statistics; what a client that pages through a result reads |
| `SumsAndLists` | for the proofs: sums of numbers kept by number, lists that are joined, and where the elements of joined lists come from |
| `QuerySyntax` | what the handler, the service and the validators make of the text of a request; how a formula is written as such a text |
| `QueryBuilders` | the WHERE clauses and argument lists of the SQL builders |
| `QuerySql` | the three routes from a request to the rows it gets, over the two modules above |
| `MCQuerySql` | rows, patterns and families of requests for TLC |
| `QueryBuilderProofs` | what each parser and builder makes: the filters of an expression, the placeholders and their arguments, the rows that meet the conditions |
| `QuerySqlProofs` | types; arguments; the total; no row outside of the parameters or of the search, and none of them missing |
| `ConnectionPool` | the pool manager: check goroutines, `UpdateConfig`, `Warmup`, `Close` |
| `MCConnectionPool` | constants for TLC |
| `ConnectionPoolProofs` | types; one checker; an orderly close; the pool sizes |
| `ConnectionManager` | `ReconnectIfNeeded`, `Close` and queries without a lock |
| `MCConnectionManager` | the module TLC runs |
| `ConnectionManagerProofs` | types; no leaks; what nil means |
| `EnrichmentOptimizer` | `OptimizeEnrichment` and its strategies, the limiter, `UpdateConfig` |
| `MCEnrichmentOptimizer` | constants for TLC |
| `EnrichmentOptimizerProofs` | types; the limit on concurrent calls |

### MetadataEnrichment

A pod's metadata is the number of the pod state it was copied from. The cluster
(`PodCreate`, `PodUpdate`, `PodDelete`, `StartTimeAges`) and client-go's
informer (`Observe`, `WatchBreaks`, `Relist`) are external. Everything else is
code: the handlers `OnStore`, `OnDelete`, `OnTombstone` (the type assertion that
drops a `DeletedFinalStateUnknown`), the janitor `Cleanup`, which goes by the
age of the *pod* (`cache.go:87-92`), and `EnrichLogs`, whose loops are cut where
the cache's lock is released: each `Get` (`Hit`, `Miss`), each List (`FetchFound`,
`FetchMissing`, `FetchError`), each `Set` (`Publish`), and `RecordEnrichment`.
The handlers run one notification at a time, in a queue per pod, because a
handler touches only the entry of the pod it is told about.

`EnrichmentPromise` has no cache and no loops: a call asks, and `Reply` gives it
an answer that is `Legal` at that moment. `KeepsPromise` is the refinement.

### LogQuery

A request goes through the phases `parsed` (handler), `prepared` (service),
`counted` and `fetched` (repository), `answered`. `TimeRangeOK` is evaluated
against the clock of that moment in the handler (`Receive`) and again in the
service (`Prepare`, `Refuse`). `Count` and `Fetch` are the two queries, with the
table changing between them by `Ingest` and `Expire`. `Sorted` is the set of
orders the database may return: rows that tie come in any order. `AsFloat` is
what `AddTimeCondition` does to a bound: it is rounded twice, to a float of
nanoseconds (`NanoGrain`, 256 ns in this decade) and to one of seconds (`SecondGrain`,
238 ns), together by up to half of both, some 247 ns (`Within`).
`Ask` and `NextPage` are a client that follows `has_more`. `Finish` starts the
insert goroutines, `RecordStat` ends one of them.

The conditions that do not depend on time (`match` of a request) are a set of
rows; the parameters that a check may refuse are a `form`.

### EnrichmentOptimizer

It sits above `MetadataEnrichment`: each goroutine of a call asks `EnrichLogs`,
whose answer comes at one moment, as `EnrichmentPromise` states. Here that
answer is the set of pods found, any subset of those asked for.

`OptimizeEnrichment` (with `processCacheHit`), `AskBatching` and `AskSize` are
the reads of `eo.config` that choose a strategy, `Split` the one that splits;
none of them takes the lock, so that `UpdateConfig` may come in between, and its
two assignments (`UpdateConfig`, `ReplaceLimiter`) may be seen one at a time.
A channel is its capacity (`limits`) and the number of its elements (`slots`).
A goroutine of the parallel path reads `eo.parallelLimiter` (`Queue`), sends to
the channel it read (`Admit`), calls, reads the field again (`ParallelCall`) and
receives from whatever channel that is now (`Release`). `Spin` is `createBatches`
with a batch size of zero.

`UpdateConfig`'s caller gives limits of at least one: with zero nobody would
ever be admitted, and a negative one panics.

### QuerySyntax, QueryBuilders, QuerySql

`LogQuery` keeps a request's conditions as a set of rows; these modules say how
that set comes about. `QuerySyntax` has the parsers, as operators: lists of
namespaces and pods (`parseK8sParameters`, `parseNamespaceInput`,
`ParseK8sFilters`), the five kinds of search expressions, and the validation of
aggregations, each with its limits and its complexity. Texts are tokens: a name
pattern is looked up in `Entries`, which tells what its characters are; a search
expression is the list that `strings.Fields` or the quotes make of it. Operators of
a boolean expression count in any case (`ToUpper`). Those of a list of phrases are
looked for in the whole text, `OperatorsBefore` a phrase and `InsideOf` it.
An expression that somebody wrote from a formula is the text of that formula
(`IsWritten`): a sum of clauses (`SumTokens`, `Written`) or a product of sums
in parentheses that stand alone or stick to a word (`ProductTokens`). Other
expressions have the form "none": of them no property says what they mean.

`QueryBuilders` has the builders. A query is a list of clauses, each a
disjunction of placeholders, and *a list of arguments of its own*: as in the
code, nothing but the order of two appends ties them. `Overwritten` is
`Reset`, which keeps the array that the main query's arguments are a slice of.

`QuerySql` runs a request of one of three routes through parsing (`ParseRequest`,
`RefuseRequest`, also of a data set without a name, `ValidateAggregation`), building
(`BuildMainQuery`, `BuildCountQuery`, `BuildAggregationQuery`, `BuildLegacyCount`,
`BuildLegacyMain`) and the database (`CountRows`, `FetchRows`), which is external: it
binds arguments by position *when it runs*, and fails on a column the table does not
have or an argument that is missing. A pattern matches what `Matching` says; a phrase is
found between word boundaries (`phrases` of a row, as against `words`); on the legacy
route a text is a LIKE pattern, which `_` and `%` make wider (`Liked`). The times of a
statement are those that `AddTimeCondition` or the driver makes of the request's
(`FloatTime`, `DriverTime`), and a row at the edge of the range may come or go (`Near`).
A row that cannot be scanned (`Unreadable`) ends the logs route in an error
(`Unscanned`), and is left out by the legacy route (`Skipped`), whose count has it. The
meaning of a request is stated apart from all this: `LogsScope`, `AggregationScope` and
`LegacyScope` for the parameters, `Meant` for a search, from the formula it was written
from and not from its filters.

The assumptions on the constants. `LimitsAssumption`: the limits are numbers.
`UpperAssumption`: the operators are in upper case themselves. `RequestsAssumption`: a
request has the shape its route's handler gives it (`IsRequest`, `IsSearch`), with texts
that are not restricted. `QueryAssumption`: the table is finite, the default times are
times, the database knows what a pattern matches. `TimesAssumption`: no time stamp is
the empty text of a parameter that is not given. `RoundingAssumption`: what becomes of a
time has the same times before and after it as the time itself, but for those near it.
`MeaningAssumption`: what a valid pattern without a star finds is what it means. A
pattern with a star need not: LIKE makes any character of an underscore, so that `web_*`
finds `web-1` (`Loose`; the instance has one). `FindingAssumption`: a valid pattern finds
what it means; an exact one is its own text, unless it ignores case.
`PhrasesAssumption`: a phrase between word boundaries is there at all.
`WordsAssumption`: a row that contains `(disk` contains `disk`. `SpellingAssumption`:
the names of a row are texts.

### ConnectionPool

`checkers` is the list of goroutines that `startHealthCheck` ever started, each with the
interval it read (`NewTicker`, without the lock), its context's cancellation and how far
it is: waiting for a tick, pinging with a connection of the pool (`PingStarts`,
`PingRefused`, `PingEnds`), recording under the lock (`Record`), or ended
(`CheckerEnds`, whose deferred `close` of the one `healthCheckDone` panics the second
time: `crashed`). `UpdateConfig` is cut into `ApplyConfig`, `KeepChecker` or
`StopChecker`, and `StartChecker`, all under the lock; `Close` takes none
(`CancelCheck`, `SeeDone` or `StopWaiting`, `CloseDB`). `Warmup` holds what it gets
until it has asked for all of them (`Obtain`, `Miss`, `GiveBack`) or its context is over
(`Expire`). It is called with a context that has a deadline ("asking") or with one that
need never end ("patient"). `sql.DB` and the server are external: the limit on open
connections, waiting, closing.

### ConnectionManager

A handle is a pair of a `sql.DB` and a native connection that one `NewConnectionManager`
made. `ReconnectIfNeeded` is cut at each ping, each close and each assignment
(`CheckConn`, `CheckDb`, `CloseDb`, `CloseConn`, `Open`, `PingConn`, `PingDb`, `GiveUp`,
`StoreDb`, `StoreConn`), since it takes no lock; `Close` shares two of the steps. A
check fails when the server does not answer, when the connection is closed, or when the
caller's own context is over (`ContextEnds`, `over`): `HealthCheck` does not tell these
apart, so that a caller that has gone makes `ReconnectIfNeeded` close healthy
connections. The pings of `NewConnectionManager` have contexts of their own. A query
holds the pool that `GetDB` gave it. `alone` is a history variable: no two calls that
change the manager have overlapped. The program calls `ReconnectIfNeeded` nowhere yet.

## 3. Runs

| Run | Configuration | Result |
|---|---|---|
| `enrichment` | two pods, two interchangeable calls, states up to 2, no informer | passes, 2.0 M states |
| `enrichment_informer` | one pod, two calls, informer, one loss of the watch, fairness | passes |
| `enrichment_invalidation` | one pod, one call, informer, fairness | violation: a late `Set` after the informer's delete |
| `log_query_walks` | one client, twelve requests, four rows, clock to 3 | passes, 175 k states |
| `log_query_stats` | one client, three requests, recorder on, three calls, fairness | passes, 92 k states |
| `optimizer` | two calls, three configurations, one update, fairness | passes, 176 k states |
| `optimizer_returns` | one call of two pods, one update, fairness | violation: a release that waits for ever |
| `optimizer_answers` | one call of two pods | violation: the parallel path answers nothing |
| `connection_pool` | one update, one close, a warmup of two with a deadline or without, pools of two and of one, fairness | passes, 81 k states |
| `connection_manager` | two reconnecters with contexts that end, a close, a query, three handles, fairness | passes, 701 k states |
| `query_sql` | 20,566 requests on three routes, 26 rows, times that are rounded | passes, 73 k states |
| `search_exclusions` | simple searches | violation: `NOT:` asks for the word |

What they show:

- `ResultAccounted`, `FailuresCounted`, `AnswersJustified`, `KeepsPromise`:
  whatever happens between the loops of a call, it accounts for each pod, its
  counters are right though one of them is a subtraction, and its answer could
  have been given at one moment.
- `InformerEntriesCurrent`: an entry the informer stored is the pod's present
  state once the informer has caught up, with the one exception of dropped
  tombstones. `LiveEntriesHeal`: the resync repairs what a late call stored.
  `DeadEntriesExpire`: entries of deleted pods go, if they have a start time.
- `RevalidationAgrees`: the second and third look at a request never refuse what
  the first let through, although the clock has moved.
- `HasMoreHonest`, `WalkMissesNothing`, `WalkRepeatsNothing`: what the code
  promises a client that pages, with the conditions it needs. `raced` is one of
  them: a row that arrives between the count and the page query of the last page
  pushes another one behind the page, and the answer says there is no more.
  `Pinned` is another: without times each page has its own last 24 hours.
  `TieFree`: the builders' orders are not total.
- `RowsRecorded`: the second record of each call does not falsify the sum.
- `TokensConserved`, `LimitHeld`: however limiters are swapped, elements are
  neither lost nor made up; without a swap under a running goroutine the limit
  holds and no release waits. `AnswersComplete`: three of the four strategies
  account for each pod of the list. `ReturnsUnlessCrossed`: the swap and the
  batches of no pods are the only two ways in which a call fails to return.
- `OneChecker`: however updates and a close cross, all checks but the last are told
  to stop, the last is the one that `cancelHealthCheck` stops, and it ticks at the
  configured interval although it read it without the lock. A close stops the only
  check there is; an update that comes after it starts another, which nobody stops.
  `CloseOrderly`: what the done channel promises
  `Close`, as long as the checks were not restarted (see section 5).
  `CancelledChecksEnd`: what is told to stop ends, restarts and all.
  `HealthFollows`: results of old pings, of stopped checkers and of an exhausted
  pool do not stay recorded. `WarmupsReturn`: a warmup with a deadline returns, also
  one of two in a pool of one, which waits for itself; one without a deadline
  returns unless warmups have the whole pool, and then it hangs.
- `NothingLeaks`, `NilMeansOpen`, `Recovers`: what a manager without a lock still
  promises callers that do not overlap, with queries and the server in between: also
  after reconnects that failed halfway, and after callers whose contexts ended and who
  closed connections that were well. `alone` is a condition of all
  three because two callers that overlap close each other's connections.
- `ArgumentsFit`: each placeholder gets the value meant for it *when the query
  runs*; it holds although the count query of the time builder overwrites the
  main query's arguments, because both are built from the same prefix.
  `CountAgrees`: two queries written apart select the same rows.
- `FiltersNeverWiden`: on every route, and through each builder, no row outside of the
  parameters, up to what a statement can tell of a time. `SearchNeverWidens`: flattening
  an expression loses rows and never adds any, but for negations and for phrases with an
  operator in them. `NothingMissed`: for the forms that the conditions can hold the
  answer is complete. `Exact` is about the search: one clause, or a product of single
  words in parentheses, and no filter's text beside a search of blanks, which is then
  compared as it is. `NamesExact` is about the names: one type of pattern for each
  field, an exact one with its case, and with the content builder, which compares the
  single parameters too, one pattern at all. The legacy route needs a text without
  wildcards and rows that can be scanned, the aggregation nothing; rows at the edge of
  the range are never claimed. `Sound`, `Exact` and `NamesExact` name where the code
  falls short; section 5 lists the cases.

Bounds and why they are enough. Two pods make a call with a hit and a miss, or a found
and a failed pod; two calls race for one entry. Two states of a pod tell an old from a
new entry; a start time from state 2 or 3 on gives entries with and without one. One
loss of the watch makes tombstones; more only repeat it. For walks, three rows of one
data set with pages of one or two rows give walks of up to three pages and a partly
filled last one; a fourth row of another data set tests isolation. Time goes up to 3
with a longest span of 2, so that ranges can be too long, in the future, and expired.
`NanoGrain` 2 and `SecondGrain` 3 round some bounds twice, in one direction or in both.
`log_query_stats` bounds the calls at 3 and may stop there (`CHECK_DEADLOCK FALSE`); so
do the enrichment runs, in which every call is made once and pods are not reborn. In
`log_query_walks` clients can always ask again. In `optimizer` a list of three in
batches of two has a last batch that is not full, a list with a pod twice tells
occurrences from pods, two goroutines behind a limit of one wait for each other, and one
update is enough to be seen between any two reads of a call; a second one repeats the
swap. In `connection_pool` the pool sizes 2 and 1 let a warmup of two exhaust the pool,
with and without a ping in it; a second update or close is beyond TLC's time there, and
is covered by the theorem `OneCheckerCorrect`, for any number of them (two updates that
cross are therefore only proved, not run). In `connection_manager` three handles are one
stored, one in the making and one that a query still holds; a fourth lets a second
reconnecter open one more, with the same steps. `query_sql` has requests in families,
each of which varies what one part of the program reads, over rows that differ in one or
two columns: every sum of up to two clauses and product of two factors, every list of
one pattern of each kind, and two of them. The limits of the code are scaled down so
that the requests reach them: `MaxFilterCount` 3 for 50, `MaxSearchTerms` 3 for 20,
`MaxProximity` 4 for 50, `MaxDimensions` 2 for 5, `MaxFunctions` 2 for 8,
`MaxQueryComplexity` 80 tenths for 1000.

Fairness. `MetadataEnrichment`: weak fairness of the steps of a call that has begun (a
goroutine runs), of the janitor's ticker, of the informer's goroutines, and of time;
none for the beginning of a call, for changes of the cluster, for a loss of the watch,
or for `Shutdown`. `LogQuery`: weak fairness of the server's steps on a request; a
database that does not answer is `DbError` by the driver's read timeout.
`EnrichmentOptimizer`: weak fairness of goroutines and of `UpdateConfig` once it has
begun; that `EnrichLogs` returns is `CallsReturn` of `MetadataEnrichment`.
`ConnectionPool`: weak fairness of goroutines, of tickers and of the deadlines of pings
and of those contexts that have one; none for the end of a context that has none. Strong
fairness of a warmup's turn, since `sql.DB` serves those who wait in their order. Strong
fairness of `CheckerEnds`, because the `select` of the checker picks at random when a
tick and the cancellation are both ready, so that a goroutine that keeps ticking is not
passed over for ever; nobody has to call anything. `ConnectionManager`: somebody goes on
calling `ReconnectIfNeeded` (that is what it is for; today nobody does), and pings time
out. No context has to end.

## 4. Theorems

All proofs are checked by TLAPS for any constants that satisfy the named
assumptions (`BoundsAssumption`, `InputsAssumption`, `RowsAssumption` and so on,
next to the constants).

| Theorem | States |
|---|---|
| `TypeCorrect` | `MetadataEnrichment`: `TypeOK` always |
| `InformerCorrect` | `InformerEntriesCurrent` always |
| `AnswersCorrect` | `AnswersJustified` always |
| `AccountsCorrect` | `ResultAccounted` always |
| `FailuresCorrect` | `FailuresCounted` always |
| `PromiseKept` | `Spec => KeepsPromise` |
| `QueryTypeCorrect` | `LogQuery`: `TypeOK` always |
| `RevalidationCorrect` | `RevalidationAgrees` always |
| `HasMoreCorrect` | `HasMoreHonest` always |
| `RowsCorrect` | `RowsScoped` always |
| `RecordsCorrect` | `RowsRecorded` always |
| `NoRowTwice` | `WalkRepeatsNothing` always |
| `NoRowMissed` | `WalkMissesNothing` always |
| `OptimizerTypeCorrect` | `EnrichmentOptimizer`: `TypeOK` always |
| `LimitCorrect` | `LimitHeld` always |
| `TokensCorrect` | `TokensConserved` always |
| `AnswersCompleteCorrect` | `AnswersComplete` always |
| `PoolTypeCorrect` | `ConnectionPool`: `TypeOK` always |
| `OneCheckerCorrect` | `OneChecker` always |
| `CloseOrderlyCorrect` | `CloseOrderly` always |
| `PoolSizesCorrect` | `PoolSizesOrdered` always |
| `ManagerTypeCorrect` | `ConnectionManager`: `TypeOK` always |
| `NothingLeaksCorrect` | `NothingLeaks` always |
| `NilMeansOpenCorrect` | `Spec => NilMeansOpen` |
| `TypeCorrect` | `QuerySql`: `TypeOK` always |
| `ArgumentsAlwaysFit` | `ArgumentsFit` always |
| `CountAlwaysAgrees` | `CountAgrees` always |
| `FiltersNeverAddRows` | `FiltersNeverWiden` always |
| `SearchesNeverAddRows` | `SearchNeverWidens` always |
| `NoRowIsMissed` | `NothingMissed` always |
| `Invariance` | the inductive invariant of `QuerySql` that these six rest on |

The inductive invariants. `InformerEntriesCurrent` only speaks of pods that the informer
has caught up with. A queue gets empty from one whose last notification was handled, so
`InformerInv` says of each pod that the last notification in its queue tells what the
informer's store holds (`StoreOK`), and that with an empty queue the entry is the
store's (`EntryOK`). `JustInv` keeps, for a pod a call has not fetched yet, that its
state can only be newer than when the call began. `CallInv` gives the sets a call has
worked off in each loop (`ShapeOK`) and the cardinalities that its counters stand for
(`CountOK`). The refinement needs all three, and that an entry of the cache or of a call
is a state its pod has had. `Checked` keeps what each phase of a request knows of its
times: a range that was not in the future stays so, since the clock does not run
backwards. `Paged` ties the length of a page to the number of rows that were there.
`Scoped` rests on `BoundIsNear`: a bound that is rounded twice is at most half of each
grain away (`NearestIsNear` for one rounding). `LimitHeld` speaks of the present
limiter; its invariant `LimitInv` counts, for every channel there ever was, the
goroutines between their send and their receive, and has those that still have to
receive aim at the present one. It rests on `ShapeOK`: a call has no goroutines before
it goes to work, and none that is not one of its shares.

`FailuresCounted` relates two counters to sets over all calls, so `TotalInv` says
that the calls recorded so far are finitely many, their failed pods too, and that
each counter is a cardinality; and `LostCount`, that what the code works out by
subtraction, behind its guard, is the number of the call's failed pods.
`AnswersComplete` rests on two facts: the shares that `createBatches` makes cut the
list (`Cuts`, lemma `BatchesCut`: each place of the list is in one share, by
division with remainder), and a result holds exactly the pods of the shares that
were answered so far (`AnswerInv`).

`TokensConserved` and `RowsRecorded` are about sums over an array of any length.
`SumsAndLists` proves their laws (a sum changes by what one number changes; it grows
by what is appended) by induction over the naturals, which it first derives from the
well-foundedness of `<` (`EveryNumber`: of the naturals outside a set that holds 0
and is closed under successor there is no least one, so there is none). With them
each step of the two models moves a sum and a cardinality, or two sums, by the same
amount.

The walks rest on the place of a row in the result: the number of the asked-for rows
before it (`Rank`). A page holds the rows with places from page * size up to the
next page (`PagePlaces`), all its pages having the same size and times (`OwnAt`).
While no row is written, what the TTL removes only moves a row forward, to pages
that were read, so that no later page has a row of an earlier one (`RepeatAt`).
While no asked-for row is removed, a row that arrives only moves others behind, so
that a row of the first count that was not read has its place behind the pages that
were (`MissAt`); at the end the count says that there is nothing there.

`OneChecker` says nothing of an update that is under way, so `CheckerInv` adds who
holds the lock (`LockInv`), that `cancels` is the last goroutine, already cancelled
between `StopChecker` and `StartChecker` (`CancelInv`), and that every goroutine
that reads its interval late reads the one it was started for (`IntervalInv`).
`CloseOrderly` needs `DoneInv`: the channel is closed only when some goroutine has
ended, and a panic takes two that have. `Kept` gives, for each stage of a reconnect,
which connections are open and which of the two fields already point to them
(`StageOK`), when nobody else is at work (`OneAtWork`), and that closers do nothing
but close (`ClosersClose`).

`ArgumentsFit` is about values that were appended several steps before they are
bound, to a list that another query may have overwritten since. `IInv` therefore
says for each stage what it has made out of the request: `Asked` what the parsers
leave in `query`, `LogsBuilt`, `AggregationBuilt` and `LegacyBuilt` which builder
made `main` and `count` and from what, `Counted` and `Fetched` what the database
found; `Progress` which stages a route goes through. For the time builder,
`LogsBuilt` needs that the overwriting list is the overwritten one, argument for
argument: the two builders agree on every query, which is what is proved of them.
What a builder makes is then proved piece by piece, from the bottom: the
placeholders of a piece are the columns its arguments are meant for (`Fit`), and
joining keeps that with AND, OR and NOT (`JoinFits`, `AnyOfFits`, `NoneOfFits`); a
row meets two conditions that are joined if and only if it meets each of them, where
the arguments of the second are shifted by the placeholders of the first
(`ConcatMeets`). All of them go through `FlattenSeq`, which is a fold: its laws
(the first list, and the rest; where an element of the result comes from) are
proved in `SumsAndLists`, by the same induction over the naturals. `FiltersNeverAddRows`
follows from these and from what a list of patterns becomes: each filter is made
of a pattern of the request, and finds no more than that pattern does (`Found`).

`SearchesNeverAddRows` compares the filters of an expression with the formula that
the expression was written from. In one direction: what a row meets is read off the
filters alone, whatever their order (`SearchMeets`: all of AND, one of OR, none of
NOT). In the other: the tokens of a formula are joined lists, and a place in them is
a place in one of these (`FlatAt`, `FlatFrom`), so that the operator of a word, the
last one before it, is the one written just before it (`SumToken`), or, for the
first word of a factor, the AND before its parenthesis (`ProductToken`). A row that
passes the filters of a sum therefore has every literal of its *first* clause
(`SumMeant`), and one that passes those of a product the first word of every factor
(`ProductMeant`): less than what the formula means, never more. With phrases it has
all of them, since one filter at most gets an OR (`PhrasesMeant`): the operators of the
text are those between the phrases, when none has one inside (`BetweenPhrases`), and
without a negation or an empty phrase no filter is lost (`Plainly`).
The times are handled apart from the rest: what a statement holds of a bound has the
same rows on its side, but for those near the bound (`HeldFits`, `NotHeld`), so that a
time is met within the edge in one direction and outside of it in the other.

`NoRowIsMissed` goes the other way: from what a request means to what its statement
selects. The lemmas on the builders are equivalences for this: a row meets a piece if
and only if it meets all of its parts (`ContentPiece`, `SingleNamesPiece`, `JoinPlaces`
and so on), so that it is left to show each part of a row in scope. For the names, what
a list of patterns means is met by the conditions of its groups: when each field has one
type there is one group, an OR of all patterns, and each finds what it means
(`MeantPasses`, `K8sNamesMet`); the raw parameter that the content builder compares is
the name itself, when the patterns are alike (`NameMet`). For the search, each kind that
is `Exact` gives filters that are met by what it means (`AskedIsFound`; `SimpleMeant`,
`RegexMeant` and `ProximityMeant` are equivalences, `SumMeant` and `PhrasesMeant` are
for one clause; in a product of single words AND is the only operator there is, so that
it holds at every place: `OnlyAnd`, `SingleProductMeant`). On the legacy route a name is
looked for in a path that is joined from three names, and joining is associative
(`PathNames`). What no condition excludes, the invariant does: with the content builder
a node name is an unknown column, and rows that were fetched come from a statement that
ran (`Fetched`, `NoNodeRuns`). This proof also corrected the conditions: a search of
blanks has no filters and leaves the filter's text to be compared as it is, which
`Exact` did not say.

Only model-checked: the liveness properties (`CallsReturn`, `LiveEntriesHeal`,
`DeadEntriesExpire`, `RequestsAnswered`, `ReturnsUnlessCrossed`, `HealthFollows`,
`WarmupsReturn`, `CancelledChecksEnd`, `Recovers`): they need ENABLED, which the prover
does not have. Every safety property that a passing run checks is a theorem.

## 5. Where the code differs from what it says

With a run that shows it:

1. A call that fetched a pod before its deletion stores it afterwards
   (`metadata_service.go:197`): story 3-2 wants deletions handled properly
   (`enrichment_invalidation`).
2. A release of the optimizer's limiter re-reads the field (`optimization.go:264`)
   and may wait for ever after `UpdateConfig` (`optimizer_returns`).
3. The parallel path returns an empty result (`optimization.go:268`;
   `optimizer_answers`).
4. `NOT:debug` in a simple search asks for `debug` (`content_search_validator.go:258`;
   `search_exclusions`).

Met on the way, and modelled as the code has it:

- *Times and pages.* A bound of the time range is rounded twice, by 247 ns at most
  (`time_queries.go:129-130`), where story 2-2 wants exact ranges. Pages are sorted by
  service first, or always newest first (`time_queries.go:145`, `k8s_queries.go:104`,
  `content_search_queries.go:540`), whatever `direction` says. A range with one bound
  is not limited to 24 hours. Each successful query writes two records
  to `query_stats` (`repository.go:105` and `274`). Validation errors of the
  service are answered with 500, except those of the Kubernetes filters.
- *Search expressions.* A boolean expression becomes a flat list: an operator holds up
  to the next one, so that `a OR b` asks for `a` AND (`b`), parentheses count only when
  they stand alone and then for nothing, and a NOT before parentheses excludes only the
  first word. The operators of quoted phrases are collected in the order OR, AND, NOT,
  also those inside of the quotes (`content_search_validator.go:359-367`): the one
  phrase `"file NOT found"` is excluded instead of asked for. A phrase that begins or
  ends with punctuation is not found, because of the word boundaries around it
  (`content_search_queries.go:427`). Empty phrases and words beside a phrase are
  dropped, and a phrase whose quote is not closed too. A boolean expression of
  parentheses only filters nothing. A wildcard search, which `handler.go:67` documents,
  names the unknown column `Body` and fails. A proximity search ignores the distance. A
  `filter` beside a `content_search` is ignored, unless the search is of blanks only:
  then the filter's text is compared as it is.
- *Names.* The prefix, suffix and infix patterns of `handler.go:62` are
  never made: the wildcard case comes first. Patterns of several types on one field
  are joined with AND. `icase:` on an exact pod name is ignored by the Kubernetes
  builder. The content builder also compares the raw `namespace` and `pod_name`.
  In patterns, LIKE makes `_` any character. On the legacy route
  names are looked for in the path between underscores that LIKE takes for any
  character (`apiserver/logs.go:55` and `231-234`): pod `web-prod` of namespace
  `dev` is found under namespace `prod`. The text of that route is a LIKE pattern too
  (`logs.go:256`): `user_id` also finds `user-id`. Its rows that cannot be scanned are
  skipped without a word (`logs.go:307-309`), and counted.
- *Nodes.* `node_name` is an unknown column (content), an argument without a
  placeholder (`k8s_queries.go:92`), or ignored (time).
- *Aggregation.* `sum`, `avg`, `min` and `max` are always refused: their field is
  `*`. `distinct_count` names an unknown column, and so do the
  dimensions `node_name` and `host_name`. The buckets 1m, 1h, 1d and 1w fail on
  ORDER BY `time_bucket`, a name they are not given. The limit on complexity
  cannot be reached, nor can that of the Kubernetes filters.
- *Pools.* After `UpdateConfig` restarted the checks, a second goroutine closes
  `healthCheckDone`, which panics, and `Close` sees the old close and does not wait
  (`connection_pool.go:87` and `228`). An `UpdateConfig` after a `Close` starts a check
  that nobody stops. `Warmup(context.Background(), 2)` on a pool of one hangs.
  `GetOptimalPoolSize` proposes a minimum above its maximum when more than 98
  connections are in use and somebody waited: the maximum is capped at 100, the minimum
  is not. Two overlapping calls of `ReconnectIfNeeded` close each other's new
  connections (`connection.go:188`), and may go on doing so. A caller whose context is
  over makes `HealthCheck` fail, and `ReconnectIfNeeded` closes healthy connections
  (`connection.go:175-179`).

## 6. Not modelled, and the plan

Not modelled, and why:

- `optimized_query_builder.go`, `query_optimizer.go`, `pagination_manager.go` and
  `BuildLogQuery`/`BuildCountQuery` of the plain builder: no route reaches them,
  and they keep nothing.
- Dataset queries: one query each, on tables no other part writes; nothing
  is kept. (`DatasetExists` and `GetDatasetHealth` have slips that a unit test
  with a database would show; they are not about states.)
- The select lists, paging and highlighting of the SQL text, and the values of
  aggregates: `QuerySql` is about which rows a query is over, `LogQuery` about pages.
- Length, UTF-8 and injection checks of single texts: in `LogQuery` they are one
  choice, refused or not; in `QuerySql` every text is one that passes.
- Metrics exporters, configuration, deployment: nothing reads back what
  they write; data.
- The front end: services of the browser whose state never reaches the server
  (history under a storage quota, a cache of suggestions, a request with a timer). A
  project of their own would model them; `PROJECT.json` lists their hazards.

What would come next: the three services of the front end; a composition of
`ConnectionManager` with the requests of `LogQuery`, once the server calls
`ReconnectIfNeeded`.
