------------------------------ MODULE LogQuery ------------------------------
(***************************************************************************)
(* A log query from the handler to the answer, and clients that read a     *)
(* result page by page: pkg/oapis/log/v1alpha1 queryLogs, pkg/service/query *)
(* QueryLogsByDataset and pkg/repository/clickhouse QueryLogs.             *)
(*                                                                         *)
(* One request reads the clock three times and the log table twice, a      *)
(* count and then a page, and a client's next page is a new request.  The  *)
(* collectors write, and the table's TTL removes, rows in between.         *)
(*                                                                         *)
(* Time is counted in ticks.  A time parameter that may be nil is a set of *)
(* at most one time.  The content, severity and Kubernetes conditions of a *)
(* request are abstracted to the set of rows they select.                  *)
(***************************************************************************)
EXTENDS Integers, Sequences, FiniteSets

CONSTANTS
    Rows,             \* the log rows the collectors ever write
    Requests,         \* what clients ask for
    Clients,
    MaxTime,          \* bound on the clock
    MaxSpan,          \* TimeRangeValidator.maxTimeSpan
    Window,           \* the range a request without times gets
    Retention,        \* the TTL of logs_mv
    NanoGrain,        \* distance of two float64 nanoseconds of today, in ticks
    SecondGrain,      \* distance of two float64 seconds of today, in ticks
    DriverGrain,      \* what the database driver keeps of a time.Time, in ticks
    DefaultPageSize,
    MaxPageSize,
    MetricsEnabled,   \* the repository has a metrics recorder
    MaxCalls          \* bound on the queries of a repository with a recorder

Builders == {"time", "k8s", "content"}

\* How the parameters outside the time range are: all right; refused by the
\* handler, by the Kubernetes filter parser, or by another check of the service.
Forms == {"ok", "badParameter", "badK8s", "badFilter"}

ASSUME RowsAssumption ==
    /\ IsFiniteSet(Rows)
    /\ \A r \in Rows : r.stamp \in Nat /\ r.service \in Nat /\ r.ns \in Nat

ASSUME RequestsAssumption ==
    /\ Requests # {}
    /\ \A q \in Requests :
        /\ q.start \in SUBSET Int /\ \A s, t \in q.start : s = t
        /\ q.end \in SUBSET Int /\ \A s, t \in q.end : s = t
        /\ q.match \subseteq Rows
        /\ q.pageSize \in Nat
        /\ q.form \in Forms
        /\ q.builder \in Builders
        /\ q.direction \in {"asc", "desc"}

ASSUME BoundsAssumption ==
    /\ MaxTime \in Nat
    /\ MaxSpan \in Nat
    /\ Window \in Nat /\ Window <= MaxSpan
    /\ Retention \in Nat
    /\ NanoGrain \in Nat \ {0}
    /\ SecondGrain \in Nat \ {0}
    /\ DriverGrain \in Nat \ {0}
    /\ DefaultPageSize \in 1 .. MaxPageSize
    /\ MaxPageSize \in Nat
    /\ MetricsEnabled \in BOOLEAN
    /\ MaxCalls \in Nat

VARIABLES
    clock,
    (* The table logs_mv *)
    store,      \* the rows it holds
    expired,    \* the rows its TTL removed
    (* One request per client *)
    phase,      \* phase[c]: how far the request got
    query,      \* query[c]: what the client asked for
    page,       \* page[c]: LogQueryRequest.Page
    size,       \* size[c]: LogQueryRequest.PageSize
    from, to,   \* from[c], to[c]: StartTime and EndTime as the repository gets them
    total,      \* total[c]: the result of the count query
    rows,       \* rows[c]: the result of the main query
    more,       \* more[c]: has_more of the answer
    status,     \* status[c]: the HTTP status of the answer, 0 before
    stage,      \* stage[c]: who refused the request
    (* The table query_stats and the goroutines that write to it *)
    calls,      \* QueryLogs calls of the repository that ended
    returned,   \* the rows they returned
    pending,    \* pending[n]: inserts under way with rows_returned = n
    stats,      \* records: the records in query_stats, rows: the sum of their
                \* rows_returned, dropped: the same sum over the failed inserts
    (* History, read by properties only *)
    base,       \* base[c]: the rows the first page's count found
    found,      \* found[c]: how many rows the main query had to choose from
    seen,       \* seen[c]: the rows of the walk's pages so far
    arrived,    \* arrived[c]: a row the request asks for was written mid-walk
    left,       \* left[c]: such a row was removed mid-walk
    raced       \* raced[c]: such a row was written after this page's count

storeVars   == <<store, expired>>
requestVars == <<phase, query, page, size, from, to, total, rows, more, status,
                 stage>>
statsVars   == <<calls, returned, pending, stats>>
walkVars    == <<base, found, seen, arrived, left, raced>>
vars == <<clock, storeVars, requestVars, statsVars, walkVars>>

Phases == {"idle", "parsed", "prepared", "counted", "fetched", "answered"}

\* What mapErrorToStatusCode makes of the text of a database error: something
\* was not found; the client is gone or a deadline passed; anything else; the
\* connection broke or timed out.
DbCodes == {404, 408, 500, 503}

Statuses == {0, 200, 400} \cup DbCodes

Stages == {"none", "handler", "service", "database"}

Init ==
    /\ clock = 0
    /\ store = {}
    /\ expired = {}
    /\ phase = [c \in Clients |-> "idle"]
    /\ query = [c \in Clients |-> CHOOSE q \in Requests : TRUE]
    /\ page = [c \in Clients |-> 0]
    /\ size = [c \in Clients |-> 0]
    /\ from = [c \in Clients |-> {}]
    /\ to = [c \in Clients |-> {}]
    /\ total = [c \in Clients |-> 0]
    /\ rows = [c \in Clients |-> <<>>]
    /\ more = [c \in Clients |-> FALSE]
    /\ status = [c \in Clients |-> 0]
    /\ stage = [c \in Clients |-> "none"]
    /\ calls = 0
    /\ returned = 0
    /\ pending = [n \in 0 .. MaxPageSize |-> 0]
    /\ stats = [records |-> 0, rows |-> 0, dropped |-> 0]
    /\ base = [c \in Clients |-> {}]
    /\ found = [c \in Clients |-> 0]
    /\ seen = [c \in Clients |-> <<>>]
    /\ arrived = [c \in Clients |-> FALSE]
    /\ left = [c \in Clients |-> FALSE]
    /\ raced = [c \in Clients |-> FALSE]

-----------------------------------------------------------------------------
(* What the SQL of the three builders selects, and in which order *)

\* What rounding to a float makes of a time: the nearest multiple of the
\* distance g of two floats, the even one of two.
Nearest(t, g) ==
    LET below == t \div g
        past  == 2 * (t - below * g)
    IN  IF past < g \/ (past = g /\ below % 2 = 0)
          THEN below * g
          ELSE (below + 1) * g

\* AddTimeCondition makes the nanoseconds of a time a float64, and that float
\* one of seconds: the time is rounded twice.
AsFloat(t) == Nearest(Nearest(t, NanoGrain), SecondGrain)

\* The other two builders leave a time.Time to the driver, which writes it into
\* the query without what is below its precision.
AsDriverTime(t) == (t \div DriverGrain) * DriverGrain

\* A bound of the time range as the WHERE clause holds it.
Bound(q, t) == IF q.builder = "time" THEN AsFloat(t) ELSE AsDriverTime(t)

\* Fault: the WHERE clause forgets the dataset.
SelectsAnyDataset(q, f, e, r) ==
    /\ r \in q.match
    /\ \A t \in f : r.stamp >= Bound(q, t)
    /\ \A t \in e : r.stamp <= Bound(q, t)

\* The WHERE clause of request q with the time range f to e.
Selects(q, f, e, r) ==
    /\ r.dataset = q.dataset
    /\ r \in q.match
    /\ \A t \in f : r.stamp >= Bound(q, t)
    /\ \A t \in e : r.stamp <= Bound(q, t)

Selected(S, q, f, e) == {r \in S : Selects(q, f, e, r)}

\* ORDER BY of the three builders: r strictly before s.  Only the time
\* builder looks at the direction, and it sorts by service first.
Before(q, r, s) ==
    CASE q.builder = "time" ->
           \/ r.service < s.service
           \/ /\ r.service = s.service
              /\ IF q.direction = "asc" THEN r.stamp < s.stamp
                                        ELSE r.stamp > s.stamp
      [] q.builder = "k8s" ->
           \/ r.stamp > s.stamp
           \/ r.stamp = s.stamp /\ r.ns < s.ns
      [] q.builder = "content" -> r.stamp > s.stamp

\* The orders the database may return the rows S in: rows that tie come in
\* any order, and in another one the next time.
Sorted(S, q) ==
    {s \in [1 .. Cardinality(S) -> S] :
        \A i, j \in 1 .. Cardinality(S) :
            i < j => s[i] # s[j] /\ ~Before(q, s[j], s[i])}

\* Faults: the offset counts one row too many per page, or one too few.
PageOfSkipping(s, n, pg, sz) ==
    LET offset == pg * (sz + 1)
        length == IF n <= offset THEN 0
                  ELSE IF n - offset < sz THEN n - offset ELSE sz
    IN  [i \in 1 .. length |-> s[offset + i]]

PageOfOverlapping(s, n, pg, sz) ==
    LET offset == pg * (sz - 1)
        length == IF n <= offset THEN 0
                  ELSE IF n - offset < sz THEN n - offset ELSE sz
    IN  [i \in 1 .. length |-> s[offset + i]]

\* LIMIT size OFFSET pg * size
PageOf(s, n, pg, sz) ==
    LET offset == pg * sz
        length == IF n <= offset THEN 0
                  ELSE IF n - offset < sz THEN n - offset ELSE sz
    IN  [i \in 1 .. length |-> s[offset + i]]

-----------------------------------------------------------------------------
(* The surroundings: the clock, the collectors, the TTL of the table *)

\* what request q asks for, by the times the client gave
Asked(q, r) == Selects(q, q.start, q.end, r)

\* client c is in the middle of a result
Walking(c) ==
    phase[c] \in {"parsed", "prepared", "counted", "fetched"} \/ more[c]

Tick ==
    /\ clock < MaxTime
    /\ clock' = clock + 1
    /\ UNCHANGED <<storeVars, requestVars, statsVars, walkVars>>

\* A collector delivers a row, late as it may be.
Ingest(r) ==
    /\ r \notin store \cup expired
    /\ r.stamp <= clock
    /\ store' = store \cup {r}
    /\ arrived' = [c \in Clients |->
                     arrived[c] \/ (Walking(c) /\ Asked(query[c], r))]
    /\ raced' = [c \in Clients |->
                   raced[c] \/ (phase[c] = "counted" /\ Asked(query[c], r))]
    /\ UNCHANGED <<clock, expired, requestVars, statsVars, base, found, seen,
                   left>>

\* A merge drops a row whose TTL is over.
Expire(r) ==
    /\ r \in store
    /\ r.stamp + Retention <= clock
    /\ store' = store \ {r}
    /\ expired' = expired \cup {r}
    /\ left' = [c \in Clients |-> left[c] \/ (Walking(c) /\ Asked(query[c], r))]
    /\ UNCHANGED <<clock, requestVars, statsVars, base, found, seen, arrived,
                   raced>>

-----------------------------------------------------------------------------
(* The handler and the service *)

\* TimeRangeValidator.validateTimeRange at the present time.
TimeRangeOK(f, e) ==
    /\ \A t \in f \cup e : t <= clock
    /\ \A s \in f, t \in e : s <= t /\ t - s <= MaxSpan

\* Fault: no limit on page_size.
ParseUnlimitedOK(q) == TimeRangeOK(q.start, q.end) /\ q.form # "badParameter"

\* parseQueryRequest: page_size 0 stands for an absent parameter.
ParseOK(q) ==
    /\ TimeRangeOK(q.start, q.end)
    /\ q.form # "badParameter"
    /\ q.pageSize <= MaxPageSize

\* An error answer: the handler's own, or mapErrorToStatusCode of the error.
Fail(c, who, code) ==
    /\ phase' = [phase EXCEPT ![c] = "answered"]
    /\ status' = [status EXCEPT ![c] = code]
    /\ stage' = [stage EXCEPT ![c] = who]
    /\ more' = [more EXCEPT ![c] = FALSE]
    /\ rows' = [rows EXCEPT ![c] = <<>>]

\* A request for page pg of query q reaches the handler.
Receive(c, q, pg) ==
    /\ query' = [query EXCEPT ![c] = q]
    /\ page' = [page EXCEPT ![c] = pg]
    /\ size' = [size EXCEPT ![c] = IF ParseOK(q) THEN q.pageSize ELSE 0]
    /\ from' = [from EXCEPT ![c] = q.start]
    /\ to' = [to EXCEPT ![c] = q.end]
    /\ total' = [total EXCEPT ![c] = 0]
    /\ found' = [found EXCEPT ![c] = 0]
    /\ raced' = [raced EXCEPT ![c] = FALSE]
    /\ IF ParseOK(q)
         THEN /\ phase' = [phase EXCEPT ![c] = "parsed"]
              /\ status' = [status EXCEPT ![c] = 0]
              /\ stage' = [stage EXCEPT ![c] = "none"]
              /\ more' = [more EXCEPT ![c] = FALSE]
              /\ rows' = [rows EXCEPT ![c] = <<>>]
         ELSE Fail(c, "handler", 400)

\* A client starts to read the result of q.
Ask(c, q) ==
    /\ phase[c] \in {"idle", "answered"}
    /\ MetricsEnabled => calls < MaxCalls
    /\ Receive(c, q, 0)
    /\ base' = [base EXCEPT ![c] = {}]
    /\ seen' = [seen EXCEPT ![c] = <<>>]
    /\ arrived' = [arrived EXCEPT ![c] = FALSE]
    /\ left' = [left EXCEPT ![c] = FALSE]
    /\ UNCHANGED <<clock, storeVars, statsVars>>

\* The client goes on to the next page.
NextPage(c) ==
    /\ phase[c] = "answered"
    /\ more[c]
    /\ MetricsEnabled => calls < MaxCalls
    /\ Receive(c, query[c], page[c] + 1)
    /\ UNCHANGED <<clock, storeVars, statsVars, base, seen, arrived, left>>

\* Fault: the service holds the age of the range against MaxSpan.
ServiceOKIfRecent(c) ==
    /\ query[c].form = "ok"
    /\ TimeRangeOK(from[c], to[c])
    /\ \A t \in from[c] : clock - t <= MaxSpan

\* validateQueryRequest accepts the request: the times are looked at again.
ServiceOK(c) ==
    /\ query[c].form = "ok"
    /\ TimeRangeOK(from[c], to[c])

\* QueryLogsByDataset up to the repository: validate, preprocess.  The range
\* of the last 24 hours is only set when both times are missing.
Prepare(c) ==
    LET open == from[c] = {} /\ to[c] = {}
    IN  /\ phase[c] = "parsed"
        /\ ServiceOK(c)
        /\ phase' = [phase EXCEPT ![c] = "prepared"]
        /\ size' = [size EXCEPT ![c] = IF @ = 0 THEN DefaultPageSize ELSE @]
        /\ from' = [from EXCEPT ![c] = IF open THEN {clock - Window} ELSE @]
        /\ to' = [to EXCEPT ![c] = IF open THEN {clock} ELSE @]
        /\ UNCHANGED <<clock, storeVars, query, page, total, rows, more, status,
                       stage, statsVars, walkVars>>

\* Fault: a Kubernetes error gets no answer.
RefuseUnlessK8s(c) ==
    /\ phase[c] = "parsed"
    /\ ~ServiceOK(c) /\ query[c].form # "badK8s"
    /\ Fail(c, "service", 500)
    /\ UNCHANGED <<clock, storeVars, query, page, size, from, to, total,
                   statsVars, walkVars>>

\* handleServiceError: only the Kubernetes errors are known as the client's.
Refuse(c) ==
    /\ phase[c] = "parsed"
    /\ ~ServiceOK(c)
    /\ Fail(c, "service", IF query[c].form = "badK8s" THEN 400 ELSE 500)
    /\ UNCHANGED <<clock, storeVars, query, page, size, from, to, total,
                   statsVars, walkVars>>

-----------------------------------------------------------------------------
(* The repository *)

\* LogQueryRequest.Validate once more, and what the builder chosen for the
\* request checks: ValidateTimeQuery a week, ValidateK8sQuery a day (for more
\* than five filters).
RepositoryOK(c) ==
    /\ size[c] \in 1 .. MaxPageSize
    /\ \A s \in from[c], t \in to[c] :
        /\ s <= t
        /\ query[c].builder = "time" => t - s <= 7 * MaxSpan
        /\ query[c].builder = "k8s" => t - s <= MaxSpan

Chosen(c) == Selected(store, query[c], from[c], to[c])

\* The count query.
Count(c) ==
    /\ phase[c] = "prepared"
    /\ RepositoryOK(c)
    /\ phase' = [phase EXCEPT ![c] = "counted"]
    /\ total' = [total EXCEPT ![c] = Cardinality(Chosen(c))]
    /\ base' = [base EXCEPT ![c] = IF page[c] = 0 THEN Chosen(c) ELSE @]
    /\ UNCHANGED <<clock, storeVars, query, page, size, from, to, rows, more,
                   status, stage, statsVars, found, seen, arrived, left, raced>>

\* Fault: only the deferred Finish is left.
FinishDeferred(lengths) ==
    IF MetricsEnabled
      THEN /\ calls' = calls + 1
           /\ pending' = [pending EXCEPT ![lengths[Len(lengths)]] = @ + 1]
      ELSE UNCHANGED <<calls, pending>>

\* QueryMetricsCollector.Finish, once with the rows of a success and, deferred,
\* once more with none: every call starts a goroutine that inserts a record.
Finish(lengths) ==
    IF MetricsEnabled
      THEN /\ calls' = calls + 1
           /\ pending' = [n \in 0 .. MaxPageSize |->
                            pending[n] + Cardinality({i \in DOMAIN lengths :
                                                        lengths[i] = n})]
      ELSE UNCHANGED <<calls, pending>>

\* The main query, read to its end.
Fetch(c) ==
    LET n == Cardinality(Chosen(c))
    IN  /\ phase[c] = "counted"
        /\ phase' = [phase EXCEPT ![c] = "fetched"]
        /\ \E s \in Sorted(Chosen(c), query[c]) :
               rows' = [rows EXCEPT ![c] = PageOf(s, n, page[c], size[c])]
        /\ found' = [found EXCEPT ![c] = n]
        /\ returned' = IF MetricsEnabled THEN returned + Len(rows'[c])
                                         ELSE returned
        /\ Finish(<<Len(rows'[c]), 0>>)
        /\ UNCHANGED <<clock, storeVars, query, page, size, from, to, total,
                       more, status, stage, stats, base, seen, arrived, left,
                       raced>>

\* One of the two queries fails, or its result cannot be read to the end.
DbError(c, code) ==
    /\ phase[c] \in {"prepared", "counted"}
    /\ Fail(c, "database", code)
    /\ Finish(<<0>>)
    /\ UNCHANGED <<clock, storeVars, query, page, size, from, to, total,
                   returned, stats, walkVars>>

\* Fault: a full page has a next one, whatever the count says.
RespondIfFull(c) ==
    LET n == Len(rows[c])
    IN  /\ phase[c] = "fetched"
        /\ phase' = [phase EXCEPT ![c] = "answered"]
        /\ status' = [status EXCEPT ![c] = 200]
        /\ more' = [more EXCEPT ![c] = n = size[c]]
        /\ seen' = [seen EXCEPT ![c] = @ \o rows[c]]
        /\ UNCHANGED <<clock, storeVars, query, page, size, from, to, total,
                       rows, stage, statsVars, base, found, arrived, left,
                       raced>>

\* The response of QueryLogs: the page, the count, and whether there is more.
Respond(c) ==
    LET n == Len(rows[c])
    IN  /\ phase[c] = "fetched"
        /\ phase' = [phase EXCEPT ![c] = "answered"]
        /\ status' = [status EXCEPT ![c] = 200]
        /\ more' = [more EXCEPT ![c] = /\ n = size[c]
                                       /\ page[c] * size[c] + n < total[c]]
        /\ seen' = [seen EXCEPT ![c] = @ \o rows[c]]
        /\ UNCHANGED <<clock, storeVars, query, page, size, from, to, total,
                       rows, stage, statsVars, base, found, arrived, left,
                       raced>>

\* A goroutine of RecordQueryMetrics ends: its insert worked, or it did not.
RecordStat(n) ==
    /\ pending[n] > 0
    /\ pending' = [pending EXCEPT ![n] = @ - 1]
    /\ \/ stats' = [stats EXCEPT !.records = @ + 1, !.rows = @ + n]
       \/ stats' = [stats EXCEPT !.dropped = @ + n]
    /\ UNCHANGED <<clock, storeVars, requestVars, calls, returned, walkVars>>

-----------------------------------------------------------------------------

\* a step of the server on client c's request
Serve(c) ==
    \/ Prepare(c)
    \/ Refuse(c)
    \/ Count(c)
    \/ Fetch(c)
    \/ \E code \in DbCodes : DbError(c, code)
    \/ Respond(c)

Next ==
    \/ Tick
    \/ \E r \in Rows : Ingest(r) \/ Expire(r)
    \/ \E c \in Clients : \/ \E q \in Requests : Ask(c, q)
                          \/ NextPage(c)
                          \/ Serve(c)
    \/ \E n \in 0 .. MaxPageSize : RecordStat(n)

Spec == Init /\ [][Next]_vars

\* net/http runs a goroutine per request, and a query that the database does
\* not answer ends by the driver's read timeout.
Fairness == \A c \in Clients : WF_vars(Serve(c))

FairSpec == Spec /\ Fairness

-----------------------------------------------------------------------------
(* Properties *)

StoreTypeOK ==
    /\ clock \in 0 .. MaxTime
    /\ store \in SUBSET Rows
    /\ expired \in SUBSET Rows

RequestTypeOK ==
    /\ phase \in [Clients -> Phases]
    /\ query \in [Clients -> Requests]
    /\ page \in [Clients -> Nat]
    /\ size \in [Clients -> 0 .. MaxPageSize]
    /\ from \in [Clients -> SUBSET Int]
    /\ to \in [Clients -> SUBSET Int]
    /\ total \in [Clients -> Nat]
    /\ rows \in [Clients -> Seq(Rows)]
    /\ more \in [Clients -> BOOLEAN]
    /\ status \in [Clients -> Statuses]
    /\ stage \in [Clients -> Stages]

StatsTypeOK ==
    /\ calls \in Nat
    /\ returned \in Nat
    /\ pending \in [0 .. MaxPageSize -> Nat]
    /\ stats \in [records : Nat, rows : Nat, dropped : Nat]

WalkTypeOK ==
    /\ base \in [Clients -> SUBSET Rows]
    /\ found \in [Clients -> Nat]
    /\ seen \in [Clients -> Seq(Rows)]
    /\ arrived \in [Clients -> BOOLEAN]
    /\ left \in [Clients -> BOOLEAN]
    /\ raced \in [Clients -> BOOLEAN]

\* Types: every variable keeps the type of what it stands for in the request,
\* the table or the statistics; a page size never exceeds the limit of
\* LogQueryRequest.Validate.
TypeOK == StoreTypeOK /\ RequestTypeOK /\ StatsTypeOK /\ WalkTypeOK

\* The WHERE clause of q cannot tell a time from one that is d ticks away.
Within(q, d) ==
    IF q.builder = "time" THEN 2 * d <= NanoGrain + SecondGrain
                          ELSE d < DriverGrain

\* Data isolation: a page never holds a row of another dataset, a row the
\* request's conditions do not select, or one further outside its time range
\* than the WHERE clause can tell; nor more rows than the page size, nor a row
\* twice.
RowsScoped ==
    \A c \in Clients :
        /\ Len(rows[c]) <= MaxPageSize
        /\ Len(rows[c]) <= size[c]
        /\ \A i \in DOMAIN rows[c] :
               LET r == rows[c][i]
               IN  /\ r.dataset = query[c].dataset
                   /\ r \in query[c].match
                   /\ \A t \in from[c] : Within(query[c], t - r.stamp)
                   /\ \A t \in to[c] : Within(query[c], r.stamp - t)
                   /\ \A j \in DOMAIN rows[c] : rows[c][j] = r => i = j

\* The three looks at one request agree although the clock moves between
\* them: the service refuses no time range the handler let through, and the
\* repository no request the service let through.
RevalidationAgrees ==
    \A c \in Clients :
        /\ stage[c] = "service" => query[c].form \in {"badK8s", "badFilter"}
        /\ phase[c] = "prepared" => RepositoryOK(c)

\* what an answer's has_more is about: the rows up to the end of its page
PageEnd(c) == (page[c] + 1) * size[c]

\* has_more is right at one of the two looks at the table: a last page means
\* that at one of them nothing lay behind it, and "more" that something did
\* when the rows were counted and the page was full when they were read.
HasMoreHonest ==
    \A c \in Clients : phase[c] = "answered" /\ status[c] = 200 =>
        IF more[c] THEN total[c] > PageEnd(c) /\ found[c] >= PageEnd(c)
                   ELSE total[c] <= PageEnd(c) \/ found[c] < PageEnd(c)

\* a time range that does not move with the clock
Pinned(q) == q.start # {} \/ q.end # {}

\* The order of the rows q asks for is the same in every query.
TieFree(q) ==
    \A r, s \in {r \in Rows : Asked(q, r)} :
        r = s \/ Before(q, r, s) \/ Before(q, s, r)

SeenRows(c) == {seen[c][i] : i \in DOMAIN seen[c]}

\* A client that read to the last page has every row that was there when it
\* began, whatever was written in the meantime, unless the TTL removed rows,
\* or a row came in between the count and the page of the last request.
WalkMissesNothing ==
    \A c \in Clients :
        /\ phase[c] = "answered" /\ status[c] = 200 /\ ~more[c]
        /\ Pinned(query[c]) /\ TieFree(query[c])
        /\ ~left[c] /\ ~raced[c]
        => base[c] \subseteq SeenRows(c)

\* A client never reads a row twice, whatever the TTL removes, unless a row
\* was written in the meantime.
WalkRepeatsNothing ==
    \A c \in Clients :
        Pinned(query[c]) /\ TieFree(query[c]) /\ ~arrived[c]
        => Cardinality(SeenRows(c)) = Len(seen[c])

\* the rows_returned of the inserts under way, by the length of the page
RowsPending == [n \in 1 .. MaxPageSize |-> n * pending[n]]

\* and of all of them together
UnderWay ==
    LET upTo[n \in 0 .. MaxPageSize] ==
            IF n = 0 THEN 0 ELSE RowsPending[n] + upTo[n - 1]
    IN  upTo[MaxPageSize]

\* The sum over query_stats that GetPerformanceMetrics reports is the rows
\* the repository returned, but for inserts under way or failed: the second
\* record of every call adds nothing to it.
RowsRecorded ==
    returned = stats.rows + stats.dropped + UnderWay

\* Every request is answered.
RequestsAnswered ==
    \A c \in Clients :
        phase[c] \in {"parsed", "prepared", "counted", "fetched"}
            ~> phase[c] = "answered"

=============================================================================
