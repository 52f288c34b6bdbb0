---------------------------- MODULE QueryBuilders ----------------------------
(***************************************************************************)
(* The WHERE clauses of the SQL builders (repository/clickhouse and        *)
(* apiserver/logs.go) and the arguments that go with them.                 *)
(*                                                                         *)
(* A clause is a disjunction of tests, or the negation of one; a test is a *)
(* column and an operator, with a placeholder for the value.  A piece is a *)
(* conjunction of clauses with the list of arguments a builder appends     *)
(* beside them: nothing but their order ties an argument to a placeholder. *)
(* An argument says which column it is meant for.                          *)
(***************************************************************************)
EXTENDS QuerySyntax

CONSTANTS
    FloatTime,    \* what LogQuery's AsFloat makes of a time
    DriverTime    \* what the database driver makes of it

Nothing == [where |-> <<>>, args |-> <<>>]

Clause(tests) == [neg |-> FALSE, tests |-> tests]

Cond(col, op, v) ==
    [where |-> <<Clause(<<[col |-> col, op |-> op]>>)>>,
     args |-> <<[for |-> col, is |-> v]>>]

\* conditions joined with AND
Join(pieces) ==
    [where |-> FlattenSeq([i \in DOMAIN pieces |-> pieces[i].where]),
     args |-> FlattenSeq([i \in DOMAIN pieces |-> pieces[i].args])]

\* conditions joined with OR, in parentheses; none when there are none
AnyOf(pieces) ==
    LET all == Join(pieces)
        tests == FlattenSeq([i \in DOMAIN all.where |-> all.where[i].tests])
    IN  IF pieces = <<>> THEN Nothing ELSE [all EXCEPT !.where = <<Clause(tests)>>]

\* each of them behind a NOT
NoneOf(pieces) ==
    LET all == Join(pieces)
    IN  [all EXCEPT !.where = [i \in DOMAIN @ |-> [@[i] EXCEPT !.neg = TRUE]]]

Given(v, piece) == IF v = "" THEN Nothing ELSE piece

Optional(col, op, v) == Given(v, Cond(col, op, v))

\* the times of a query, when they are given
AsFloat(t) == IF t = "" THEN "" ELSE FloatTime[t]

AsDriverTime(t) == IF t = "" THEN "" ELSE DriverTime[t]

\* a column that is one of a list
In(col, values) == AnyOf([i \in DOMAIN values |-> Cond(col, "=", values[i])])

-----------------------------------------------------------------------------
(***************************************************************************)
(* k8s_filter_builder.go: one clause per field and type, any of the        *)
(* patterns of that type; the clauses of the types are then joined with    *)
(* AND.  The operators name what they compare: a trailing "Fold" is that   *)
(* case is ignored.                                                        *)
(***************************************************************************)
OpOf ==
    [exact |-> "=", prefix |-> "startsWith", suffix |-> "endsWith",
     contains |-> "position", regex |-> "match", wildcard |-> "LIKE"]

Folded(op, icase) ==
    CASE ~icase -> op
      [] icase /\ op = "=" -> "=Fold"
      [] icase /\ op = "startsWith" -> "startsWithFold"
      [] icase /\ op = "endsWith" -> "endsWithFold"
      [] icase /\ op = "position" -> "positionFold"
      [] icase /\ op = "match" -> "matchFold"
      [] icase /\ op = "LIKE" -> "LIKEFold"

OfType(filters, field, type) ==
    Only(filters, {f \in ToSet(filters) : f.field = field /\ f.type = type})
\* mutant of buildNamespaceConditions: every pattern is a condition of its own
EveryNamespaceCondition(filters) ==
    LET some == Only(filters, {f \in ToSet(filters) : f.field = "namespace_name"})
    IN  Join([i \in DOMAIN some |->
                 Cond("namespace_name", OpOf[some[i].type], some[i].pattern)])

buildNamespaceConditions(filters) ==
    LET Group(type) ==
            LET some == OfType(filters, "namespace_name", type)
            IN  AnyOf([i \in DOMAIN some |->
                          Cond("namespace_name", OpOf[type], some[i].pattern)])
    IN  Join(<<Group("exact"), Group("prefix"), Group("regex"), Group("wildcard")>>)

\* an exact name is compared as it is, whatever its case flag
buildPodConditions(filters) ==
    LET Group(type) ==
            LET some == OfType(filters, "pod_name", type)
            IN  AnyOf([i \in DOMAIN some |->
                    Cond("pod_name", Folded(OpOf[type], some[i].icase /\ type # "exact"),
                         some[i].pattern)])
    IN  Join(<<Group("exact"), Group("prefix"), Group("suffix"), Group("contains"),
               Group("regex"), Group("wildcard")>>)

BuildK8sFilterConditions(filters) ==
    Join(<<buildNamespaceConditions(filters), buildPodConditions(filters)>>)

-----------------------------------------------------------------------------
(***************************************************************************)
(* k8s_queries.go: the node name is an argument without a condition.       *)
(***************************************************************************)
NodeNameArgument(q) ==
    Given(q.node, [Nothing EXCEPT !.args = <<[for |-> "node_name", is |-> q.node]>>])

BuildK8sOptimizedQuery(q) ==
    Join(<<Optional("dataset", "=", q.dataset),
           Optional("Timestamp", ">=", AsDriverTime(q.start)),
           Optional("Timestamp", "<=", AsDriverTime(q.end)),
           BuildK8sFilterConditions(q.k8s),
           Optional("Content", "positionFold", q.text),
           Optional("SeverityText", "=", q.severity),
           NodeNameArgument(q),
           Optional("container_name", "=", q.container)>>)
\* mutant of BuildK8sCountQuery: a condition added to the main query only
CountWithoutContainer(q) ==
    Join(<<Optional("dataset", "=", q.dataset),
           Optional("Timestamp", ">=", AsDriverTime(q.start)),
           Optional("Timestamp", "<=", AsDriverTime(q.end)),
           BuildK8sFilterConditions(q.k8s),
           Optional("Content", "positionFold", q.text),
           Optional("SeverityText", "=", q.severity),
           NodeNameArgument(q)>>)

BuildK8sCountQuery(q) ==
    Join(<<Optional("dataset", "=", q.dataset),
           Optional("Timestamp", ">=", AsDriverTime(q.start)),
           Optional("Timestamp", "<=", AsDriverTime(q.end)),
           BuildK8sFilterConditions(q.k8s),
           Optional("Content", "positionFold", q.text),
           Optional("SeverityText", "=", q.severity),
           NodeNameArgument(q),
           Optional("container_name", "=", q.container)>>)

-----------------------------------------------------------------------------
(***************************************************************************)
(* time_queries.go.  The count is built by the same builder after a Reset, *)
(* which keeps the array the arguments are stored in: the arguments of the *)
(* main query, a slice of that array, are overwritten one by one.          *)
(***************************************************************************)
AddTimeCondition(op, t) == Optional("Timestamp", op, AsFloat(t))

applyAdditionalFilters(q) ==
    Join(<<Optional("namespace_name", "=", q.namespace),
           Optional("pod_name", "LIKE", q.pod),
           Optional("container_name", "=", q.container),
           Optional("SeverityText", "=", q.severity),
           Optional("Content", "positionFold", q.text)>>)

BuildOptimizedTimeRangeQuery(q) ==
    Join(<<Optional("dataset", "=", q.dataset),
           AddTimeCondition(">=", q.start),
           AddTimeCondition("<=", q.end),
           applyAdditionalFilters(q)>>)
\* mutant of BuildTimeRangeCountQuery: the times go before the dataset
CountTimesFirst(q) ==
    Join(<<AddTimeCondition(">=", q.start),
           AddTimeCondition("<=", q.end),
           Optional("dataset", "=", q.dataset),
           applyAdditionalFilters(q)>>)

BuildTimeRangeCountQuery(q) ==
    Join(<<Optional("dataset", "=", q.dataset),
           AddTimeCondition(">=", q.start),
           AddTimeCondition("<=", q.end),
           applyAdditionalFilters(q)>>)

\* Reset, and the appends after it
Overwritten(args, by) ==
    [i \in DOMAIN args |-> IF i \in DOMAIN by THEN by[i] ELSE args[i]]

-----------------------------------------------------------------------------
(***************************************************************************)
(* content_search_queries.go: the single parameters as well as the parsed  *)
(* patterns, every one of them joined with AND.  The columns node_name and *)
(* Body are named though the table lacks them.                             *)
(***************************************************************************)
buildSingleK8sCondition(f) ==
    Cond(f.field, Folded(OpOf[f.type], f.icase /\ f.type # "regex"), f.pattern)

buildK8sConditions(q) ==
    Join(<<Optional("namespace_name", "=", q.namespace),
           Optional("pod_name", "=", q.pod),
           Optional("node_name", "=", q.node),
           Optional("container_name", "=", q.container)>>
         \o [i \in DOMAIN q.k8s |-> buildSingleK8sCondition(q.k8s[i])])

\* a phrase is quoted, so that no character of it is an operator of the
\* expression, and stands between word boundaries; a proximity search asks that
\* every word be there, at any distance
buildSingleFilterCondition(f) ==
    CASE f.type = "exact" -> Cond("Content", Folded("position", f.icase), f.pattern)
      [] f.type = "icase" -> Cond("Content", "positionFold", f.pattern)
      [] f.type = "regex" -> Cond("Content", "match", f.pattern)
      [] f.type = "phrase" -> Cond("Content", "matchWhole", f.pattern)
      [] f.type = "wildcard" -> Cond("Body", Folded("LIKE", f.icase), f.pattern)
      [] f.type = "proximity" -> Join([i \in DOMAIN f.words |->
                                         Cond("Content", "position", f.words[i])])

buildFilterConditions(filters) ==
    [i \in DOMAIN filters |-> buildSingleFilterCondition(filters[i])]
\* mutant of buildContentSearchConditions: one clause for AND and OR
JoinedSearchConditions(filters) ==
    LET With(operators) ==
            buildFilterConditions(
                Only(filters, {f \in ToSet(filters) : f.operator \in operators}))
    IN  Join(<<AnyOf(With({"AND", "", "OR"})), NoneOf(With({"NOT"}))>>)

\* the words of AND one by one, those of OR in one clause, NOT before each of its
buildContentSearchConditions(filters) ==
    LET With(operators) ==
            buildFilterConditions(
                Only(filters, {f \in ToSet(filters) : f.operator \in operators}))
    IN  Join(<<Join(With({"AND", ""})), AnyOf(With({"OR"})), NoneOf(With({"NOT"}))>>)

\* the WHERE clause of the main query and of the count
buildWhereClause(q) ==
    Join(<<Optional("dataset", "=", q.dataset),
           Optional("Timestamp", ">=", AsDriverTime(q.start)),
           Optional("Timestamp", "<=", AsDriverTime(q.end)),
           Optional("SeverityText", "=", q.severity),
           buildK8sConditions(q),
           buildContentSearchConditions(q.search)>>)

-----------------------------------------------------------------------------
(***************************************************************************)
(* aggregation_queries.go: the names are compared as they are.             *)
(***************************************************************************)
\* mutant of AggregationWhereClause: the pods only when there are no namespaces
WhereNamespacesOrPods(r) ==
    Join(<<Optional("dataset", "=", r.dataset),
           Optional("Timestamp", ">=", AsDriverTime(r.start)),
           Optional("Timestamp", "<=", AsDriverTime(r.end)),
           IF r.namespaces # <<>> THEN In("namespace_name", r.namespaces)
           ELSE In("pod_name", r.pods),
           Optional("SeverityText", "=", r.severity),
           Optional("Content", "positionFold", r.text)>>)

AggregationWhereClause(r) ==
    Join(<<Optional("dataset", "=", r.dataset),
           Optional("Timestamp", ">=", AsDriverTime(r.start)),
           Optional("Timestamp", "<=", AsDriverTime(r.end)),
           In("namespace_name", r.namespaces),
           In("pod_name", r.pods),
           Optional("SeverityText", "=", r.severity),
           Optional("Content", "positionFold", r.text)>>)

dimensionField ==
    [severity |-> "SeverityText", namespace |-> "namespace_name",
     pod_name |-> "pod_name", node_name |-> "LogAttributes",
     host_name |-> "ResourceAttributes", container_name |-> "container_name",
     dataset |-> "ServiceName", timestamp |-> "Timestamp"]

\* the columns the SELECT clause names; the field of distinct_count is "severity"
buildSelectClause(r) ==
    {dimensionField[d] : d \in ToSet(r.dimensions)}
        \cup {"severity" : f \in ToSet(r.functions) \cap {"distinct_count"}}

\* the name that half of the time buckets are given
buildTimeBucketExpression(r) ==
    IF "timestamp" \in ToSet(r.dimensions) /\ r.bucket \in {"5m", "15m", "6h", "12h"}
    THEN {"time_bucket"} ELSE {}

\* the fields asked for, else the time bucket when there is a time dimension
buildOrderByClause(r) ==
    IF r.orderBy = <<>> /\ "timestamp" \in ToSet(r.dimensions)
    THEN <<"time_bucket">> ELSE r.orderBy

-----------------------------------------------------------------------------
(***************************************************************************)
(* executeLogQuery of apiserver/logs.go, on the table otel_logs: the names *)
(* are looked for in the path of the log file.  A LIKE pattern is the      *)
(* sequence of its parts between two %, where "_" stands for any character;*)
(* the text of the filter is such a pattern as well.                       *)
(***************************************************************************)
LegacyConditions(r) ==
    LET PathLike(before, name, after) ==
            IF name = <<>> THEN Nothing
            ELSE Cond("log.file.path", "path", <<before>> \o name \o <<after>>)
    IN  Join(<<Cond("Timestamp", ">=", AsDriverTime(r.start)),
               Cond("Timestamp", "<=", AsDriverTime(r.end)),
               PathLike("_", r.namespaceParts, "_"),
               PathLike("/", r.podParts, "_"),
               PathLike("_", r.containerParts, "-"),
               Given(r.node, AnyOf(<<Cond("host.name", "=", r.node),
                                     Cond("__hostname__", "=", r.node)>>)),
               Optional("Body", "LIKEText", r.text),
               Optional("SeverityText", "=", r.severity)>>)

\* LIMIT ? OFFSET ?, appended for the main query when the count has run
LimitAndOffset == <<[for |-> "LIMIT", is |-> "limit"], [for |-> "OFFSET", is |-> "offset"]>>
=============================================================================
