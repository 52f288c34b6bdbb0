------------------------------- MODULE QuerySql -------------------------------
(***************************************************************************)
(* From a request to the rows it gets: the three routes that read the logs *)
(*   logs         /datasets/{dataset}/logs, by one of three SQL builders   *)
(*   aggregation  /datasets/{dataset}/aggregation                          *)
(*   legacy       /api/v1alpha1/logs/query, on the table otel_logs         *)
(* parse their parameters, build a count query and a main query with the   *)
(* list of arguments of each, and run them.  The database evaluates a      *)
(* query with the arguments as they are bound, by position, at the time    *)
(* the query runs.                                                         *)
(*                                                                         *)
(* A parameter that is not given is "".  The rows do not change while a    *)
(* request is served, and pages are left out: LogQuery is about both.      *)
(***************************************************************************)
EXTENDS QueryBuilders

CONSTANTS
    Requests,     \* the requests: see MCQuerySql for their fields
    Rows,         \* the log rows: the columns, the words and the host of each
    Times,        \* the time stamps, in order
    DefaultStart, \* a day ago, or an hour ago for the legacy route
    DefaultEnd,   \* now
    Matching,     \* what a pattern matches: [plain, fold], the latter ignoring case
    Liked,        \* what LIKE finds of the texts with a wildcard of its own
    Near,         \* the times that a query cannot tell from a time (see LogQuery)
    Unreadable,   \* the rows whose columns Scan refuses
    Spelling      \* the parts of the names of namespaces, pods and containers

ASSUME QueryAssumption ==
    /\ {DefaultStart, DefaultEnd} \subseteq ToSet(Times)
    /\ \A e \in DOMAIN Entries : Entries[e].text \in DOMAIN Matching
    /\ IsFiniteSet(Rows)

\* no time stamp is that of a parameter that is not given
ASSUME TimesAssumption == "" \notin ToSet(Times)

\* what a condition made of a pattern may find: a name as it is, or what the
\* expression matches; ignoring case, when the pattern says so
Found(e) ==
    (IF KindOf(e) = "exact" THEN {Entries[e].text} ELSE Matching[Entries[e].text].plain)
      \cup (IF Entries[e].icase THEN Matching[Entries[e].text].fold ELSE {})

\* a pattern means all of it, unless it has a star: an underscore in such a
\* pattern stands for itself, and LIKE makes any character of it
ASSUME MeaningAssumption ==
    \A e \in DOMAIN Entries :
        Entries[e].valid /\ ~Entries[e].star => Found(e) \subseteq Entries[e].names

\* a valid pattern finds what it means: an exact one is its own text, unless it
\* ignores case
ASSUME FindingAssumption ==
    \A e \in {e \in DOMAIN Entries : Entries[e].valid} :
        LET text == Entries[e].text
        IN  /\ KindOf(e) = "exact" /\ ~Entries[e].icase => text = e
            /\ Entries[e].names \subseteq
                   CASE Entries[e].icase -> Matching[text].fold
                     [] ~Entries[e].icase /\ KindOf(e) = "exact" -> {text}
                     [] OTHER -> Matching[text].plain

\* a phrase that stands between word boundaries is there
ASSUME PhrasesAssumption == \A row \in Rows : row.phrases \subseteq row.words

\* the names of a row are spelled out
ASSUME SpellingAssumption ==
    \A row \in Rows : {Spelling[row.pod_name], Spelling[row.namespace_name],
                       Spelling[row.container_name]} \subseteq Seq(STRING)

\* lists of patterns and blanks, and searches; only a pod's pattern has a flag for
\* its case.  The aggregation has lists of names
IsRequest(r) ==
    \/ /\ r.api = "logs" /\ {r.start, r.end} \subseteq ToSet(Times) \cup {""}
       /\ {r.namespace, r.namespaces}
              \subseteq Seq({e \in DOMAIN Entries : ~Entries[e].icase} \cup {""})
       /\ {r.podName, r.podNames} \subseteq Seq(DOMAIN Entries \cup {""})
       /\ IsSearch(r.filter) /\ IsSearch(r.search)
    \/ /\ r.api = "aggregation" /\ {r.namespaces, r.pods} \subseteq Seq(STRING)
       /\ {r.start, r.end} \subseteq ToSet(Times) \cup {""}
    \/ r.api = "legacy"

ASSUME RequestsAssumption == \A r \in Requests : IsRequest(r)

\* a row with a word that a parenthesis is attached to has the word
ASSUME WordsAssumption ==
    \A r \in Requests : r.api = "logs" => \A search \in {r.filter, r.search} :
        search.kind = "boolean" /\ search.form = "product" =>
            \A f \in ToSet(search.formula), row \in Rows : \A i \in DOMAIN f.words :
                FactorWord(f, i) \in row.words => f.words[i] \in row.words

VARIABLES
    request,  \* the request
    stage,    \* how far it has got
    query,    \* what the builders get, once the request is parsed
    main,     \* the main query
    count,    \* the count query
    total,    \* the number that the count query found
    rows      \* the rows that the main query found

vars == <<request, stage, query, main, count, total, rows>>

Stages == {"received", "refused", "parsed", "mainBuilt", "countBuilt", "counted",
           "ready", "failed", "done"}

Sql(table, piece, names, tail) ==
    [table |-> table, where |-> piece.where, args |-> piece.args, names |-> names,
     tail |-> tail]

NoSql == Sql("", Nothing, {}, <<>>)

NoQuery == [k8s |-> <<>>, search |-> <<>>]

Init ==
    /\ request \in Requests
    /\ stage = "received"
    /\ query = NoQuery
    /\ main = NoSql /\ count = NoSql
    /\ total = 0 /\ rows = {}

-----------------------------------------------------------------------------
(***************************************************************************)
(* The database.                                                           *)
(***************************************************************************)
MaterializedColumns ==
    {"Timestamp", "TimestampTime", "SeverityText", "SeverityNumber", "ServiceName",
     "Content", "dataset", "host_ip", "namespace_name", "pod_name", "container_name",
     "container_id", "pod_id"}

OtelColumns ==
    {"Timestamp", "SeverityText", "ServiceName", "Body", "log.file.path", "host.name",
     "__hostname__"}

Columns(table) == IF table = "logs_mv" THEN MaterializedColumns ELSE OtelColumns

\* the path of the log file of a container: pod_namespace_container-id.log
Path(row) ==
    <<"/">> \o Spelling[row.pod_name] \o <<"_">> \o Spelling[row.namespace_name]
        \o <<"_">> \o Spelling[row.container_name] \o <<"-", "id">>

\* path LIKE '%pattern%': a "_" is the last or the first character of any part
PathLike(path, pattern) ==
    \E i \in 0..(Len(path) - Len(pattern)) : \A j \in DOMAIN pattern :
        pattern[j] = "_" \/ path[i + j] = pattern[j]

Cell(row, col) ==
    CASE col \in {"Content", "Body"} -> row.words
      [] col = "host.name" -> {row.host}
      [] col = "__hostname__" -> {}
      [] OTHER -> {row[col]}

Plain(v) == IF v \in DOMAIN Matching THEN Matching[v].plain ELSE {v}

Fold(v) == IF v \in DOMAIN Matching THEN Matching[v].fold ELSE {v}

\* the values for which an operator holds, given its argument
Fits(op, v) ==
    CASE op \in {"=", "position"} -> {v}
      [] op = "LIKEText" -> IF v \in DOMAIN Liked THEN Liked[v] ELSE {v}
      [] op = ">=" -> {Times[i] : i \in {i \in DOMAIN Times : \E j \in 1..i : Times[j] = v}}
      [] op = "<=" -> {Times[i] : i \in {i \in DOMAIN Times :
                                            \E j \in i..Len(Times) : Times[j] = v}}
      [] op \in {"startsWith", "endsWith", "match", "LIKE"} -> Plain(v)
      [] OTHER -> Fold(v)

\* a time and what the query holds of it have the same times before and after
\* them, but for those that are near
ASSUME RoundingAssumption ==
    \A t \in ToSet(Times) :
        /\ {AsFloat(t), AsDriverTime(t)} \subseteq ToSet(Times)
        /\ \A held \in {AsFloat(t), AsDriverTime(t)}, op \in {">=", "<="} :
               /\ Fits(op, held) \subseteq Fits(op, t) \cup Near[t]
               /\ Fits(op, t) \subseteq Fits(op, held) \cup Near[t]

Passes(row, test, v) ==
    CASE test.op = "path" -> PathLike(Path(row), v)
      [] test.op = "matchWhole" -> v \in row.phrases
      [] OTHER -> Cell(row, test.col) \cap Fits(test.op, v) # {}

\* the placeholders of conditions, by the column each is compared with
Slots(where) ==
    FlattenSeq([i \in DOMAIN where |->
        [j \in DOMAIN where[i].tests |-> where[i].tests[j].col]])

Placeholders(sql) == Slots(sql.where) \o sql.tail

\* how many placeholders come before the clause i
Offset(sql, i) == Len(Slots(SubSeq(sql.where, 1, i - 1)))

\* a query that names an unknown column or lacks an argument fails
Runs(sql) ==
    /\ ToSet(Slots(sql.where)) \cup sql.names \subseteq Columns(sql.table)
    /\ Len(Placeholders(sql)) <= Len(sql.args)

ClauseHolds(row, sql, i) ==
    LET clause == sql.where[i]
    IN  clause.neg # \E j \in DOMAIN clause.tests :
                        Passes(row, clause.tests[j], sql.args[Offset(sql, i) + j].is)

Selected(sql) == {row \in Rows : \A i \in DOMAIN sql.where : ClauseHolds(row, sql, i)}

-----------------------------------------------------------------------------
(***************************************************************************)
(* The logs route.                                                         *)
(***************************************************************************)
normalizeSeverityLevel(level) ==
    LET upper == ToUpper(level)
    IN  CASE upper \in {"ERROR", "ERR", "E"} -> "ERROR"
          [] upper \in {"WARN", "WARNING", "W"} -> "WARN"
          [] upper \in {"INFO", "INFORMATION", "I"} -> "INFO"
          [] upper \in {"DEBUG", "D"} -> "DEBUG"
          [] OTHER -> upper

\* a comma-separated parameter as it was written: only that of a single pattern is
\* the name of anything
Raw(list) ==
    CASE list = <<>> -> ""
      [] Len(list) = 1 /\ list[1] # "" -> list[1]
      [] OTHER -> "(list)"

\* the text of the filter parameter; only that of a single word is in any row
RawFilter(search) ==
    CASE search.kind = "none" -> ""
      [] search.kind = "simple" /\ Len(search.terms) = 1
             /\ search.terms[1].mark = "" -> search.terms[1].word
      [] OTHER -> "(expression)"

ParsedNames ==
    LET namespaces == parseK8sParameters(request.namespace, request.namespaces)
        pods == parseK8sParameters(request.podName, request.podNames)
    IN  ParseK8sFilters(parseNamespaceInput(request.namespace, namespaces),
                        parsePodInput(request.podName, pods))

ParsedSearch == validateAndParseContentSearch(request)

\* QueryLogsByDataset, validateQueryRequest and preprocessQueryRequest
ParseRequest ==
    /\ stage = "received" /\ request.api = "logs"
    /\ ParsedNames.ok /\ ParsedSearch.ok /\ request.dataset # ""
    /\ LET untimed == request.start = "" /\ request.end = ""
       IN  query' = [dataset |-> request.dataset,
                     start |-> IF untimed THEN DefaultStart ELSE request.start,
                     end |-> IF untimed THEN DefaultEnd ELSE request.end,
                     namespace |-> Raw(request.namespace), pod |-> Raw(request.podName),
                     container |-> request.container, node |-> request.node,
                     severity |-> normalizeSeverityLevel(request.severity),
                     text |-> RawFilter(request.filter),
                     k8s |-> ParsedNames.filters, search |-> ParsedSearch.filters]
    /\ stage' = "parsed"
    /\ UNCHANGED <<request, main, count, total, rows>>

RefuseRequest ==
    /\ stage = "received" /\ request.api = "logs"
    /\ ~ParsedNames.ok \/ ~ParsedSearch.ok \/ request.dataset = ""
    /\ stage' = "refused"
    /\ UNCHANGED <<request, query, main, count, total, rows>>

\* a search goes before the names, and the names before the times
Builder ==
    CASE query.search # <<>> -> "content"
      [] query.search = <<>> /\ query.k8s # <<>> -> "k8s"
      [] OTHER -> "time"

BuildMainQuery ==
    /\ stage = "parsed" /\ request.api = "logs"
    /\ main' = Sql("logs_mv",
                   CASE Builder = "content" -> buildWhereClause(query)
                     [] Builder = "k8s" -> BuildK8sOptimizedQuery(query)
                     [] Builder = "time" -> BuildOptimizedTimeRangeQuery(query),
                   {}, <<>>)
    /\ stage' = "mainBuilt"
    /\ UNCHANGED <<request, query, count, total, rows>>

BuildCountQuery ==
    /\ stage = "mainBuilt"
    /\ count' = Sql("logs_mv",
                    CASE Builder = "content" -> buildWhereClause(query)
                      [] Builder = "k8s" -> BuildK8sCountQuery(query)
                      [] Builder = "time" -> BuildTimeRangeCountQuery(query),
                    {}, <<>>)
    /\ main' = IF Builder = "time"
               THEN [main EXCEPT !.args = Overwritten(@, count'.args)]
               ELSE main
    /\ stage' = "countBuilt"
    /\ UNCHANGED <<request, query, total, rows>>

\* the count runs first
CountRows ==
    /\ stage = "countBuilt"
    /\ Runs(count)
    /\ total' = Cardinality(Selected(count))
    /\ stage' = IF request.api = "legacy" THEN "counted" ELSE "ready"
    /\ UNCHANGED <<request, query, main, count, rows>>

CountFails ==
    /\ stage = "countBuilt"
    /\ ~Runs(count)
    /\ stage' = "failed"
    /\ UNCHANGED <<request, query, main, count, total, rows>>

\* the legacy route goes on with the next row when it cannot scan one
Skipped == IF request.api = "legacy" THEN Selected(main) \cap Unreadable ELSE {}

\* the logs route gives up
Unscanned == request.api = "logs" /\ Selected(main) \cap Unreadable # {}

FetchRows ==
    /\ stage = "ready"
    /\ Runs(main) /\ ~Unscanned
    /\ rows' = Selected(main) \ Skipped
    /\ stage' = "done"
    /\ UNCHANGED <<request, query, main, count, total>>

FetchFails ==
    /\ stage = "ready"
    /\ ~Runs(main) \/ Unscanned
    /\ stage' = "failed"
    /\ UNCHANGED <<request, query, main, count, total, rows>>

-----------------------------------------------------------------------------
(***************************************************************************)
(* The aggregation route, which has no count: "rows" are those it groups.  *)
(***************************************************************************)
ValidateAggregation ==
    /\ stage = "received" /\ request.api = "aggregation"
    /\ stage' = IF ValidateAggregationRequest(request) THEN "parsed" ELSE "refused"
    /\ UNCHANGED <<request, query, main, count, total, rows>>

BuildAggregationQuery ==
    /\ stage = "parsed" /\ request.api = "aggregation"
    /\ LET asked == [request EXCEPT !.functions = parseFunctions(@)]
       IN  main' = Sql("logs_mv", AggregationWhereClause(request),
                       buildSelectClause(asked)
                         \cup (ToSet(buildOrderByClause(request))
                                 \ buildTimeBucketExpression(request)),
                       <<>>)
    /\ stage' = "ready"
    /\ UNCHANGED <<request, query, count, total, rows>>

-----------------------------------------------------------------------------
(***************************************************************************)
(* The legacy route.  A time that does not parse is taken for none.        *)
(***************************************************************************)
parseTimeRange(r) ==
    [start |-> IF r.start \in ToSet(Times) THEN r.start ELSE DefaultStart,
     end |-> IF r.end \in ToSet(Times) THEN r.end ELSE DefaultEnd]

LegacyWhere(r) ==
    LET Parts(name) == IF name = "" THEN <<>> ELSE Spelling[name]
        range == parseTimeRange(r)
    IN  LegacyConditions(
            [start |-> range.start, end |-> range.end,
             namespaceParts |-> Parts(r.namespace), podParts |-> Parts(r.pod),
             containerParts |-> Parts(r.container), node |-> r.node, text |-> r.text,
             severity |-> r.severity])

BuildLegacyCount ==
    /\ stage = "received" /\ request.api = "legacy"
    /\ count' = Sql("otel_logs", LegacyWhere(request), {}, <<>>)
    /\ stage' = "countBuilt"
    /\ UNCHANGED <<request, query, main, total, rows>>

BuildLegacyMain ==
    /\ stage = "counted"
    /\ main' = [count EXCEPT !.args = @ \o LimitAndOffset, !.tail = <<"LIMIT", "OFFSET">>]
    /\ stage' = "ready"
    /\ UNCHANGED <<request, query, count, total, rows>>

-----------------------------------------------------------------------------
Next ==
    \/ ParseRequest \/ RefuseRequest
    \/ BuildMainQuery \/ BuildCountQuery
    \/ CountRows \/ CountFails \/ FetchRows \/ FetchFails
    \/ ValidateAggregation \/ BuildAggregationQuery
    \/ BuildLegacyCount \/ BuildLegacyMain

Spec == Init /\ [][Next]_vars

-----------------------------------------------------------------------------
(***************************************************************************)
(* What the parameters ask for.                                            *)
(***************************************************************************)
Is(v, wanted) == wanted = "" \/ v = wanted

\* between the two times, or near one of them
Within(row, start, end) ==
    /\ start # "" => row.Timestamp \in Fits(">=", start) \cup Near[start]
    /\ end # "" => row.Timestamp \in Fits("<=", end) \cup Near[end]

AtEdge(row, start, end) ==
    \E t \in {start, end} : t # "" /\ row.Timestamp \in Near[t]

Names == cleanStringArray(request.namespace \o request.namespaces)

Pods == cleanStringArray(request.podName \o request.podNames)

AnyMeant(name, entries) ==
    entries = <<>> \/ \E e \in ToSet(entries) : name \in Entries[e].names

\* any of the namespaces and any of the pods, and each of the other parameters;
\* not the node, which the table logs_mv does not have
LogsScope(row) ==
    /\ row.dataset = request.dataset
    /\ Within(row, query.start, query.end)
    /\ AnyMeant(row.namespace_name, Names) /\ AnyMeant(row.pod_name, Pods)
    /\ Is(row.container_name, request.container)
    /\ Is(row.SeverityText, query.severity)

AggregationScope(row) ==
    /\ row.dataset = request.dataset
    /\ Within(row, request.start, request.end)
    /\ request.namespaces # <<>> => Contains(request.namespaces, row.namespace_name)
    /\ request.pods # <<>> => Contains(request.pods, row.pod_name)
    /\ Is(row.SeverityText, request.severity)
    /\ request.text # "" => row.words \cap Fold(request.text) # {}

\* a text with a wildcard asks for nothing in particular
LegacyScope(row) ==
    /\ Within(row, parseTimeRange(request).start, parseTimeRange(request).end)
    /\ Is(row.host, request.node) /\ Is(row.SeverityText, request.severity)
    /\ request.text \notin {""} \cup DOMAIN Liked => request.text \in row.words

LegacyNames(row) ==
    /\ Is(row.namespace_name, request.namespace)
    /\ Is(row.pod_name, request.pod)
    /\ Is(row.container_name, request.container)

\* the content search, or the filter when there is none
Search == IF request.search.kind # "none" THEN request.search ELSE request.filter

\* a phrase is looked for between word boundaries
Says(row, literal) ==
    literal.neg # (literal.word \in IF Search.kind = "phrase" THEN row.phrases ELSE row.words)

TermHolds(row, term) ==
    CASE term.mark = "icase:" -> row.words \cap Fold(term.word) # {}
      [] term.mark = "NOT:" -> term.word \notin row.words
      [] term.mark = "" /\ term.wild -> row.words \cap Plain(term.word) # {}
      [] OTHER -> term.word \in row.words

\* a boolean expression or a list of phrases was written from a formula, a sum
\* of products (any of the clauses) or a product of sums (every factor)
Meant(row) ==
    CASE Search.kind = "none" -> TRUE
      [] Search.kind = "simple" /\ request.operator # "OR" ->
           \A term \in ToSet(Search.terms) : TermHolds(row, term)
      [] Search.kind = "simple" /\ request.operator = "OR" ->
           Search.terms = <<>> \/ \E term \in ToSet(Search.terms) : TermHolds(row, term)
      [] Search.kind \in {"boolean", "phrase"} /\ Search.form = "sum" ->
           \E clause \in ToSet(Search.formula) :
               \A literal \in ToSet(clause) : Says(row, literal)
      [] Search.kind \in {"boolean", "phrase"} /\ Search.form = "product" ->
           \A factor \in ToSet(Search.formula) :
               factor.neg # \E word \in ToSet(factor.words) : word \in row.words
      [] Search.kind = "regex" -> row.words \cap Plain(Search.pattern) # {}
      [] Search.kind = "proximity" -> ToSet(Search.words) \subseteq row.words

\* the node name that the K8s builder appends without a placeholder
NodeUnplaced == request.api = "logs" /\ request.node # "" /\ Builder = "k8s"

-----------------------------------------------------------------------------
TypeOK ==
    /\ stage \in Stages
    /\ rows \subseteq Rows
    /\ total \in 0..Cardinality(Rows)
    /\ Len(query.k8s) <= MaxFilterCount
    /\ calculateComplexity(query.search) <= 10 * MaxQueryComplexity

\* Every placeholder of a query gets the value meant for it, when the query runs:
\* the count of the time builder overwrites the arguments of its main query, and
\* each builder appends conditions and arguments to two lists.  Except for the
\* node name of the K8s builder, an argument without a placeholder.
ArgumentsFit ==
    LET Fit(sql) == Placeholders(sql) = [i \in DOMAIN sql.args |-> sql.args[i].for]
    IN  /\ stage = "ready" /\ ~NodeUnplaced => Fit(main)
        /\ stage = "countBuilt" /\ ~NodeUnplaced => Fit(count)

\* The total of an answer is the number of rows that the main query selects, those
\* that the legacy route then skips among them: the two queries are written apart
\* and must keep the same conditions.
CountAgrees ==
    stage = "done" /\ request.api # "aggregation" =>
        total = Cardinality(rows \cup Skipped)

\* a pattern whose condition finds names that it does not mean
Loose(e) == ~(Found(e) \subseteq Entries[e].names)

\* No route returns a row outside of what the parameters name: of another
\* dataset, severity or container, further outside of the time range than the query
\* can tell, or of a namespace or a pod that no pattern of the request means.  (But
\* for a node name beside patterns, and for the names and the wildcards of the
\* legacy route.)
FiltersNeverWiden ==
    stage = "done" =>
        CASE request.api = "logs" ->
               ~NodeUnplaced /\ (\A e \in ToSet(Names \o Pods) : ~Loose(e)) =>
                   \A row \in rows : LogsScope(row)
          [] request.api = "aggregation" -> \A row \in rows : AggregationScope(row)
          [] request.api = "legacy" -> \A row \in rows : LegacyScope(row)

\* not the searches that the flat list of filters cannot hold: a negation of phrases
\* or of parentheses, an operator inside of a phrase, NOT: in a simple search, and a
\* boolean expression or a list of phrases that says nothing in particular
Sound ==
    CASE Search.kind = "simple" -> \A t \in ToSet(Search.terms) : t.mark # "NOT:"
      [] Search.kind = "boolean" -> Search.form = "sum" \/
           (Search.form = "product" /\ \A f \in ToSet(Search.formula) : ~f.neg)
      [] Search.kind = "phrase" -> Search.form = "sum" /\
           \A clause \in ToSet(Search.formula) : \A l \in ToSet(clause) :
               ~l.neg /\ InsideOf(l.word) = {}
      [] OTHER -> TRUE

\* No row is returned that the search does not ask for, though its filters keep
\* neither the order nor the parentheses of the expression.
SearchNeverWidens ==
    stage = "done" /\ request.api = "logs" /\ Sound => \A row \in rows : Meant(row)

\* the searches whose filters say all of what was written; a search of blanks
\* makes no filters, and the filter's text is then compared as it is
Exact ==
    /\ Sound
    /\ query.search = <<>> => query.text = ""
    /\ CASE Search.kind \in {"boolean", "phrase"} ->
               /\ Len(Search.formula) = 1 \/ Search.form = "product"
               /\ Search.form = "product" =>
                     \A f \in ToSet(Search.formula) : Len(f.words) = 1 /\ ~f.attached
         [] OTHER -> TRUE

\* the names whose conditions say all of what was written: patterns of several
\* types are asked for together, an exact name keeps its case, and a search also
\* compares the single parameters as they are
NamesExact ==
    LET Single(list) == Len(list) <= 1 /\ \A e \in ToSet(list) :
                            e # "" /\ KindOf(e) = "exact" /\ ~Entries[e].icase
    IN  CASE Builder = "k8s" ->
               /\ \A f, g \in ToSet(query.k8s) : f.field = g.field => f.type = g.type
               /\ \A f \in ToSet(query.k8s) : ~(f.type = "exact" /\ f.icase)
               /\ ~NodeUnplaced
          [] Builder = "content" ->
               /\ \A f, g \in ToSet(query.k8s) : f.field = g.field => f = g
               /\ \A f \in ToSet(query.k8s) : ~(f.type = "regex" /\ f.icase)
               /\ Single(request.namespace) /\ Single(request.podName)
          [] Builder = "time" -> request.namespace = <<>> /\ request.podName = <<>>

\* Every row that the parameters and the search ask for, and that is not at the edge
\* of the time range, is returned, or grouped, when they are of the forms above;
\* always by the other two routes, where the text of a name in the path of the log
\* file is never missed.  (But for the rows that the legacy route cannot scan.)
NothingMissed ==
    stage = "done" =>
        CASE request.api = "logs" ->
               Exact /\ NamesExact =>
                   {row \in Rows : LogsScope(row) /\ Meant(row)
                                     /\ ~AtEdge(row, query.start, query.end)} \subseteq rows
          [] request.api = "aggregation" ->
               {row \in Rows : AggregationScope(row)
                                 /\ ~AtEdge(row, request.start, request.end)} \subseteq rows
          [] request.api = "legacy" ->
               LET range == parseTimeRange(request)
               IN  request.text \notin DOMAIN Liked =>
                       {row \in Rows \ Unreadable :
                           LegacyScope(row) /\ LegacyNames(row)
                             /\ ~AtEdge(row, range.start, range.end)} \subseteq rows

\* "Exclusion: NOT:debug" (content_search_validator.go:258): a search of which
\* every term must hold returns no row with a word that it excludes.
SearchExcludes ==
    stage = "done" /\ request.api = "logs" /\ Search.kind = "simple"
        /\ request.operator # "OR" =>
            \A term \in ToSet(Search.terms) : term.mark = "NOT:" =>
                \A row \in rows : term.word \notin row.words

=============================================================================
