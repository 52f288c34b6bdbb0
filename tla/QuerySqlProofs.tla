--------------------------- MODULE QuerySqlProofs ---------------------------
(***************************************************************************)
(* The statements of a request on their way to the database, for every     *)
(* value of the constants: their arguments fit them, the total is that of  *)
(* the rows they select, no row of an answer is outside of what the        *)
(* request asks for, by its parameters or by its search, and no row that   *)
(* it asks for is missed. They rest on one inductive invariant, IInv, by   *)
(* which each stage of the handler has made what the request gives, and on *)
(* what the builders make (QueryBuilderProofs).                            *)
(***************************************************************************)
EXTENDS QueryBuilderProofs, FiniteSetTheorems

-----------------------------------------------------------------------------
(* What a statement selects and what its tests say *)

\* Arguments overwritten by themselves are the same.
LEMMA OverwrittenSame ==
    ASSUME NEW s, IsList(s)
    PROVE  Overwritten(s, s) = s
  BY ListLen DEF Overwritten

\* What a statement selects, in terms of Meets.
LEMMA SelectedIs ==
    ASSUME NEW sql
    PROVE  Selected(sql) = {row \in Rows : AllMeet(row, sql.where, sql.args)}
  BY DEF Selected, ClauseHolds, Offset, AllMeet, Meets

\* Arguments after the placeholders' own change nothing for the conditions:
\* those of LIMIT and OFFSET.
LEMMA MoreArguments ==
    ASSUME NEW w, NEW a, Fit(w, a), NEW b, IsList(b), NEW row
    PROVE  AllMeet(row, w, a \o b) <=> AllMeet(row, w, a)
  <1>1. DOMAIN w = 1 .. Len(w)
    BY ListLen DEF Fit, IsWhere
  <1>2. \A k \in 1 .. Len(a) : (a \o b)[k] = a[k]
    BY ListConcat DEF Fit
  <1>3. ASSUME NEW i \in 1 .. Len(w)
        PROVE  Meets(row, w, a \o b, i) <=> Meets(row, w, a, i)
    <2> DEFINE n == Len(Slots(SubSeq(w, 1, i - 1)))
    <2>1. \A j \in DOMAIN w[i].tests : n + j \in 1 .. Len(a)
      BY ArgumentIn
    <2> HIDE DEF n
    <2>2. \A j \in DOMAIN w[i].tests : (a \o b)[n + j] = a[n + j]
      BY <2>1, <1>2
    <2>3. (\E j \in DOMAIN w[i].tests :
               Passes(row, w[i].tests[j], (a \o b)[n + j].is))
            <=> (\E j \in DOMAIN w[i].tests : Passes(row, w[i].tests[j], a[n + j].is))
      BY <2>2
    <2>4. QED
      BY <2>3 DEF Meets, n
  <1>4. QED
    BY <1>1, <1>3 DEF AllMeet

\* The columns whose value is not compared as it stands.
Whole == {"Content", "Body", "host.name", "__hostname__"}

\* A row that passes an equality has that value.
LEMMA EqualPasses ==
    ASSUME NEW row, NEW c, c \notin Whole, NEW v,
           Passes(row, [col |-> c, op |-> "="], v)
    PROVE  row[c] = v
  <1>1. Cell(row, c) = {row[c]}
    BY DEF Cell, Whole
  <1>2. Fits("=", v) = {v}
    BY DEF Fits
  <1>3. Cell(row, c) \cap Fits("=", v) # {}
    BY DEF Passes
  <1>4. QED
    BY <1>1, <1>2, <1>3

\* So it does when the parameter is given.
LEMMA EqualMet ==
    ASSUME NEW row, NEW c, c \notin Whole, NEW v, Met(row, c, "=", v)
    PROVE  Is(row[c], v)
  BY EqualPasses DEF Met, Is

\* A row that passes a bound on the time is on its side.
LEMMA TimePasses ==
    ASSUME NEW row, NEW op \in {">=", "<="}, NEW v,
           Passes(row, [col |-> "Timestamp", op |-> op], v)
    PROVE  row.Timestamp \in Fits(op, v)
  <1>1. Cell(row, "Timestamp") = {row.Timestamp}
    BY DEF Cell
  <1>2. Cell(row, "Timestamp") \cap Fits(op, v) # {}
    BY DEF Passes
  <1>3. QED
    BY <1>1, <1>2

\* What the builders hold of a time that is given or not.
Held(v) == {AsFloat(v), AsDriverTime(v)}

Timely(v) == v \in ToSet(Times) \cup {""}

\* A time that is not given is not held as one.
LEMMA NotHeld ==
    ASSUME NEW h \in Held("")
    PROVE  h = ""
  BY DEF Held, AsFloat, AsDriverTime

\* What is held of a time has the same times before and after it, but for those
\* that are near.
LEMMA HeldFits ==
    ASSUME NEW v, Timely(v), v # "", NEW h \in Held(v), NEW op \in {">=", "<="}
    PROVE  /\ h # ""
           /\ Fits(op, h) \subseteq Fits(op, v) \cup Near[v]
           /\ Fits(op, v) \subseteq Fits(op, h) \cup Near[v]
  <1>1. v \in ToSet(Times)
    BY DEF Timely
  <1>2. h \in {AsFloat(v), AsDriverTime(v)}
    BY DEF Held
  <1>3. h \in ToSet(Times)
    BY <1>1, <1>2, RoundingAssumption
  <1>4. QED
    BY <1>1, <1>2, <1>3, RoundingAssumption, TimesAssumption

\* One bound holds the row on the right side of the time or near it.
LEMMA BoundMet ==
    ASSUME NEW row, NEW v, Timely(v), NEW h \in Held(v), NEW op \in {">=", "<="},
           Met(row, "Timestamp", op, h)
    PROVE  v # "" => row.Timestamp \in Fits(op, v) \cup Near[v]
  <1> SUFFICES ASSUME v # ""
               PROVE  row.Timestamp \in Fits(op, v) \cup Near[v]
    OBVIOUS
  <1>1. h # "" /\ Fits(op, h) \subseteq Fits(op, v) \cup Near[v]
    BY HeldFits
  <1>2. row.Timestamp \in Fits(op, h)
    BY <1>1, TimePasses DEF Met
  <1>3. QED
    BY <1>1, <1>2

\* Both bounds hold it within the range.
LEMMA TimesMet ==
    ASSUME NEW row, NEW s, NEW e, Timely(s), Timely(e), NEW g \in Held(s),
           NEW h \in Held(e), Met(row, "Timestamp", ">=", g),
           Met(row, "Timestamp", "<=", h)
    PROVE  Within(row, s, e)
  BY BoundMet DEF Within

\* A row that contains a text in any case has one of its forms.
LEMMA TextMet ==
    ASSUME NEW row, NEW v, Met(row, "Content", "positionFold", v)
    PROVE  v # "" => row.words \cap Fold(v) # {}
  <1> SUFFICES ASSUME v # ""
               PROVE  row.words \cap Fold(v) # {}
    OBVIOUS
  <1>1. Cell(row, "Content") = row.words
    BY DEF Cell
  <1>2. Fits("positionFold", v) = Fold(v)
    BY DEF Fits
  <1>3. Cell(row, "Content") \cap Fits("positionFold", v) # {}
    BY DEF Passes, Met
  <1>4. QED
    BY <1>1, <1>2, <1>3

\* A row that contains a text has it, when no character of it is a wildcard.
LEMMA BodyMet ==
    ASSUME NEW row, NEW v, v \notin DOMAIN Liked, Met(row, "Body", "LIKEText", v)
    PROVE  v # "" => v \in row.words
  <1> SUFFICES ASSUME v # ""
               PROVE  v \in row.words
    OBVIOUS
  <1>1. Cell(row, "Body") = row.words
    BY DEF Cell
  <1>2. Fits("LIKEText", v) = {v}
    BY DEF Fits
  <1>3. Cell(row, "Body") \cap Fits("LIKEText", v) # {}
    BY DEF Passes, Met
  <1>4. QED
    BY <1>1, <1>2, <1>3

\* A row that one of the two columns places on a host is there.
LEMMA HostMet ==
    ASSUME NEW row, NEW v, v = "" \/ AtHost(row, v)
    PROVE  Is(row.host, v)
  <1>1. Cell(row, "host.name") = {row.host} /\ Cell(row, "__hostname__") = {}
    BY DEF Cell
  <1>2. Fits("=", v) = {v}
    BY DEF Fits
  <1>3. ~Passes(row, [col |-> "__hostname__", op |-> "="], v)
    BY <1>1 DEF Passes
  <1>4. Passes(row, [col |-> "host.name", op |-> "="], v) => row.host = v
    BY <1>1, <1>2 DEF Passes
  <1>5. QED
    BY <1>3, <1>4 DEF Is, AtHost

-----------------------------------------------------------------------------
(* What the patterns find *)

\* What the operator made for the kind of a pattern finds is what the pattern
\* can find at all.
LEMMA FoundBy ==
    ASSUME NEW row, NEW c, c \notin Whole, NEW e \in DOMAIN Entries,
           NEW icase \in BOOLEAN, icase => Entries[e].icase,
           Passes(row, [col |-> c, op |-> Folded(OpOf[KindOf(e)], icase)],
                  Entries[e].text)
    PROVE  row[c] \in Found(e)
  <1> DEFINE k == KindOf(e)
             t == Entries[e].text
             o == Folded(OpOf[k], icase)
  <1>1. k \in {"exact", "regex", "wildcard"}
    BY LimitsAssumption DEF KindOf
  <1>2. OpOf[k] =
            CASE k =
                "exact" -> "=" [] k =
                    "regex" -> "match" [] k = "wildcard" -> "LIKE"
    BY <1>1 DEF OpOf
  <1>3. CASE icase
    <2>1. o =
              CASE k =
                  "exact" -> "=Fold" [] k =
                      "regex" -> "matchFold" [] k = "wildcard" -> "LIKEFold"
      BY <1>1, <1>2, <1>3 DEF Folded
    <2>2. o \notin {"path", "matchWhole"} /\ Fits(o, t) = Fold(t)
      BY <1>1, <2>1 DEF Fits
    <2>3. Fold(t) = Matching[t].fold
      BY QueryAssumption DEF Fold
    <2>4. Cell(row, c) = {row[c]}
      BY DEF Cell, Whole
    <2> HIDE DEF o, t
    <2>5. row[c] \in Fits(o, t)
      BY <2>2, <2>4 DEF Passes, o, t
    <2>6. QED
      BY <2>2, <2>3, <2>5, <1>3 DEF Found, t
  <1>4. CASE ~icase
    <2>1. o =
              CASE k =
                  "exact" -> "=" [] k =
                      "regex" -> "match" [] k = "wildcard" -> "LIKE"
      BY <1>1, <1>2, <1>4 DEF Folded
    <2>2. o \notin {"path", "matchWhole"} /\ Fits(o, t) = IF k = "exact" THEN {t} ELSE Plain(t)
      BY <1>1, <2>1 DEF Fits
    <2>3. Plain(t) = Matching[t].plain
      BY QueryAssumption DEF Plain
    <2>4. Cell(row, c) = {row[c]}
      BY DEF Cell, Whole
    <2> HIDE DEF o, t
    <2>5. row[c] \in Fits(o, t)
      BY <2>2, <2>4 DEF Passes, o, t
    <2> HIDE DEF k
    <2>6. QED
      BY <2>2, <2>3, <2>5 DEF Found, t, k
  <1>5. QED
    BY <1>3, <1>4

\* A row that passes a namespace's filter is one that its pattern finds.
LEMMA NamespacePasses ==
    ASSUME NEW row, NEW e \in DOMAIN Entries,
           PassesNamespace(row, parseNamespaceFilter(e))
    PROVE  row.namespace_name \in Found(e)
  <1>1. Passes(row,
               [col |-> "namespace_name",
                op |-> Folded(OpOf[KindOf(e)], FALSE)],
               Entries[e].text)
    BY DEF PassesNamespace, parseNamespaceFilter, Folded
  <1>2. QED
    BY <1>1, FoundBy DEF Whole

\* A row that passes a pod's filter is one that its pattern finds.
LEMMA PodPasses ==
    ASSUME NEW row, NEW e \in DOMAIN Entries, PassesPod(row, parsePodFilter(e))
    PROVE  row.pod_name \in Found(e)
  <1> DEFINE b == Entries[e].icase /\ KindOf(e) # "exact"
  <1>1. Passes(row,
               [col |-> "pod_name",
                op |-> Folded(OpOf[KindOf(e)], b)],
               Entries[e].text)
    BY DEF PassesPod, parsePodFilter
  <1>2. b \in BOOLEAN /\ (b => Entries[e].icase)
    BY LimitsAssumption
  <1> HIDE DEF b
  <1>3. QED
    BY <1>1, <1>2, FoundBy DEF Whole

\* So it is with the content builder, for namespaces.
LEMMA SingleNamespacePasses ==
    ASSUME NEW row, NEW e \in DOMAIN Entries,
           PassesSingle(row, parseNamespaceFilter(e))
    PROVE  row.namespace_name \in Found(e)
  <1>1. Passes(row,
               [col |-> "namespace_name",
                op |-> Folded(OpOf[KindOf(e)], FALSE /\ KindOf(e) # "regex")],
               Entries[e].text)
    BY DEF PassesSingle, parseNamespaceFilter
  <1>2. Passes(row,
               [col |-> "namespace_name",
                op |-> Folded(OpOf[KindOf(e)], FALSE)],
               Entries[e].text)
    BY <1>1
  <1>3. QED
    BY <1>2, FoundBy DEF Whole

\* So it is with the content builder, for pods.
LEMMA SinglePodPasses ==
    ASSUME NEW row, NEW e \in DOMAIN Entries,
           PassesSingle(row, parsePodFilter(e))
    PROVE  row.pod_name \in Found(e)
  <1> DEFINE b == Entries[e].icase /\ KindOf(e) # "regex"
  <1>1. Passes(row,
               [col |-> "pod_name",
                op |-> Folded(OpOf[KindOf(e)], b)],
               Entries[e].text)
    BY DEF PassesSingle, parsePodFilter
  <1>2. b \in BOOLEAN /\ (b => Entries[e].icase)
    BY LimitsAssumption
  <1> HIDE DEF b
  <1>3. QED
    BY <1>1, <1>2, FoundBy DEF Whole

\* The filters of some names.
FiltersOf(names, pods) ==
    {parseNamespaceFilter(e) : e \in names}
      \cup {parsePodFilter(e) : e \in pods}

\* One of the patterns finds the value, or there are none.
FoundIn(v, entries) == entries = {} \/ \E e \in entries : v \in Found(e)

\* A row that passes the Kubernetes builder's conditions is found by one of
\* the names.
LEMMA K8sFound ==
    ASSUME NEW names, NEW pods, names \cup pods \subseteq DOMAIN Entries,
           NEW filters, ToSet(filters) = FiltersOf(names, pods), NEW row,
           PassesNames(row, filters)
    PROVE  FoundIn(row.namespace_name, names) /\ FoundIn(row.pod_name, pods)
  <1>1. \A e \in DOMAIN Entries : /\ parseNamespaceFilter(e).field = "namespace_name"
                                  /\ parsePodFilter(e).field = "pod_name"
                                  /\ parseNamespaceFilter(e).type = KindOf(e)
                                  /\ parsePodFilter(e).type = KindOf(e)
    BY DEF parseNamespaceFilter, parsePodFilter
  <1>2. \A e \in DOMAIN Entries :
            KindOf(e) \in NamespaceTypes /\ KindOf(e) \in PodTypes
    BY LimitsAssumption DEF KindOf, NamespaceTypes, PodTypes
  <1>3. ASSUME NEW e \in names
        PROVE  \E x \in names : row.namespace_name \in Found(x)
    <2> DEFINE f == parseNamespaceFilter(e)
    <2>1. /\ f \in ToSet(filters)
          /\ f.field = "namespace_name"
          /\ f.type \in NamespaceTypes
      BY <1>1, <1>2 DEF FiltersOf
    <2> HIDE DEF f
    <2>2. PICK g \in ToSet(filters) :
                   g.field = "namespace_name" /\ PassesNamespace(row, g)
      BY <2>1 DEF PassesNames
    <2>3. g \in {parseNamespaceFilter(x) : x \in names}
      BY <1>1, <2>2 DEF FiltersOf
    <2>4. PICK x \in names : g = parseNamespaceFilter(x)
      BY <2>3
    <2>5. QED
      BY <2>2, <2>4, NamespacePasses
  <1>4. ASSUME NEW e \in pods
        PROVE  \E x \in pods : row.pod_name \in Found(x)
    <2> DEFINE f == parsePodFilter(e)
    <2>1. f \in ToSet(filters) /\ f.field = "pod_name" /\ f.type \in PodTypes
      BY <1>1, <1>2 DEF FiltersOf
    <2> HIDE DEF f
    <2>2. PICK g \in ToSet(filters) : g.field = "pod_name" /\ PassesPod(row, g)
      BY <2>1 DEF PassesNames
    <2>3. g \in {parsePodFilter(x) : x \in pods}
      BY <1>1, <2>2 DEF FiltersOf
    <2>4. PICK x \in pods : g = parsePodFilter(x)
      BY <2>3
    <2>5. QED
      BY <2>2, <2>4, PodPasses
  <1>5. QED
    BY <1>3, <1>4 DEF FoundIn

\* A row that passes the content builder's conditions is found by one of the
\* names.
LEMMA SingleFound ==
    ASSUME NEW names, NEW pods, names \cup pods \subseteq DOMAIN Entries,
           NEW filters, ToSet(filters) = FiltersOf(names, pods), NEW row,
           \A f \in ToSet(filters) : PassesSingle(row, f)
    PROVE  FoundIn(row.namespace_name, names) /\ FoundIn(row.pod_name, pods)
  <1>1. \A e \in names : PassesSingle(row, parseNamespaceFilter(e))
    BY DEF FiltersOf
  <1>2. \A e \in pods : PassesSingle(row, parsePodFilter(e))
    BY DEF FiltersOf
  <1>3. \A e \in names : row.namespace_name \in Found(e)
    BY <1>1, SingleNamespacePasses
  <1>4. \A e \in pods : row.pod_name \in Found(e)
    BY <1>2, SinglePodPasses
  <1>5. QED
    BY <1>3, <1>4 DEF FoundIn

-----------------------------------------------------------------------------
(* The query of a request *)

\* The query that ParseRequest makes of a request.
AskedQuery ==
    LET untimed == request.start = "" /\ request.end = ""
       IN         [dataset |-> request.dataset,
                     start |-> IF untimed THEN DefaultStart ELSE request.start,
                     end |-> IF untimed THEN DefaultEnd ELSE request.end,
                     namespace |-> Raw(request.namespace),
                     pod |-> Raw(request.podName),
                     container |-> request.container, node |-> request.node,
                     severity |-> normalizeSeverityLevel(request.severity),
                     text |-> RawFilter(request.filter),
                     k8s |-> ParsedNames.filters, search |-> ParsedSearch.filters]

\* What is known of the two lists of a query.
Typed ==
    /\ IsList(query.k8s) /\ Len(query.k8s) <= MaxFilterCount
    /\ AreFilters(query.search)
    /\ calculateComplexity(query.search) <= 10 * MaxQueryComplexity

\* The query before there is one.
LEMMA NoQueryTyped ==
    ASSUME query = NoQuery
    PROVE  Typed
  <1>1. query.k8s = <<>> /\ query.search = <<>>
    BY DEF NoQuery
  <1>2. Len(<<>>) = 0 /\ IsList(<<>>)
    BY ListEmpty
  <1>3. calculateComplexity(<<>>) = 0
    BY NoFilters, ComplexityIs
  <1>4. 0 <= MaxFilterCount /\ 0 <= 10 * MaxQueryComplexity
    BY LimitsAssumption
  <1>5. QED
    BY <1>1, <1>2, <1>3, <1>4, NoFilters DEF Typed

\* The lists of names that a request has, and the two that are made of them.
LEMMA GivenNames ==
    ASSUME request.api = "logs", IsRequest(request)
    PROVE  /\ IsList(request.namespace) /\ IsList(request.namespaces)
           /\ IsList(request.podName) /\ IsList(request.podNames)
           /\ IsList(Names) /\ IsList(Pods)
           /\ ToSet(Names) = (ToSet(request.namespace) \cup ToSet(request.namespaces)) \ {""}
           /\ ToSet(Pods) = (ToSet(request.podName) \cup ToSet(request.podNames)) \ {""}
           /\ ToSet(Names) \cup ToSet(Pods) \subseteq DOMAIN Entries
           /\ \A e \in ToSet(Names) : ~Entries[e].icase
  <1> DEFINE D == {e \in DOMAIN Entries : ~Entries[e].icase} \cup {""}
             E == DOMAIN Entries \cup {""}
  <1>1. /\ request.namespace \in Seq(D) /\ request.namespaces \in Seq(D)
        /\ request.podName \in Seq(E) /\ request.podNames \in Seq(E)
    BY DEF IsRequest
  <1>2. /\ \A e \in D : e \in E /\ (e # "" => e \in DOMAIN Entries /\ ~Entries[e].icase)
        /\ \A e \in E : e # "" => e \in DOMAIN Entries
    OBVIOUS
  <1> HIDE DEF D, E
  <1>3. /\ IsList(request.namespace) /\ IsList(request.namespaces)
        /\ IsList(request.podName) /\ IsList(request.podNames)
    BY <1>1, ListIs
  <1>4. \A S : \A t \in Seq(S) : ToSet(t) \subseteq S
    BY DEF ToSet
  <1>5. /\ ToSet(request.namespace) \subseteq D /\ ToSet(request.namespaces) \subseteq D
        /\ ToSet(request.podName) \subseteq E /\ ToSet(request.podNames) \subseteq E
    BY <1>1, <1>4
  <1>6. /\ IsList(Names)
        /\ ToSet(Names) = (ToSet(request.namespace) \cup ToSet(request.namespaces)) \ {""}
    BY <1>3, ParametersAre DEF Names
  <1>7. /\ IsList(Pods)
        /\ ToSet(Pods) = (ToSet(request.podName) \cup ToSet(request.podNames)) \ {""}
    BY <1>3, ParametersAre DEF Pods
  <1>8. \A e \in ToSet(Names) : e \in DOMAIN Entries /\ ~Entries[e].icase
    BY <1>2, <1>5, <1>6
  <1>9. \A e \in ToSet(Pods) : e \in DOMAIN Entries
    BY <1>2, <1>5, <1>7
  <1>10. QED
    BY <1>3, <1>6, <1>7, <1>8, <1>9

\* The names of a request that is not refused parse to their filters.
LEMMA AskedNames ==
    ASSUME request.api = "logs", IsRequest(request), ParsedNames.ok
    PROVE  /\ IsList(ParsedNames.filters)
           /\ Len(ParsedNames.filters) <= MaxFilterCount
           /\ ToSet(Names) \cup ToSet(Pods) \subseteq DOMAIN Entries
           /\ IsList(Names) /\ IsList(Pods)
           /\ \A e \in ToSet(Names) \cup ToSet(Pods) : Entries[e].valid
           /\ ToSet(ParsedNames.filters) = FiltersOf(ToSet(Names), ToSet(Pods))
  <1> DEFINE a ==
                 parseNamespaceInput(
                     request.namespace,
                     parseK8sParameters(request.namespace, request.namespaces))
             b ==
                 parseNamespaceInput(
                     request.podName, parseK8sParameters(request.podName, request.podNames))
  <1>1. /\ IsList(request.namespace) /\ IsList(request.namespaces)
        /\ IsList(request.podName) /\ IsList(request.podNames)
        /\ IsList(Names) /\ IsList(Pods)
        /\ ToSet(Names) \cup ToSet(Pods) \subseteq DOMAIN Entries
    BY GivenNames
  <1>2. IsList(a) /\ ToSet(a) = ToSet(Names)
    BY <1>1, ParametersAre DEF Names
  <1>3. IsList(b) /\ ToSet(b) = ToSet(Pods)
    BY <1>1, ParametersAre DEF Pods
  <1>4. ParsedNames = ParseK8sFilters(a, b)
    BY DEF ParsedNames, parsePodInput
  <1> HIDE DEF a, b
  <1>5. /\ IsList(ParseK8sFilters(a, b).filters)
        /\ Len(ParseK8sFilters(a, b).filters) <= MaxFilterCount
        /\ \A e \in ToSet(a) \cup ToSet(b) : Entries[e].valid
        /\ ToSet(ParseK8sFilters(a, b).filters) = FiltersOf(ToSet(a), ToSet(b))
    BY <1>1, <1>2, <1>3, <1>4, K8sFilters DEF FiltersOf
  <1>6. QED
    BY <1>1, <1>2, <1>3, <1>4, <1>5

\* The search of a request that is not refused parses to filters within the
\* limit.
LEMMA AskedSearch ==
    ASSUME request.api = "logs", IsRequest(request), ParsedSearch.ok
    PROVE  /\ AreFilters(ParsedSearch.filters)
           /\ calculateComplexity(ParsedSearch.filters) <= 10 * MaxQueryComplexity
  <1> DEFINE s ==
                 IF request.search.kind # "none" THEN request.search ELSE request.filter
             o == IF request.operator = "OR" THEN "OR" ELSE "AND"
  <1>1. IsSearch(s)
    BY DEF IsRequest
  <1>2. ParsedSearch = ParseContentSearch(s, o)
    BY DEF ParsedSearch, validateAndParseContentSearch
  <1> HIDE DEF s, o
  <1>3. QED
    BY <1>1, <1>2, SearchParsed

\* The query of a request is of its type.
LEMMA AskedTyped ==
    ASSUME request.api = "logs", IsRequest(request), ParsedNames.ok,
           ParsedSearch.ok, query = AskedQuery
    PROVE  Typed
  <1>1. query.k8s = ParsedNames.filters /\ query.search = ParsedSearch.filters
    BY DEF AskedQuery
  <1>2. QED
    BY <1>1, AskedNames, AskedSearch DEF Typed

-----------------------------------------------------------------------------
(* The inductive invariant *)

\* The statement of the logs route: both builds of a builder give it.
LogsSql ==
    Sql("logs_mv",
        CASE Builder = "content" -> buildWhereClause(query)
          [] Builder = "k8s" -> BuildK8sOptimizedQuery(query)
          [] Builder = "time" -> BuildOptimizedTimeRangeQuery(query),
        {}, <<>>)

\* The counting statement of the first route.
LegacySql == Sql("otel_logs", LegacyWhere(request), {}, <<>>)

\* The statement that reads a page of it.
PagedSql ==
    [LegacySql EXCEPT !.args = @ \o LimitAndOffset, !.tail = <<"LIMIT", "OFFSET">>]

\* The stages that a request of a route goes through.
StagesOf(api) ==
    CASE api = "logs" -> Stages \ {"counted"}
      [] api = "aggregation" ->
             {"received", "refused", "parsed", "ready", "failed", "done"}
      [] api = "legacy" ->
             {"received", "countBuilt", "counted", "ready", "failed", "done"}

\* A request is at a stage of its route.
Progress ==
    /\ request \in Requests /\ IsRequest(request)
    /\ stage \in StagesOf(request.api)

\* The query is that of the request from its parse on, and the parse was good.
Asked ==
    IF request.api = "logs" /\ stage \notin {"received", "refused"}
    THEN /\ ParsedNames.ok /\ ParsedSearch.ok /\ request.dataset # ""
         /\ query = AskedQuery
    ELSE query = NoQuery

\* Both statements of the logs route are the one that the query gives.
LogsBuilt ==
    request.api = "logs" =>
      /\ stage \in {"mainBuilt", "countBuilt", "ready", "done"} =>
             main = LogsSql
      /\ stage \in {"countBuilt", "ready", "done"} => count = LogsSql

\* The aggregation's statement is that of a request that names a data set.
AggregationBuilt ==
    request.api = "aggregation" =>
      /\ stage \in {"parsed", "ready", "done"} => request.dataset # ""
      /\ stage \in {"ready", "done"} =>
            main = Sql("logs_mv", AggregationWhereClause(request), main.names, <<>>)

\* The first route's statements are that of the request, and its page.
LegacyBuilt ==
    request.api = "legacy" =>
      /\ stage \in {"countBuilt", "counted", "ready", "done"} =>
             count = LegacySql
      /\ stage \in {"ready", "done"} => main = PagedSql

\* The total is the number of rows that the counting statement selects.
Counted ==
    /\ total \in 0 .. Cardinality(Rows)
    /\ request.api # "aggregation" /\ stage \in {"counted", "ready", "done"} =>
           total = Cardinality(Selected(count))

\* The rows are those that the main statement selects, which the database could
\* run, and that are not skipped.
Fetched ==
    /\ rows \subseteq Rows
    /\ stage = "done" => rows = Selected(main) \ Skipped /\ Runs(main)

\* The inductive invariant: what each stage has made is what the request
\* gives.
IInv ==
    /\ Progress
    /\ Asked
    /\ LogsBuilt
    /\ AggregationBuilt
    /\ LegacyBuilt
    /\ Counted
    /\ Fetched

\* Zero is a count.
LEMMA NothingCounted ==
    0 \in 0 .. Cardinality(Rows)
  BY FS_CardinalityType, QueryAssumption

\* A statement selects rows of the table, so their number is a count.
LEMMA SelectedCounted ==
    ASSUME NEW sql
    PROVE  /\ Selected(sql) \subseteq Rows
           /\ Cardinality(Selected(sql)) \in 0 .. Cardinality(Rows)
  <1>1. Selected(sql) \subseteq Rows
    BY DEF Selected
  <1>2. /\ IsFiniteSet(Selected(sql))
        /\ Cardinality(Selected(sql)) <= Cardinality(Rows)
        /\ Cardinality(Selected(sql)) \in Nat /\ Cardinality(Rows) \in Nat
    BY <1>1, QueryAssumption, FS_Subset, FS_CardinalityType
  <1>3. QED
    BY <1>1, <1>2

\* It holds before the first step.
LEMMA Start ==
    Init => IInv
  <1> SUFFICES ASSUME Init
               PROVE  IInv
    OBVIOUS
  <1> USE DEF Init
  <1>1. Progress
    BY RequestsAssumption DEF Progress, StagesOf, Stages, IsRequest
  <1>2. Asked
    BY DEF Asked
  <1>3. LogsBuilt /\ AggregationBuilt /\ LegacyBuilt
    BY DEF LogsBuilt, AggregationBuilt, LegacyBuilt
  <1>4. Counted
    BY NothingCounted DEF Counted
  <1>5. Fetched
    BY DEF Fetched
  <1>6. QED
    BY <1>1, <1>2, <1>3, <1>4, <1>5 DEF IInv

\* The lists of the query are of their types at every stage.
LEMMA AskedQueryTyped ==
    ASSUME Asked, Progress
    PROVE  Typed
  BY AskedTyped, NoQueryTyped DEF Asked, Progress

\* The parse of a request keeps it.
LEMMA ParseRequestStep ==
    ASSUME IInv, ParseRequest
    PROVE  IInv'
  <1> USE DEF IInv, ParseRequest
  <1>1. Progress'
    BY DEF Progress, StagesOf, Stages, IsRequest
  <1>2. Asked'
    <2>1. query' = AskedQuery
      BY DEF AskedQuery
    <2>2. /\ AskedQuery' = AskedQuery
          /\ ParsedNames' = ParsedNames
          /\ ParsedSearch' = ParsedSearch
      BY DEF AskedQuery, ParsedNames, ParsedSearch
    <2>3. QED
      BY <2>1, <2>2 DEF Asked
  <1>3. (LogsBuilt /\ AggregationBuilt /\ LegacyBuilt)'
    BY DEF LogsBuilt, AggregationBuilt, LegacyBuilt
  <1>4. Counted'
    BY DEF Counted
  <1>5. Fetched'
    BY DEF Fetched
  <1>6. QED
    BY <1>1, <1>2, <1>3, <1>4, <1>5

\* A step that leaves the request and the query alone.
Kept == UNCHANGED <<request, query>>

\* Such a step keeps what was asked.
LEMMA AskedKept ==
    ASSUME Asked, Kept,
           stage' \in {"received", "refused"} <=>
               stage \in {"received", "refused"}
    PROVE  Asked'
  <1>1. /\ AskedQuery' = AskedQuery
        /\ ParsedNames' = ParsedNames
        /\ ParsedSearch' = ParsedSearch
    BY DEF AskedQuery, ParsedNames, ParsedSearch, Kept
  <1>2. QED
    BY <1>1 DEF Asked, Kept

\* It keeps what is built of it as well.
LEMMA SqlKept ==
    ASSUME Kept
    PROVE  /\ LogsSql' = LogsSql
           /\ LegacySql' = LegacySql
           /\ PagedSql' = PagedSql
           /\ Builder' = Builder
  BY DEF Kept, LogsSql, LegacySql, PagedSql, Builder

\* A refusal keeps the invariant.
LEMMA RefuseRequestStep ==
    ASSUME IInv, RefuseRequest
    PROVE  IInv'
  <1> USE DEF IInv, RefuseRequest
  <1>1. Progress'
    BY DEF Progress, StagesOf, Stages, IsRequest
  <1>2. Asked'
    BY AskedKept DEF Kept
  <1>3. (LogsBuilt /\ AggregationBuilt /\ LegacyBuilt)'
    BY DEF LogsBuilt, AggregationBuilt, LegacyBuilt
  <1>4. Counted'
    BY DEF Counted
  <1>5. Fetched'
    BY DEF Fetched
  <1>6. QED
    BY <1>1, <1>2, <1>3, <1>4, <1>5

\* The build of the main statement keeps it.
LEMMA BuildMainQueryStep ==
    ASSUME IInv, BuildMainQuery
    PROVE  IInv'
  <1> USE DEF IInv, BuildMainQuery
  <1>1. Kept
    BY DEF Kept
  <1>2. Progress'
    BY DEF Progress, StagesOf, Stages, IsRequest
  <1>3. Asked'
    BY <1>1, AskedKept
  <1>4. LogsBuilt'
    <2>1. main' = LogsSql
      BY DEF LogsSql
    <2>2. QED
      BY <2>1, <1>1, SqlKept DEF LogsBuilt
  <1>5. (AggregationBuilt /\ LegacyBuilt)'
    BY DEF AggregationBuilt, LegacyBuilt
  <1>6. Counted'
    BY DEF Counted
  <1>7. Fetched'
    BY DEF Fetched
  <1>8. QED
    BY <1>2, <1>3, <1>4, <1>5, <1>6, <1>7

\* The build of the counting statement, from the same query, keeps it.
LEMMA BuildCountQueryStep ==
    ASSUME IInv, BuildCountQuery
    PROVE  IInv'
  <1> USE DEF IInv, BuildCountQuery
  <1>1. Kept
    BY DEF Kept
  <1>2. request.api = "logs"
    BY DEF Progress, StagesOf, IsRequest
  <1>3. Progress'
    BY <1>2 DEF Progress, StagesOf, Stages, IsRequest
  <1>4. Asked'
    BY <1>1, AskedKept
  <1>5. LogsBuilt'
    <2>1. main = LogsSql
      BY <1>2 DEF LogsBuilt
    <2>2. count' = LogsSql
      BY DEF LogsSql, BuildK8sCountQuery, BuildK8sOptimizedQuery,
             BuildTimeRangeCountQuery, BuildOptimizedTimeRangeQuery
    <2>3. main' = LogsSql
      <3>1. CASE Builder # "time"
        BY <2>1, <3>1
      <3>2. CASE Builder = "time"
        <4> DEFINE s == BuildOptimizedTimeRangeQuery(query)
        <4>1. LogsSql = Sql("logs_mv", s, {}, <<>>)
          BY <3>2 DEF LogsSql
        <4>2. IsList(s.args)
          BY TimePiece DEF FitPiece, Fit
        <4> HIDE DEF s
        <4>3. LogsSql.args = s.args
          BY <4>1 DEF Sql
        <4>4. count'.args = LogsSql.args
          BY <2>2
        <4>5. main.args = s.args /\ count'.args = s.args
          BY <2>1, <4>3, <4>4
        <4>6. main' = [main EXCEPT !.args = s.args]
          BY <3>2, <4>2, <4>5, OverwrittenSame
        <4>7. QED
          BY <2>1, <4>1, <4>6 DEF Sql
      <3>3. QED
        BY <3>1, <3>2
    <2>4. QED
      BY <2>2, <2>3, <1>1, SqlKept DEF LogsBuilt
  <1>6. (AggregationBuilt /\ LegacyBuilt)'
    BY <1>2 DEF AggregationBuilt, LegacyBuilt
  <1>7. Counted'
    BY <1>2 DEF Counted
  <1>8. Fetched'
    BY DEF Fetched
  <1>9. QED
    BY <1>3, <1>4, <1>5, <1>6, <1>7, <1>8

\* The count keeps it.
LEMMA CountRowsStep ==
    ASSUME IInv, CountRows
    PROVE  IInv'
  <1> USE DEF IInv, CountRows
  <1>1. Kept
    BY DEF Kept
  <1>2. Progress'
    BY DEF Progress, StagesOf, Stages, IsRequest
  <1>3. Asked'
    BY <1>1, AskedKept
  <1>4. LogsBuilt'
    BY <1>1, SqlKept DEF LogsBuilt
  <1>5. (AggregationBuilt /\ LegacyBuilt)'
    BY <1>1, SqlKept
       DEF AggregationBuilt, LegacyBuilt, Progress, StagesOf, IsRequest
  <1>6. Counted'
    <2>1. Selected(count)' = Selected(count)
      BY DEF Selected, ClauseHolds, Offset
    <2>2. QED
      BY <2>1, SelectedCounted DEF Counted
  <1>7. Fetched'
    BY DEF Fetched
  <1>8. QED
    BY <1>2, <1>3, <1>4, <1>5, <1>6, <1>7

\* A failure of either statement keeps it.
LEMMA FailedStep ==
    ASSUME IInv, CountFails \/ FetchFails
    PROVE  IInv'
  <1> USE DEF IInv, CountFails, FetchFails
  <1>1. Kept
    BY DEF Kept
  <1>2. Progress'
    BY DEF Progress, StagesOf, Stages, IsRequest
  <1>3. Asked'
    BY <1>1, AskedKept
  <1>4. (LogsBuilt /\ AggregationBuilt /\ LegacyBuilt)'
    BY DEF LogsBuilt, AggregationBuilt, LegacyBuilt
  <1>5. Counted'
    BY DEF Counted
  <1>6. Fetched'
    BY DEF Fetched
  <1>7. QED
    BY <1>2, <1>3, <1>4, <1>5, <1>6

\* The reading of the rows keeps it.
LEMMA FetchRowsStep ==
    ASSUME IInv, FetchRows
    PROVE  IInv'
  <1> USE DEF IInv, FetchRows
  <1>1. Kept
    BY DEF Kept
  <1>2. Progress'
    BY DEF Progress, StagesOf, Stages, IsRequest
  <1>3. Asked'
    BY <1>1, AskedKept
  <1>4. LogsBuilt'
    BY <1>1, SqlKept DEF LogsBuilt
  <1>5. (AggregationBuilt /\ LegacyBuilt)'
    BY <1>1, SqlKept DEF AggregationBuilt, LegacyBuilt
  <1>6. Counted'
    <2>1. Selected(count)' = Selected(count)
      BY DEF Selected, ClauseHolds, Offset
    <2>2. QED
      BY <2>1 DEF Counted
  <1>7. Fetched'
    <2>1. Selected(main)' = Selected(main)
      BY DEF Selected, ClauseHolds, Offset
    <2>2. Runs(main)'
      BY DEF Runs, Placeholders
    <2>3. Skipped' = Skipped
      BY <2>1 DEF Skipped
    <2>4. rows' = Selected(main) \ Skipped /\ Selected(main) \subseteq Rows
      BY SelectedCounted
    <2>5. QED
      BY <2>1, <2>2, <2>3, <2>4 DEF Fetched
  <1>8. QED
    BY <1>2, <1>3, <1>4, <1>5, <1>6, <1>7

\* The validation of an aggregation keeps it.
LEMMA ValidateAggregationStep ==
    ASSUME IInv, ValidateAggregation
    PROVE  IInv'
  <1> USE DEF IInv, ValidateAggregation
  <1>1. Progress'
    BY DEF Progress, StagesOf, Stages, IsRequest
  <1>2. Asked'
    BY DEF Asked
  <1>3. LogsBuilt' /\ LegacyBuilt'
    BY DEF LogsBuilt, LegacyBuilt
  <1>4. AggregationBuilt'
    BY DEF AggregationBuilt, ValidateAggregationRequest
  <1>5. Counted'
    BY DEF Counted
  <1>6. Fetched'
    BY DEF Fetched
  <1>7. QED
    BY <1>1, <1>2, <1>3, <1>4, <1>5, <1>6

\* The build of its statement keeps it.
LEMMA BuildAggregationQueryStep ==
    ASSUME IInv, BuildAggregationQuery
    PROVE  IInv'
  <1> USE DEF IInv, BuildAggregationQuery
  <1>1. Progress'
    BY DEF Progress, StagesOf, Stages, IsRequest
  <1>2. Asked'
    BY DEF Asked
  <1>3. LogsBuilt' /\ LegacyBuilt'
    BY DEF LogsBuilt, LegacyBuilt
  <1>4. AggregationBuilt'
    <2>1. \E names :
              main' =
                  Sql("logs_mv", AggregationWhereClause(request), names, <<>>)
      OBVIOUS
    <2>2. main' =
              Sql("logs_mv", AggregationWhereClause(request), main'.names, <<>>)
      BY <2>1 DEF Sql
    <2>3. QED
      BY <2>2 DEF AggregationBuilt
  <1>5. Counted'
    BY DEF Counted
  <1>6. Fetched'
    BY DEF Fetched
  <1>7. QED
    BY <1>1, <1>2, <1>3, <1>4, <1>5, <1>6

\* The build of the first route's counting statement keeps it.
LEMMA BuildLegacyCountStep ==
    ASSUME IInv, BuildLegacyCount
    PROVE  IInv'
  <1> USE DEF IInv, BuildLegacyCount
  <1>1. Progress'
    BY DEF Progress, StagesOf, Stages, IsRequest
  <1>2. Asked'
    BY DEF Asked
  <1>3. LogsBuilt' /\ AggregationBuilt'
    BY DEF LogsBuilt, AggregationBuilt
  <1>4. LegacyBuilt'
    <2>1. count' = LegacySql /\ LegacySql' = LegacySql
      BY DEF LegacySql
    <2>2. QED
      BY <2>1 DEF LegacyBuilt
  <1>5. Counted'
    BY DEF Counted
  <1>6. Fetched'
    BY DEF Fetched
  <1>7. QED
    BY <1>1, <1>2, <1>3, <1>4, <1>5, <1>6

\* The build of its page keeps it.
LEMMA BuildLegacyMainStep ==
    ASSUME IInv, BuildLegacyMain
    PROVE  IInv'
  <1> USE DEF IInv, BuildLegacyMain
  <1>1. Kept
    BY DEF Kept
  <1>2. request.api = "legacy"
    BY DEF Progress, StagesOf, Stages, IsRequest
  <1>3. Progress'
    BY <1>2 DEF Progress, StagesOf, Stages, IsRequest
  <1>4. Asked'
    BY <1>1, AskedKept
  <1>5. LogsBuilt' /\ AggregationBuilt'
    BY <1>2 DEF LogsBuilt, AggregationBuilt
  <1>6. LegacyBuilt'
    <2>1. count = LegacySql
      BY <1>2 DEF LegacyBuilt
    <2>2. main' = PagedSql
      BY <2>1 DEF PagedSql
    <2>3. QED
      BY <2>1, <2>2, <1>1, SqlKept DEF LegacyBuilt
  <1>7. Counted'
    <2>1. Selected(count)' = Selected(count)
      BY DEF Selected, ClauseHolds, Offset
    <2>2. QED
      BY <2>1 DEF Counted
  <1>8. Fetched'
    BY DEF Fetched
  <1>9. QED
    BY <1>3, <1>4, <1>5, <1>6, <1>7, <1>8

\* So does a step that changes nothing.
LEMMA StutterStep ==
    ASSUME IInv, UNCHANGED vars
    PROVE  IInv'
  <1> USE DEF IInv, vars
  <1>1. Kept
    BY DEF Kept
  <1>2. Progress'
    BY DEF Progress
  <1>3. Asked'
    BY <1>1, AskedKept
  <1>4. LogsBuilt' /\ AggregationBuilt' /\ LegacyBuilt'
    BY <1>1, SqlKept DEF LogsBuilt, AggregationBuilt, LegacyBuilt
  <1>5. Selected(count)' = Selected(count) /\ Selected(main)' = Selected(main)
    BY DEF Selected, ClauseHolds, Offset
  <1>6. Runs(main)' <=> Runs(main)
    BY DEF Runs, Placeholders
  <1>7. Counted'
    BY <1>5 DEF Counted
  <1>8. Fetched'
    BY <1>5, <1>6 DEF Fetched, Skipped
  <1>9. QED
    BY <1>2, <1>3, <1>4, <1>7, <1>8

\* So every step keeps it.
LEMMA Step ==
    IInv /\ [Next]_vars => IInv'
  BY ParseRequestStep, RefuseRequestStep, BuildMainQueryStep,
     BuildCountQueryStep, CountRowsStep, FailedStep, FetchRowsStep,
     ValidateAggregationStep, BuildAggregationQueryStep, BuildLegacyCountStep,
     BuildLegacyMainStep, StutterStep
     DEF Next

\* What each stage has made is what the request gives, in every reachable
\* state: no step of the handler mixes the parts of two statements or loses a
\* parameter on the way.
THEOREM Invariance == Spec => []IInv
  BY Start, Step, PTL DEF Spec

-----------------------------------------------------------------------------
(* Types *)

\* selectBuilder takes one of three builders: the content builder for every
\* search, and the time builder only when no name is asked for.
LEMMA BuilderIs ==
    /\ Builder \in {"content", "k8s", "time"}
    /\ (Builder # "content" => query.search = <<>>)
    /\ (Builder = "time" => query.k8s = <<>>)
  BY DEF Builder

\* The type invariant follows.
LEMMA TypeIsOK ==
    IInv => TypeOK
  <1> SUFFICES ASSUME IInv
               PROVE  TypeOK
    OBVIOUS
  <1>1. Typed
    BY AskedQueryTyped DEF IInv
  <1>2. stage \in Stages
    BY DEF IInv, Progress, StagesOf, Stages, IsRequest
  <1>3. QED
    BY <1>1, <1>2 DEF IInv, Counted, Fetched, TypeOK, Typed

\* The variables stay of their types: the stages, the lists within the limits
\* of the parsers, the total and the rows of the table.
THEOREM TypeCorrect == Spec => []TypeOK
  BY Invariance, TypeIsOK, PTL

-----------------------------------------------------------------------------
(* Arguments and placeholders *)

\* The piece of the logs route.
LogsPiece ==
    CASE Builder = "content" -> buildWhereClause(query)
      [] Builder = "k8s" -> BuildK8sOptimizedQuery(query)
      [] Builder = "time" -> BuildOptimizedTimeRangeQuery(query)

\* A request of the logs route that has been parsed.
Ready ==
    /\ request.api = "logs"
    /\ stage \notin {"received", "refused"}
    /\ Asked
    /\ Progress

\* What the query has of the request, field by field.
LEMMA AskedIs ==
    ASSUME Ready
    PROVE  /\ query.k8s = ParsedNames.filters
           /\ query.search = ParsedSearch.filters
           /\ query.node = request.node
           /\ query.dataset = request.dataset
           /\ query.container = request.container /\ request.dataset # ""
  <1>1. query = AskedQuery /\ request.dataset # ""
    BY DEF Ready, Asked
  <1>2. QED
    BY <1>1 DEF AskedQuery

\* Whichever builder is taken, its arguments fit, unless the Kubernetes
\* builder was given a node.
LEMMA LogsPieceFits ==
    ASSUME Ready, ~NodeUnplaced
    PROVE  FitPiece(LogsPiece)
  <1>1. Typed
    BY AskedQueryTyped DEF Ready
  <1>2. CASE Builder = "content"
    <2>1. LogsPiece = buildWhereClause(query)
      BY <1>2 DEF LogsPiece
    <2>2. QED
      BY <1>1, <2>1, ContentPiece DEF Typed
  <1>3. CASE Builder = "k8s"
    <2>1. LogsPiece = BuildK8sOptimizedQuery(query)
      BY <1>3 DEF LogsPiece
    <2>2. query.node = request.node
      BY AskedIs
    <2>3. query.node = ""
      BY <1>3, <2>2 DEF NodeUnplaced, Ready
    <2>4. QED
      BY <1>1, <2>1, <2>3, K8sPiece DEF Typed
  <1>4. CASE Builder = "time"
    <2>1. LogsPiece = BuildOptimizedTimeRangeQuery(query)
      BY <1>4 DEF LogsPiece
    <2>2. QED
      BY <2>1, TimePiece
  <1>5. QED
    BY <1>2, <1>3, <1>4, BuilderIs

\* The arguments of a statement fit it.
Fits1(sql) == Placeholders(sql) = ForsOf(sql.args)

\* They do when its piece fits.
LEMMA PieceFits ==
    ASSUME NEW t, NEW p, NEW n, FitPiece(p)
    PROVE  Fits1(Sql(t, p, n, <<>>))
  <1> DEFINE s == Sql(t, p, n, <<>>)
             w == p.where
             a == p.args
  <1>1. s.where = w /\ s.args = a /\ s.tail = <<>>
    BY DEF Sql
  <1>2. Fit(w, a)
    BY DEF FitPiece
  <1> HIDE DEF s, w, a
  <1>3. Slots(w) \o <<>> = Slots(w)
    BY <1>2, SlotsList, EmptyConcat DEF Fit
  <1>4. Placeholders(s) = ForsOf(a)
    BY <1>1, <1>2, <1>3 DEF Placeholders, Fit
  <1>5. QED
    BY <1>1, <1>4 DEF Fits1, s

\* The first route's counting statement does.
LEMMA LegacyFits ==
    FitPiece(LegacyWhere(request))
  BY LegacyPiece DEF LegacyWhere

\* So does its page, with the arguments of LIMIT and OFFSET at the end.
LEMMA PagedFits ==
    Fits1(PagedSql)
  <1> DEFINE p == LegacyWhere(request)
             w == p.where
             a == p.args
             pages == <<"LIMIT", "OFFSET">>
  <1>1. /\ PagedSql.where = w
        /\ PagedSql.args = a \o LimitAndOffset
        /\ PagedSql.tail = pages
    BY DEF PagedSql, LegacySql, Sql
  <1>2. Fit(w, a)
    BY LegacyFits DEF FitPiece
  <1>3. IsList(LimitAndOffset) /\ ForsOf(LimitAndOffset) = pages
    BY DEF LimitAndOffset, IsList, ToSet, ForsOf
  <1> HIDE DEF p, w, a, pages
  <1>4. ForsOf(a \o LimitAndOffset) = ForsOf(a) \o pages
    BY <1>2, <1>3, ForsConcat DEF Fit
  <1>5. Slots(w) \o pages = ForsOf(a) \o pages
    BY <1>2 DEF Fit
  <1>6. QED
    BY <1>1, <1>4, <1>5 DEF Fits1, Placeholders

\* So every statement does once it is built.
LEMMA ArgumentsAreFit ==
    IInv => ArgumentsFit
  <1> SUFFICES ASSUME IInv
               PROVE  ArgumentsFit
    OBVIOUS
  <1> USE DEF IInv
  <1>1. ASSUME stage = "ready", ~NodeUnplaced
        PROVE  Fits1(main)
    <2>1. CASE request.api = "logs"
      <3>1. main = Sql("logs_mv", LogsPiece, {}, <<>>)
        BY <1>1, <2>1 DEF LogsBuilt, LogsSql, LogsPiece
      <3>2. Ready
        BY <1>1, <2>1 DEF Ready
      <3>3. QED
        BY <1>1, <3>1, <3>2, LogsPieceFits, PieceFits
    <2>2. CASE request.api = "aggregation"
      <3>1. main =
                Sql("logs_mv", AggregationWhereClause(request), main.names, <<>>)
        BY <1>1, <2>2 DEF AggregationBuilt
      <3>2. request.namespaces \in Seq(STRING) /\ request.pods \in Seq(STRING)
        BY <2>2 DEF Progress, IsRequest
      <3>3. IsList(request.namespaces) /\ IsList(request.pods)
        BY <3>2, ListIs
      <3> DEFINE n == main.names
      <3> HIDE DEF n
      <3>4. Fits1(Sql("logs_mv", AggregationWhereClause(request), n, <<>>))
        BY <3>3, AggregationPiece, PieceFits
      <3>5. QED
        BY <3>1, <3>4 DEF n
    <2>3. CASE request.api = "legacy"
      <3>1. main = PagedSql
        BY <1>1, <2>3 DEF LegacyBuilt
      <3>2. QED
        BY <3>1, PagedFits
    <2>4. QED
      BY <2>1, <2>2, <2>3 DEF Progress, IsRequest
  <1>2. ASSUME stage = "countBuilt", ~NodeUnplaced
        PROVE  Fits1(count)
    <2>1. CASE request.api = "logs"
      <3>1. count = Sql("logs_mv", LogsPiece, {}, <<>>)
        BY <1>2, <2>1 DEF LogsBuilt, LogsSql, LogsPiece
      <3>2. Ready
        BY <1>2, <2>1 DEF Ready
      <3>3. QED
        BY <1>2, <3>1, <3>2, LogsPieceFits, PieceFits
    <2>2. CASE request.api = "aggregation"
      BY <1>2, <2>2 DEF Progress, StagesOf
    <2>3. CASE request.api = "legacy"
      <3>1. count = Sql("otel_logs", LegacyWhere(request), {}, <<>>)
        BY <1>2, <2>3 DEF LegacyBuilt, LegacySql
      <3>2. QED
        BY <3>1, LegacyFits, PieceFits
    <2>4. QED
      BY <2>1, <2>2, <2>3 DEF Progress, IsRequest
  <1>3. QED
    BY <1>1, <1>2 DEF ArgumentsFit, Fits1, ForsOf

\* Every statement that is sent has one argument for each placeholder, in
\* their order and for their columns (query_builder.go, k8s_queries.go,
\* content_search_queries.go, time_queries.go and the aggregation's and first
\* route's builders), unless the Kubernetes builder was given a node.
THEOREM ArgumentsAlwaysFit == Spec => []ArgumentsFit
  BY Invariance, ArgumentsAreFit, PTL

-----------------------------------------------------------------------------
(* The total *)

\* LIMIT and OFFSET do not change which rows are selected.
LEMMA PagedSelects ==
    Selected(PagedSql) = Selected(LegacySql)
  <1> DEFINE p == LegacyWhere(request)
             w == p.where
             a == p.args
  <1>1. /\ PagedSql.where = w
        /\ PagedSql.args = a \o LimitAndOffset
        /\ LegacySql.where = w
        /\ LegacySql.args = a
    BY DEF PagedSql, LegacySql, Sql
  <1>2. Fit(w, a)
    BY LegacyFits DEF FitPiece
  <1>3. IsList(LimitAndOffset)
    BY DEF LimitAndOffset, IsList, ToSet
  <1> HIDE DEF p, w, a
  <1>4. \A row : AllMeet(row, w, a \o LimitAndOffset) <=> AllMeet(row, w, a)
    BY <1>2, <1>3, MoreArguments
  <1>5. QED
    BY <1>1, <1>4, SelectedIs

\* So both statements select the same rows.
LEMMA CountIsRight ==
    IInv => CountAgrees
  <1> SUFFICES ASSUME IInv, stage = "done", request.api # "aggregation"
               PROVE  total = Cardinality(rows \cup Skipped)
    BY DEF CountAgrees
  <1> USE DEF IInv
  <1>1. total = Cardinality(Selected(count)) /\ rows \cup Skipped = Selected(main)
    BY DEF Counted, Fetched, Skipped
  <1>2. CASE request.api = "logs"
    BY <1>1, <1>2 DEF LogsBuilt
  <1>3. CASE request.api = "legacy"
    <2>1. count = LegacySql /\ main = PagedSql
      BY <1>3 DEF LegacyBuilt
    <2>2. QED
      BY <1>1, <2>1, PagedSelects
  <1>4. QED
    BY <1>2, <1>3 DEF Progress, IsRequest

\* The total that an answer carries is the number of rows its statement
\* selects, those that the first route skips among them: the counting
\* statement, built apart, has the conditions and the arguments of the main one.
THEOREM CountAlwaysAgrees == Spec => []CountAgrees
  BY Invariance, CountIsRight, PTL

-----------------------------------------------------------------------------
(* The rows of an answer *)

\* A row that is selected meets the piece.
LEMMA SelectedMeets ==
    ASSUME NEW t, NEW p, NEW n, NEW tail,
           NEW row \in Selected(Sql(t, p, n, tail))
    PROVE  RowMeets(row, p)
  BY SelectedIs DEF Sql, RowMeets

\* A value that a pattern finds is one the pattern means, when the pattern is
\* not loose.
LEMMA FoundIsMeant ==
    ASSUME NEW v, NEW list, IsList(list), ToSet(list) \subseteq DOMAIN Entries,
           \A e \in ToSet(list) : ~Loose(e), FoundIn(v, ToSet(list))
    PROVE  AnyMeant(v, list)
  <1>1. ToSet(list) = {} => list = <<>>
    <2>1. /\ Len(list) \in Nat
          /\ \A x : x \in ToSet(list) <=> \E i \in 1 .. Len(list) : list[i] = x
      BY ListLen, ListElements
    <2> SUFFICES ASSUME ToSet(list) = {}
                 PROVE  Len(list) = 0
      BY ListNone
    <2>2. Len(list) # 0 => 1 \in 1 .. Len(list)
      BY <2>1
    <2>3. QED
      BY <2>1, <2>2
  <1>2. \A e \in ToSet(list) : Found(e) \subseteq Entries[e].names
    BY DEF Loose
  <1>3. QED
    BY <1>1, <1>2 DEF FoundIn, AnyMeant

\* The times of a query are times, or not given.
LEMMA QueryTimes ==
    ASSUME Ready
    PROVE  Timely(query.start) /\ Timely(query.end)
  <1>1. query = AskedQuery
    BY DEF Ready, Asked
  <1>2. \A v \in {request.start, request.end, DefaultStart, DefaultEnd} : Timely(v)
    BY QueryAssumption DEF Ready, Progress, IsRequest, Timely
  <1>3. QED
    BY <1>1, <1>2 DEF AskedQuery

\* The parameters of a query are met, with the times as one of the builders holds
\* them.
ParametersMet(row, q) ==
    \E s \in Held(q.start), e \in Held(q.end) : MetParameters(row, q, s, e)

\* A builder holds one or the other of a time.
LEMMA HeldAs ==
    ASSUME NEW v
    PROVE  AsFloat(v) \in Held(v) /\ AsDriverTime(v) \in Held(v)
  BY DEF Held

\* What the piece of the logs route says of a row: the parameters, and the
\* names whichever builder reads them.
LEMMA LogsPieceMeets ==
    ASSUME Ready, ~NodeUnplaced, NEW row, RowMeets(row, LogsPiece)
    PROVE  /\ ParametersMet(row, query)
           /\ FoundIn(row.namespace_name, ToSet(Names))
           /\ FoundIn(row.pod_name, ToSet(Pods))
  <1>1. Typed
    BY AskedQueryTyped DEF Ready
  <1>2. query.k8s = ParsedNames.filters
    BY AskedIs
  <1>3. /\ ToSet(Names) \cup ToSet(Pods) \subseteq DOMAIN Entries
        /\ ToSet(query.k8s) = FiltersOf(ToSet(Names), ToSet(Pods))
    BY <1>2, AskedNames DEF Ready, Asked, Progress
  <1>4. CASE Builder = "content"
    <2>1. LogsPiece = buildWhereClause(query)
      BY <1>4 DEF LogsPiece
    <2>2. /\ ParametersMet(row, query)
          /\ \A f \in ToSet(query.k8s) : PassesSingle(row, f)
      BY <1>1, <2>1, ContentPiece, HeldAs DEF Typed, MetNames, ParametersMet
    <2>3. QED
      BY <1>3, <2>2, SingleFound
  <1>5. CASE Builder = "k8s"
    <2>1. LogsPiece = BuildK8sOptimizedQuery(query)
      BY <1>5 DEF LogsPiece
    <2>2. query.node = request.node
      BY AskedIs
    <2>3. query.node = ""
      BY <1>5, <2>2 DEF NodeUnplaced, Ready
    <2>4. ParametersMet(row, query) /\ PassesNames(row, query.k8s)
      BY <1>1, <2>1, <2>3, K8sPiece, HeldAs DEF Typed, ParametersMet
    <2>5. QED
      BY <1>3, <2>4, K8sFound
  <1>6. CASE Builder = "time"
    <2>1. LogsPiece = BuildOptimizedTimeRangeQuery(query)
      BY <1>6 DEF LogsPiece
    <2>2. ParametersMet(row, query)
      BY <2>1, TimePiece, HeldAs DEF ParametersMet
    <2>3. ToSet(query.k8s) = {}
      BY <1>6, BuilderIs, ListEmpty
    <2>4. ToSet(Names) = {} /\ ToSet(Pods) = {}
      BY <1>3, <2>3 DEF FiltersOf
    <2>5. QED
      BY <2>2, <2>4 DEF FoundIn
  <1>7. QED
    BY <1>4, <1>5, <1>6, BuilderIs

\* The rows of an answer of the logs route are within its request.
LEMMA LogsStay ==
    ASSUME IInv, stage = "done", request.api = "logs", ~NodeUnplaced,
           \A e \in ToSet(Names \o Pods) : ~Loose(e), NEW row \in rows
    PROVE  LogsScope(row)
  <1>1. main = Sql("logs_mv", LogsPiece, {}, <<>>) /\ row \in Selected(main)
    BY DEF IInv, LogsBuilt, LogsSql, LogsPiece, Fetched
  <1>2. Ready
    BY DEF Ready, IInv
  <1>3. RowMeets(row, LogsPiece)
    BY <1>1, SelectedMeets
  <1>4. /\ ParametersMet(row, query)
        /\ FoundIn(row.namespace_name, ToSet(Names))
        /\ FoundIn(row.pod_name, ToSet(Pods))
    BY <1>2, <1>3, LogsPieceMeets
  <1>5. /\ IsList(Names)
        /\ IsList(Pods)
        /\ ToSet(Names) \cup ToSet(Pods) \subseteq DOMAIN Entries
    BY <1>2, AskedNames DEF Ready, Asked, Progress
  <1>6. ToSet(Names \o Pods) = ToSet(Names) \cup ToSet(Pods)
    BY <1>5, ConcatSet
  <1>7. AnyMeant(row.namespace_name, Names) /\ AnyMeant(row.pod_name, Pods)
    BY <1>4, <1>5, <1>6, FoundIsMeant
  <1>8. /\ query.dataset = request.dataset
        /\ query.container = request.container
        /\ request.dataset # ""
    BY <1>2, AskedIs
  <1>9. /\ Is(row["dataset"], query.dataset)
        /\ Is(row["SeverityText"], query.severity)
        /\ Is(row["container_name"], query.container)
    BY <1>4, EqualMet DEF ParametersMet, MetParameters, Whole
  <1>10. Within(row, query.start, query.end)
    BY <1>2, <1>4, QueryTimes, TimesMet DEF ParametersMet, MetParameters
  <1>11. row.dataset = request.dataset
    BY <1>8, <1>9 DEF Is
  <1>12. QED
    BY <1>7, <1>8, <1>9, <1>10, <1>11 DEF LogsScope

\* The rows that an aggregation counts are within its request.
LEMMA AggregationStays ==
    ASSUME IInv, stage = "done", request.api = "aggregation", NEW row \in rows
    PROVE  AggregationScope(row)
  <1>1. /\ main =
               Sql("logs_mv", AggregationWhereClause(request), main.names, <<>>)
        /\ row \in Selected(main)
        /\ request.dataset # ""
    BY DEF IInv, AggregationBuilt, Fetched
  <1>2. request.namespaces \in Seq(STRING) /\ request.pods \in Seq(STRING)
    BY DEF IInv, Progress, IsRequest
  <1>3. IsList(request.namespaces) /\ IsList(request.pods)
    BY <1>2, ListIs
  <1>4. RowMeets(row, AggregationWhereClause(request))
    BY <1>1, SelectedMeets
  <1>5. MetAggregation(row, request)
    BY <1>3, <1>4, AggregationPiece
  <1>6. /\ Is(row["dataset"], request.dataset)
        /\ Is(row["SeverityText"], request.severity)
    BY <1>5, EqualMet DEF Whole, MetAggregation
  <1>7. Within(row, request.start, request.end)
    <2>1. Timely(request.start) /\ Timely(request.end)
      BY DEF IInv, Progress, IsRequest, Timely
    <2>2. QED
      BY <1>5, <2>1, HeldAs, TimesMet DEF MetAggregation
  <1>8. request.text # "" => row.words \cap Fold(request.text) # {}
    BY <1>5, TextMet DEF MetAggregation
  <1>9. \A x :
            Passes(row, [col |-> "namespace_name", op |-> "="], x) =>
                row["namespace_name"] = x
    BY EqualPasses DEF Whole
  <1>10. \A x :
             Passes(row, [col |-> "pod_name", op |-> "="], x) =>
                 row["pod_name"] = x
    BY EqualPasses DEF Whole
  <1>11. request.namespaces # <<>> =>
             row.namespace_name \in ToSet(request.namespaces)
    BY <1>5, <1>9 DEF MetAggregation
  <1>12. request.pods # <<>> => row.pod_name \in ToSet(request.pods)
    BY <1>5, <1>10 DEF MetAggregation
  <1>13. request.namespaces # <<>> =>
             Contains(request.namespaces, row.namespace_name)
    BY <1>3, <1>11, ListElements DEF Contains
  <1>14. request.pods # <<>> => Contains(request.pods, row.pod_name)
    BY <1>3, <1>12, ListElements DEF Contains
  <1>15. row.dataset = request.dataset /\ Is(row.SeverityText, request.severity)
    BY <1>1, <1>6 DEF Is
  <1>16. QED
    BY <1>7, <1>8, <1>13, <1>14, <1>15 DEF AggregationScope

\* What the first route's builder gets.
LegacyAsked ==
    LET Spelled(name) == IF name = "" THEN <<>> ELSE Spelling[name]
        range == parseTimeRange(request)
    IN  [start |-> range.start, end |-> range.end,
         namespaceParts |-> Spelled(request.namespace),
         podParts |-> Spelled(request.pod),
         containerParts |-> Spelled(request.container),
         node |-> request.node, text |-> request.text, severity |-> request.severity]

\* A row that its statement selects meets what the builder makes of that, and
\* every row of the table that does is selected.
LEMMA LegacySelects ==
    Selected(PagedSql) = {row \in Rows : MetLegacy(row, LegacyAsked)}
  <1> DEFINE r == LegacyAsked
  <1>1. LegacyWhere(request) = LegacyConditions(r)
    BY DEF LegacyWhere, LegacyAsked
  <1> HIDE DEF r
  <1>2. \A row : RowMeets(row, LegacyWhere(request)) <=> MetLegacy(row, r)
    BY <1>1, LegacyPiece
  <1>3. \A row : AllMeet(row, LegacySql.where, LegacySql.args) <=>
                    RowMeets(row, LegacyWhere(request))
    BY DEF LegacySql, Sql, RowMeets
  <1>4. Selected(LegacySql) = {row \in Rows : MetLegacy(row, r)}
    BY <1>2, <1>3, SelectedIs
  <1>5. QED
    BY <1>4, PagedSelects DEF r

\* The times that it asks for are given.
LEMMA LegacyTimes ==
    LET range == parseTimeRange(request)
    IN  /\ Timely(range.start) /\ range.start # ""
        /\ Timely(range.end) /\ range.end # ""
  BY QueryAssumption, TimesAssumption DEF parseTimeRange, Timely

\* The rows of an answer of the first route are within its request.
LEMMA LegacyStays ==
    ASSUME IInv, stage = "done", request.api = "legacy", NEW row \in rows
    PROVE  LegacyScope(row)
  <1> DEFINE range == parseTimeRange(request)
  <1>1. main = PagedSql /\ row \in Selected(main)
    BY DEF IInv, LegacyBuilt, Fetched
  <1>2. MetLegacy(row, LegacyAsked)
    BY <1>1, LegacySelects
  <1>3. /\ LegacyAsked.start = range.start /\ LegacyAsked.end = range.end
        /\ LegacyAsked.node = request.node /\ LegacyAsked.text = request.text
        /\ LegacyAsked.severity = request.severity
    BY DEF LegacyAsked
  <1>4. /\ Passes(row, [col |-> "Timestamp", op |-> ">="], AsDriverTime(range.start))
        /\ Passes(row, [col |-> "Timestamp", op |-> "<="], AsDriverTime(range.end))
        /\ request.node = "" \/ AtHost(row, request.node)
        /\ Met(row, "Body", "LIKEText", request.text)
        /\ Met(row, "SeverityText", "=", request.severity)
    BY <1>2, <1>3 DEF MetLegacy
  <1>5. Within(row, range.start, range.end)
    <2>1. Timely(range.start) /\ Timely(range.end)
      BY LegacyTimes
    <2> HIDE DEF range
    <2>2. /\ Met(row, "Timestamp", ">=", AsDriverTime(range.start))
          /\ Met(row, "Timestamp", "<=", AsDriverTime(range.end))
      BY <1>4 DEF Met
    <2>3. QED
      BY <2>1, <2>2, HeldAs, TimesMet
  <1> HIDE DEF range
  <1>6. Is(row.host, request.node)
    BY <1>4, HostMet
  <1>7. Is(row["SeverityText"], request.severity)
    BY <1>4, EqualMet DEF Whole
  <1>8. request.text \notin {""} \cup DOMAIN Liked => request.text \in row.words
    BY <1>4, BodyMet
  <1>9. QED
    BY <1>5, <1>6, <1>7, <1>8 DEF LegacyScope, range

\* So no answer goes past its request.
LEMMA NothingWidens ==
    IInv => FiltersNeverWiden
  BY LogsStay, AggregationStays, LegacyStays
     DEF FiltersNeverWiden, IInv, Progress, IsRequest

\* Whatever builder a request is given to, and whatever else it asks for,
\* every row of the answer has the data set, the level, the container and the
\* names that the request asks for, and its time up to what the statement can
\* tell: no filter widens another.
THEOREM FiltersNeverAddRows == Spec => []FiltersNeverWiden
  BY Invariance, NothingWidens, PTL

-----------------------------------------------------------------------------
(* What a search asks for *)

\* A row passes a test of its text when it has one of the words that fit.
LEMMA WordsPass ==
    ASSUME NEW row, NEW c \in {"Content", "Body"}, NEW o,
           o \notin {"path", "matchWhole"}, NEW v
    PROVE  Passes(row, [col |-> c, op |-> o], v) <=> row.words \cap Fits(o, v) # {}
  BY DEF Passes, Cell

\* What fits each of the operators of a search.
LEMMA FitsAre ==
    ASSUME NEW v
    PROVE  /\ Fits("position", v) = {v}
           /\ Fits("match", v) = Plain(v) /\ Fits("LIKE", v) = Plain(v)
           /\ Fits("positionFold", v) = Fold(v)
  BY DEF Fits

\* A row has a word when it passes the test for it.
LEMMA WordPasses ==
    ASSUME NEW row, NEW v
    PROVE  Passes(row, [col |-> "Content", op |-> "position"], v) <=> v \in row.words
  <1>1. Passes(row, [col |-> "Content", op |-> "position"], v) <=>
            row.words \cap Fits("position", v) # {}
    BY WordsPass
  <1>2. Fits("position", v) = {v}
    BY FitsAre
  <1>3. QED
    BY <1>1, <1>2

\* It has a phrase when it passes the test for that.
LEMMA PhrasePasses ==
    ASSUME NEW row, NEW v
    PROVE  Passes(row, [col |-> "Content", op |-> "matchWhole"], v) <=> v \in row.phrases
  BY DEF Passes

\* A row passes a word or an expression when it has it.
LEMMA ContentFilterMet ==
    ASSUME NEW row, NEW v, NEW o
    PROVE  /\ FilterMet(row, ContentFilter("exact", v, o)) <=> v \in row.words
           /\ FilterMet(row, ContentFilter("regex", v, o)) <=> row.words \cap Plain(v) # {}
  <1>1. FilterMet(row, ContentFilter("exact", v, o)) <=>
            Passes(row, [col |-> "Content", op |-> "position"], v)
    BY DEF FilterMet, ContentFilter, ColumnOf, LookOf, Folded
  <1>2. FilterMet(row, ContentFilter("regex", v, o)) <=>
            Passes(row, [col |-> "Content", op |-> "match"], v)
    BY DEF FilterMet, ContentFilter, ColumnOf, LookOf
  <1>3. Passes(row, [col |-> "Content", op |-> "match"], v) <=>
            row.words \cap Fits("match", v) # {}
    BY WordsPass
  <1>4. QED
    BY <1>1, <1>2, <1>3, WordPasses, FitsAre

\* A term that excludes nothing.
Includes(t) == t.mark \in {"", "icase:"}

\* A filter with an operator, which says of a row what the term says of it.
SaysTerm(row, f, t, o) ==
    /\ FilterMet(row, f) <=> TermHolds(row, t)
    /\ f.operator = o
    /\ f.type # "proximity"

\* A row passes a term of a simple search when the term holds for it, unless
\* the term is an exclusion.
LEMMA SimpleFilterMet ==
    ASSUME NEW row, NEW t, Includes(t), NEW o
    PROVE  SaysTerm(row, SimpleFilter(t, o), t, o)
  <1> DEFINE f == SimpleFilter(t, o)
  <1>1. /\ f.type = IF t.mark = "icase:" THEN "icase" ELSE IF t.wild THEN "wildcard" ELSE "exact"
        /\ f.pattern = t.word /\ f.operator = o /\ f.icase = (t.mark = "icase:")
    BY DEF SimpleFilter, ContentFilter, Includes
  <1> HIDE DEF f
  <1>2. CASE t.mark = "icase:"
    <2>1. FilterMet(row, f) <=> Passes(row, [col |-> "Content", op |-> "positionFold"], t.word)
      BY <1>1, <1>2 DEF FilterMet, ColumnOf, LookOf
    <2>2. Passes(row, [col |-> "Content", op |-> "positionFold"], t.word) <=>
              row.words \cap Fits("positionFold", t.word) # {}
      BY WordsPass
    <2>3. TermHolds(row, t) <=> row.words \cap Fold(t.word) # {}
      BY <1>2 DEF TermHolds
    <2>4. QED
      BY <1>1, <1>2, <2>1, <2>2, <2>3, FitsAre DEF f, SaysTerm
  <1>3. CASE t.mark = "" /\ t.wild
    <2>1. FilterMet(row, f) <=> Passes(row, [col |-> "Body", op |-> "LIKE"], t.word)
      BY <1>1, <1>3 DEF FilterMet, ColumnOf, LookOf, Folded
    <2>2. Passes(row, [col |-> "Body", op |-> "LIKE"], t.word) <=>
              row.words \cap Fits("LIKE", t.word) # {}
      BY WordsPass
    <2>3. TermHolds(row, t) <=> row.words \cap Plain(t.word) # {}
      BY <1>3 DEF TermHolds
    <2>4. QED
      BY <1>1, <1>3, <2>1, <2>2, <2>3, FitsAre DEF f, SaysTerm
  <1>4. CASE t.mark = "" /\ ~t.wild
    <2>1. FilterMet(row, f) <=> Passes(row, [col |-> "Content", op |-> "position"], t.word)
      BY <1>1, <1>4 DEF FilterMet, ColumnOf, LookOf, Folded
    <2>2. TermHolds(row, t) <=> t.word \in row.words
      BY <1>4 DEF TermHolds
    <2>3. QED
      BY <1>1, <1>4, <2>1, <2>2, WordPasses DEF f, SaysTerm
  <1>5. QED
    BY <1>2, <1>3, <1>4 DEF Includes

\* The operator of a simple search.
JoinOf == IF request.operator = "OR" THEN "OR" ELSE "AND"

\* A simple search finds the rows that it means.
LEMMA SimpleMeant ==
    ASSUME IsSearch(Search), Search.kind = "simple", Sound,
           NEW F, F = parseSimpleSearch(Search, JoinOf).filters,
           parseSimpleSearch(Search, JoinOf).ok, NEW row
    PROVE  Flat(F) /\ (SearchMet(row, F) <=> Meant(row))
  <1> DEFINE ts == Search.terms
             G == [i \in DOMAIN ts |-> SimpleFilter(ts[i], JoinOf)]
             T == [mark : Marks, wild : BOOLEAN, word : STRING]
  <1>1. IsList(ts) /\ ts \in Seq(T)
    <2>1. ts \in Seq(T)
      BY DEF IsSearch, Marks
    <2> HIDE DEF T
    <2>2. QED
      BY <2>1, ListIs
  <1>2. F = G
    BY DEF parseSimpleSearch, Refusal, Accepted
  <1>3. Len(ts) \in Nat /\ DOMAIN ts = 1 .. Len(ts)
    BY <1>1, ListLen
  <1>4. IsList(G) /\ Len(G) = Len(ts)
        /\ \A i \in 1 .. Len(ts) : G[i] = SimpleFilter(ts[i], JoinOf)
    BY <1>3, ListOf
  <1>5. /\ \A x : x \in ToSet(ts) <=> \E i \in 1 .. Len(ts) : ts[i] = x
        /\ \A x : x \in ToSet(G) <=> \E i \in 1 .. Len(G) : G[i] = x
    BY <1>1, <1>4, ListElements
  <1>6. \A t \in ToSet(ts) : Includes(t)
    <2>1. \A t \in T : t.mark \in Marks
      OBVIOUS
    <2>2. \A t \in ToSet(ts) : t.mark # "NOT:"
      BY DEF Sound
    <2> HIDE DEF T
    <2>3. \A t \in ToSet(ts) : t \in T
      BY <1>1, <1>3, <1>5
    <2>4. QED
      BY <2>1, <2>2, <2>3 DEF Marks, Includes
  <1>7. ts = <<>> <=> Len(ts) = 0
    BY <1>1, ListNone, ListEmpty
  <1>8. /\ \A f \in ToSet(G) : \E t \in ToSet(ts) : f = SimpleFilter(t, JoinOf)
        /\ \A t \in ToSet(ts) : SimpleFilter(t, JoinOf) \in ToSet(G)
    BY <1>4, <1>5
  <1>9. \A t \in ToSet(ts) : /\ FilterMet(row, SimpleFilter(t, JoinOf)) <=> TermHolds(row, t)
                             /\ SimpleFilter(t, JoinOf).operator = JoinOf
                             /\ SimpleFilter(t, JoinOf).type # "proximity"
    <2> TAKE t \in ToSet(ts)
    <2> DEFINE o == JoinOf
    <2>1. Includes(t)
      BY <1>6
    <2> HIDE DEF o, ts, G
    <2>2. SaysTerm(row, SimpleFilter(t, o), t, o)
      BY <2>1, SimpleFilterMet
    <2>3. QED
      BY <2>2 DEF o, SaysTerm
  <1>10. ts = <<>> <=> ToSet(ts) = {}
    <2>1. Len(ts) # 0 => 1 \in 1 .. Len(ts)
      BY <1>3
    <2> HIDE DEF ts, G
    <2>2. QED
      BY <1>5, <1>7, <2>1
  <1>11. CASE request.operator # "OR"
    <2>1. JoinOf = "AND" /\ (Meant(row) <=> \A t \in ToSet(ts) : TermHolds(row, t))
      BY <1>11 DEF JoinOf, Meant
    <2> HIDE DEF G, ts
    <2>2. \A f \in ToSet(G) : f.operator = "AND" /\ f.type # "proximity"
      BY <1>8, <1>9, <2>1
    <2>3. SearchMet(row, G) <=> \A f \in ToSet(G) : FilterMet(row, f)
      BY <2>2 DEF SearchMet
    <2>4. (\A f \in ToSet(G) : FilterMet(row, f)) <=> \A t \in ToSet(ts) : TermHolds(row, t)
      BY <1>8, <1>9
    <2>5. QED
      BY <1>2, <2>1, <2>2, <2>3, <2>4 DEF Flat
  <1>12. CASE request.operator = "OR"
    <2>1. /\ JoinOf = "OR"
          /\ Meant(row) <=> ts = <<>> \/ \E t \in ToSet(ts) : TermHolds(row, t)
      BY <1>12 DEF JoinOf, Meant
    <2> HIDE DEF G, ts
    <2>2. \A f \in ToSet(G) : f.operator = "OR" /\ f.type # "proximity"
      BY <1>8, <1>9, <2>1
    <2>3. SearchMet(row, G) <=> ToSet(G) = {} \/ \E f \in ToSet(G) : FilterMet(row, f)
      BY <2>2 DEF SearchMet
    <2>4. (\E f \in ToSet(G) : FilterMet(row, f)) <=> \E t \in ToSet(ts) : TermHolds(row, t)
      BY <1>8, <1>9
    <2>5. ToSet(G) = {} <=> ToSet(ts) = {}
      BY <1>8
    <2>6. QED
      BY <1>2, <1>10, <2>1, <2>2, <2>3, <2>4, <2>5 DEF Flat
  <1>13. QED
    BY <1>11, <1>12

\* One filter without an operator.
LEMMA OneFilter ==
    ASSUME NEW f, f.operator = "", NEW row
    PROVE  Flat(<<f>>) /\ (SearchMet(row, <<f>>) <=> FilterMet(row, f))
  <1>2. ToSet(<<f>>) = {f}
    BY OneElement
  <1>3. QED
    BY <1>2 DEF Flat, SearchMet

\* An expression finds the rows that it means.
LEMMA RegexMeant ==
    ASSUME Search.kind = "regex", NEW F, F = parseRegexSearch(Search).filters,
           parseRegexSearch(Search).ok, NEW row
    PROVE  Flat(F) /\ (SearchMet(row, F) <=> Meant(row))
  <1> DEFINE v == Search.pattern
             f == ContentFilter("regex", v, "")
  <1>1. F = <<f>>
    BY DEF parseRegexSearch, Refusal, Accepted
  <1>3. Meant(row) <=> row.words \cap Plain(v) # {}
    BY DEF Meant
  <1> HIDE DEF v
  <1> DEFINE o == ""
  <1> HIDE DEF o
  <1>5. FilterMet(row, ContentFilter("regex", v, o)) <=> row.words \cap Plain(v) # {}
    BY ContentFilterMet
  <1>2. f.operator = "" /\ (FilterMet(row, f) <=> row.words \cap Plain(v) # {})
    BY <1>5 DEF o, ContentFilter
  <1> HIDE DEF f
  <1>4. QED
    BY <1>1, <1>2, <1>3, OneFilter

\* A search for words near each other finds the rows that have them.
LEMMA ProximityMeant ==
    ASSUME IsSearch(Search), Search.kind = "proximity", NEW F,
           F = parseProximitySearch(Search).filters,
           parseProximitySearch(Search).ok, NEW row
    PROVE  Flat(F) /\ (SearchMet(row, F) <=> Meant(row))
  <1> DEFINE f == [ContentFilter("proximity", "", "")
                     EXCEPT !.words = Search.words, !.distance = Search.distance]
             w == Search.words
  <1>1. F = <<f>>
    BY DEF parseProximitySearch, Refusal, Accepted
  <1>2. f.operator = "" /\ f.type = "proximity" /\ f.words = w
    BY DEF ContentFilter
  <1>3. IsList(w)
    BY ListIs DEF IsSearch
  <1> HIDE DEF f
  <1>4. FilterMet(row, f) <=> \A i \in 1 .. Len(w) : w[i] \in row.words
    <2>1. FilterMet(row, f) <=>
              \A i \in 1 .. Len(w) : Passes(row, [col |-> "Content", op |-> "position"], w[i])
      BY <1>2 DEF FilterMet
    <2>2. QED
      BY <2>1, WordPasses
  <1>5. Meant(row) <=> ToSet(w) \subseteq row.words
    BY DEF Meant
  <1>6. \A x : x \in ToSet(w) <=> \E i \in 1 .. Len(w) : w[i] = x
    BY <1>3, ListElements
  <1> HIDE DEF w
  <1>7. (\A i \in 1 .. Len(w) : w[i] \in row.words) <=> ToSet(w) \subseteq row.words
    BY <1>6
  <1>8. QED
    BY <1>1, <1>2, <1>4, <1>5, <1>7, OneFilter

\* The filter of a literal, and what a row that passes the search says of it.
LEMMA LiteralMet ==
    ASSUME Search.kind = "boolean", NEW sum, NEW i, NEW j, sum[i][j].neg \in BOOLEAN,
           NEW row
    PROVE  /\ FilterMet(row, SumFilter(sum, i, j)) <=> sum[i][j].word \in row.words
           /\ SumFilter(sum, i, j).type = "exact"
           /\ SumFilter(sum, i, j).operator = SignOf(i, j, sum[i][j].neg)
           /\ Says(row, sum[i][j]) <=>
                  (sum[i][j].neg /\ ~FilterMet(row, SumFilter(sum, i, j)))
                  \/ (~sum[i][j].neg /\ FilterMet(row, SumFilter(sum, i, j)))
  <1> DEFINE f == SumFilter(sum, i, j)
             n == sum[i][j].neg
             w == sum[i][j].word
             o == SignOf(i, j, n)
  <1>1. f = ContentFilter("exact", w, o)
    BY DEF SumFilter
  <1>2. Says(row, sum[i][j]) <=> (n # (w \in row.words))
    BY DEF Says
  <1>3. n \in BOOLEAN
    OBVIOUS
  <1> HIDE DEF n, w, o, f
  <1>4. /\ FilterMet(row, ContentFilter("exact", w, o)) <=> w \in row.words
        /\ ContentFilter("exact", w, o).operator = o
        /\ ContentFilter("exact", w, o).type = "exact"
    <2>1. FilterMet(row, ContentFilter("exact", w, o)) <=> w \in row.words
      BY ContentFilterMet
    <2>2. /\ ContentFilter("exact", w, o).operator = o
          /\ ContentFilter("exact", w, o).type = "exact"
      BY DEF ContentFilter
    <2>3. QED
      BY <2>1, <2>2
  <1>5. /\ FilterMet(row, f) <=> w \in row.words
        /\ f.type = "exact" /\ f.operator = o
    BY <1>1, <1>4
  <1>6. Says(row, sum[i][j]) <=> (n /\ ~FilterMet(row, f)) \/ (~n /\ FilterMet(row, f))
    BY <1>2, <1>3, <1>5
  <1>7. QED
    BY <1>5, <1>6 DEF f, n, w, o

\* What a boolean expression of a sum is.
LEMMA SumSearch ==
    ASSUME IsSearch(Search), Search.kind = "boolean", Search.form = "sum",
           NEW sum, sum = Search.formula
    PROVE  /\ SumOfClauses(sum) /\ Search.tokens = SumTokens(sum)
           /\ \A i \in 1 .. Len(sum) : \A j \in 1 .. Len(sum[i]) : IsWord(sum[i][j].word)
  <1>1. /\ SumOfClauses(sum) /\ Search.tokens = SumTokens(sum)
        /\ \A clause \in ToSet(sum) : \A l \in ToSet(clause) : IsWord(l.word)
    BY DEF IsSearch, IsWritten
  <1>2. ASSUME NEW i \in 1 .. Len(sum), NEW j \in 1 .. Len(sum[i])
        PROVE  IsWord(sum[i][j].word)
    <2>1. sum[i] \in ToSet(sum)
      BY <1>1, SumIsLists, ListElements
    <2>2. IsList(sum[i])
      BY <1>1, SumIsLists
    <2>3. sum[i][j] \in ToSet(sum[i])
      BY <2>2, ListElements
    <2>4. QED
      BY <1>1, <2>1, <2>3
  <1>3. QED
    BY <1>1, <1>2

\* One of the clauses of a sum holds.
LEMMA SumHolds ==
    ASSUME NEW sum, SumOfClauses(sum), NEW row
    PROVE  /\ (\E c \in ToSet(sum) : \A l \in ToSet(c) : Says(row, l)) <=>
                  \E i \in 1 .. Len(sum) : \A j \in 1 .. Len(sum[i]) : Says(row, sum[i][j])
  <1>1. \A x : x \in ToSet(sum) <=> \E i \in 1 .. Len(sum) : sum[i] = x
    BY SumIsLists, ListElements
  <1>2. ASSUME NEW i \in 1 .. Len(sum)
        PROVE  (\A l \in ToSet(sum[i]) : Says(row, l)) <=>
                   \A j \in 1 .. Len(sum[i]) : Says(row, sum[i][j])
    <2> DEFINE c == sum[i]
    <2>1. IsList(c)
      BY SumIsLists
    <2> HIDE DEF c
    <2>2. \A x : x \in ToSet(c) <=> \E j \in 1 .. Len(c) : c[j] = x
      BY <2>1, ListElements
    <2>3. (\A l \in ToSet(c) : Says(row, l)) <=> \A j \in 1 .. Len(c) : Says(row, c[j])
      BY <2>2
    <2>4. QED
      BY <2>3 DEF c
  <1>3. QED
    BY <1>1, <1>2

\* The rows that a boolean expression of a sum finds are some that it means:
\* those of the first clause. They are all of them when there is no other.
LEMMA SumMeant ==
    ASSUME IsSearch(Search), Search.kind = "boolean", Search.form = "sum",
           NEW F, F = parseBooleanSearch(Search).filters, parseBooleanSearch(Search).ok,
           NEW row
    PROVE  /\ Flat(F) /\ (SearchMet(row, F) => Meant(row))
           /\ Len(Search.formula) = 1 /\ Meant(row) => SearchMet(row, F)
  <1> DEFINE sum == Search.formula
  <1>1. /\ SumOfClauses(sum) /\ Search.tokens = SumTokens(sum)
        /\ \A i \in 1 .. Len(sum) : \A j \in 1 .. Len(sum[i]) : IsWord(sum[i][j].word)
    BY SumSearch
  <1>2. F = convertTokensToFilters(SumTokens(sum))
    BY <1>1 DEF parseBooleanSearch, Refusal, Accepted
  <1>3. Meant(row) <=> \E c \in ToSet(sum) : \A l \in ToSet(c) : Says(row, l)
    BY DEF Meant
  <1> HIDE DEF sum
  <1>4. \A f : f \in ToSet(F) <=>
            \E i \in 1 .. Len(sum) : \E j \in 1 .. Len(sum[i]) : f = SumFilter(sum, i, j)
    BY <1>1, <1>2, SumFilters
  <1>5. /\ 1 \in 1 .. Len(sum) /\ Len(sum) \in Nat
        /\ \A i \in 1 .. Len(sum) : \A j \in 1 .. Len(sum[i]) : sum[i][j].neg \in BOOLEAN
    BY <1>1, SumIsLists
  <1>6. Meant(row) <=>
            \E i \in 1 .. Len(sum) : \A j \in 1 .. Len(sum[i]) : Says(row, sum[i][j])
    BY <1>1, <1>3, SumHolds
  <1>7. Flat(F)
    <2>1. ASSUME NEW f \in ToSet(F)
          PROVE  f.type = "exact"
      <3>1. PICK i \in 1 .. Len(sum) : \E j \in 1 .. Len(sum[i]) : f = SumFilter(sum, i, j)
        BY <1>4
      <3>2. PICK j \in 1 .. Len(sum[i]) : f = SumFilter(sum, i, j)
        BY <3>1
      <3>3. QED
        BY <1>5, <3>2, LiteralMet
    <2>2. QED
      BY <2>1 DEF Flat
  <1>8. ASSUME SearchMet(row, F)
        PROVE  Meant(row)
    <2>1. ASSUME NEW j \in 1 .. Len(sum[1])
          PROVE  Says(row, sum[1][j])
      <3> DEFINE f == SumFilter(sum, 1, j)
                 n == sum[1][j].neg
      <3>1. f \in ToSet(F) /\ n \in BOOLEAN
        BY <1>4, <1>5
      <3>2. /\ f.operator = SignOf(1, j, n)
            /\ Says(row, sum[1][j]) <=> (n /\ ~FilterMet(row, f)) \/ (~n /\ FilterMet(row, f))
        BY <3>1, LiteralMet
      <3> HIDE DEF f, n
      <3>3. SignOf(1, j, n) = IF n THEN "NOT" ELSE "AND"
        BY <3>1 DEF SignOf
      <3>4. CASE n
        <4>1. ~FilterMet(row, f)
          BY <1>8, <3>1, <3>2, <3>3, <3>4 DEF SearchMet
        <4>2. QED
          BY <3>2, <3>4, <4>1
      <3>5. CASE ~n
        <4>1. FilterMet(row, f)
          BY <1>8, <3>1, <3>2, <3>3, <3>5 DEF SearchMet
        <4>2. QED
          BY <3>2, <3>5, <4>1
      <3>6. QED
        BY <3>1, <3>4, <3>5
    <2>2. QED
      BY <1>5, <1>6, <2>1
  <1>9. ASSUME Len(sum) = 1, Meant(row)
        PROVE  SearchMet(row, F)
    <2>1. \A j \in 1 .. Len(sum[1]) : Says(row, sum[1][j])
      <3>1. PICK i \in 1 .. Len(sum) : \A j \in 1 .. Len(sum[i]) : Says(row, sum[i][j])
        BY <1>6, <1>9
      <3>2. i = 1
        BY <1>9
      <3>3. QED
        BY <3>1, <3>2
    <2>2. ASSUME NEW f \in ToSet(F)
          PROVE  /\ f.operator \in {"AND", "NOT"}
                 /\ f.operator = "AND" => FilterMet(row, f)
                 /\ f.operator = "NOT" => ~FilterMet(row, f)
      <3>1. PICK i \in 1 .. Len(sum) : \E j \in 1 .. Len(sum[i]) : f = SumFilter(sum, i, j)
        BY <1>4
      <3>2. PICK j \in 1 .. Len(sum[i]) : f = SumFilter(sum, i, j)
        BY <3>1
      <3>3. i = 1
        BY <1>9
      <3> DEFINE n == sum[1][j].neg
      <3>4. f = SumFilter(sum, 1, j) /\ n \in BOOLEAN /\ Says(row, sum[1][j])
        BY <1>5, <2>1, <3>2, <3>3
      <3>5. /\ f.operator = SignOf(1, j, n)
            /\ Says(row, sum[1][j]) <=> (n /\ ~FilterMet(row, f)) \/ (~n /\ FilterMet(row, f))
        BY <3>4, LiteralMet
      <3> HIDE DEF n
      <3>6. SignOf(1, j, n) = IF n THEN "NOT" ELSE "AND"
        BY <3>4 DEF SignOf
      <3>7. QED
        BY <3>4, <3>5, <3>6
    <2>3. QED
      BY <2>2 DEF SearchMet
  <1>10. QED
    BY <1>7, <1>8, <1>9 DEF sum

\* A filter with an operator, which says that a row has a phrase.
HasPhrase(row, f, v, o) ==
    /\ FilterMet(row, f) <=> v \in row.phrases
    /\ f.operator = o /\ f.type = "phrase"

\* Such is the filter of the phrase.
LEMMA PhraseFilterMet ==
    ASSUME NEW row, NEW v, NEW o
    PROVE  HasPhrase(row, ContentFilter("phrase", v, o), v, o)
  <1>1. FilterMet(row, ContentFilter("phrase", v, o)) <=>
            Passes(row, [col |-> "Content", op |-> "matchWhole"], v)
    BY DEF FilterMet, ContentFilter, ColumnOf, LookOf
  <1>2. ContentFilter("phrase", v, o).operator = o /\ ContentFilter("phrase", v, o).type = "phrase"
    BY DEF ContentFilter
  <1>3. QED
    BY <1>1, <1>2, PhrasePasses DEF HasPhrase

\* Phrases of which one at most is of OR: a row passes the search when it has
\* all of them.
LEMMA AllPhrases ==
    ASSUME NEW F, IsList(F), NEW W, Len(F) = Len(W),
           \A k \in 1 .. Len(F) : \E o \in {"OR", "AND"} :
               F[k] = ContentFilter("phrase", W[k].phrase, o) /\ (k # 1 => o = "AND"),
           NEW row
    PROVE  /\ Flat(F)
           /\ SearchMet(row, F) <=> \A k \in 1 .. Len(W) : W[k].phrase \in row.phrases
  <1>1. \A f : f \in ToSet(F) <=> \E k \in 1 .. Len(F) : F[k] = f
    BY ListElements
  <1>2. ASSUME NEW k \in 1 .. Len(F)
        PROVE  /\ F[k].type = "phrase"
               /\ F[k].operator \in {"OR", "AND"}
               /\ F[k].operator = "OR" => k = 1
               /\ FilterMet(row, F[k]) <=> W[k].phrase \in row.phrases
    <2>1. PICK o \in {"OR", "AND"} :
              F[k] = ContentFilter("phrase", W[k].phrase, o) /\ (k # 1 => o = "AND")
      OBVIOUS
    <2> DEFINE v == W[k].phrase
    <2>2. F[k] = ContentFilter("phrase", v, o)
      BY <2>1
    <2> HIDE DEF v
    <2>3. HasPhrase(row, F[k], v, o)
      BY <2>2, PhraseFilterMet
    <2>4. /\ FilterMet(row, F[k]) <=> v \in row.phrases
          /\ F[k].operator = o /\ F[k].type = "phrase"
      BY <2>3 DEF HasPhrase
    <2>5. QED
      BY <2>1, <2>4 DEF v
  <1>3. Flat(F)
    BY <1>1, <1>2 DEF Flat
  <1>4. ASSUME SearchMet(row, F), NEW k \in 1 .. Len(F)
        PROVE  FilterMet(row, F[k])
    <2>1. F[k] \in ToSet(F)
      BY <1>1
    <2>2. CASE F[k].operator = "AND"
      BY <1>4, <2>1, <2>2 DEF SearchMet
    <2>3. CASE F[k].operator = "OR"
      <3>1. PICK g \in ToSet(F) : g.operator = "OR" /\ FilterMet(row, g)
        BY <1>4, <2>1, <2>3 DEF SearchMet
      <3>2. PICK m \in 1 .. Len(F) : F[m] = g
        BY <1>1
      <3>3. m = 1 /\ k = 1
        BY <1>2, <2>3, <3>1, <3>2
      <3>4. QED
        BY <3>1, <3>2, <3>3
    <2>4. QED
      BY <1>2, <2>2, <2>3
  <1>5. ASSUME \A k \in 1 .. Len(F) : FilterMet(row, F[k])
        PROVE  SearchMet(row, F)
    <2>1. \A f \in ToSet(F) : FilterMet(row, f) /\ f.operator \in {"OR", "AND"}
      BY <1>1, <1>2, <1>5
    <2>2. QED
      BY <2>1 DEF SearchMet
  <1>6. QED
    BY <1>2, <1>3, <1>4, <1>5

\* The rows that phrases find are some that they mean: those that have all of
\* them. They are all that are meant when the sum has one clause.
LEMMA PhrasesMeant ==
    ASSUME IsSearch(Search), Search.kind = "phrase", Sound,
           NEW F, F = parsePhraseSearch(Search).filters, NEW row
    PROVE  /\ Flat(F) /\ (SearchMet(row, F) => Meant(row))
           /\ Len(Search.formula) = 1 /\ Meant(row) => SearchMet(row, F)
  <1> DEFINE sum == Search.formula
             W == Written(sum)
  <1>1. /\ Search.form = "sum"
        /\ \A clause \in ToSet(sum) : \A l \in ToSet(clause) :
               ~l.neg /\ InsideOf(l.word) = {}
    BY DEF Sound
  <1>2. SumOfClauses(sum) /\ Search.closed /\ Search.phrases = W
    BY <1>1 DEF IsSearch, IsWritten
  <1>3. Positive(sum) /\ Plainly(sum)
    <2>0. \A clause \in ToSet(sum) : \A l \in ToSet(clause) : l.word # ""
      BY <1>1 DEF IsSearch, IsWritten
    <2>1. ASSUME NEW i \in 1 .. Len(sum), NEW j \in 1 .. Len(sum[i])
          PROVE  /\ ~sum[i][j].neg /\ sum[i][j].word # ""
                 /\ InsideOf(sum[i][j].word) = {}
      <3>1. IsList(sum) /\ IsList(sum[i])
        BY <1>2, SumIsLists
      <3>2. sum[i] \in ToSet(sum) /\ sum[i][j] \in ToSet(sum[i])
        BY <3>1, ListElements
      <3>3. QED
        BY <1>1, <2>0, <3>2
    <2>2. QED
      BY <2>1 DEF Positive, Plainly
  <1>4. Meant(row) <=> \E c \in ToSet(sum) : \A l \in ToSet(c) : Says(row, l)
    BY <1>1 DEF Meant
  <1> HIDE DEF sum
  <1>5. /\ IsList(F) /\ Len(F) = Len(W)
        /\ \A k \in 1 .. Len(F) : \E o \in {"OR", "AND"} :
               F[k] = ContentFilter("phrase", W[k].phrase, o) /\ (k # 1 => o = "AND")
    BY <1>2, <1>3, PhraseList
  <1>6. /\ Flat(F)
        /\ SearchMet(row, F) <=> \A k \in 1 .. Len(W) : W[k].phrase \in row.phrases
    <2> HIDE DEF W
    <2>1. QED
      BY <1>5, AllPhrases
  <1>7. Meant(row) <=>
            \E i \in 1 .. Len(sum) : \A j \in 1 .. Len(sum[i]) : Says(row, sum[i][j])
    BY <1>2, <1>4, SumHolds
  <1>8. \A i \in 1 .. Len(sum) : \A j \in 1 .. Len(sum[i]) :
            Says(row, sum[i][j]) <=> sum[i][j].word \in row.phrases
    <2> TAKE i \in 1 .. Len(sum)
    <2> TAKE j \in 1 .. Len(sum[i])
    <2>1. ~sum[i][j].neg /\ sum[i][j].neg \in BOOLEAN
      BY <1>2, <1>3, SumIsLists DEF Positive
    <2>2. QED
      BY <2>1 DEF Says
  <1>9. \A i, j : WordOf(sum, i, j).phrase = sum[i][j].word
    BY DEF WordOf
  <1>10. ASSUME SearchMet(row, F)
         PROVE  Meant(row)
    <2>1. 1 \in 1 .. Len(sum)
      BY <1>2, SumIsLists
    <2>2. ASSUME NEW j \in 1 .. Len(sum[1])
          PROVE  sum[1][j].word \in row.phrases
      <3>1. PICK k \in 1 .. Len(W) : W[k] = WordOf(sum, 1, j)
        BY <1>2, <2>1, LiteralWritten
      <3>2. QED
        BY <1>6, <1>9, <1>10, <3>1
    <2>3. QED
      BY <1>7, <1>8, <2>1, <2>2
  <1>11. ASSUME Len(sum) = 1, Meant(row)
         PROVE  SearchMet(row, F)
    <2>1. PICK c \in 1 .. Len(sum) : \A j \in 1 .. Len(sum[c]) : Says(row, sum[c][j])
      BY <1>7, <1>11
    <2>2. ASSUME NEW k \in 1 .. Len(W)
          PROVE  W[k].phrase \in row.phrases
      <3>1. PICK i \in 1 .. Len(sum) : \E j \in 1 .. Len(sum[i]) : W[k] = WordOf(sum, i, j)
        BY <1>2, WrittenLiteral
      <3>2. PICK j \in 1 .. Len(sum[i]) : W[k] = WordOf(sum, i, j)
        BY <3>1
      <3>3. i = c
        BY <1>11
      <3>4. sum[i][j].word \in row.phrases
        BY <1>8, <2>1, <3>3
      <3>5. QED
        BY <1>9, <3>2, <3>4
    <2>3. QED
      BY <1>6, <2>2
  <1>12. QED
    BY <1>6, <1>10, <1>11 DEF sum

\* What a boolean expression of a product without negations is.
LEMMA ProductSearch ==
    ASSUME IsSearch(Search), Search.kind = "boolean", Search.form = "product", Sound,
           NEW product, product = Search.formula
    PROVE  Factors(product) /\ Search.tokens = ProductTokens(product)
  <1> DEFINE T == [neg : BOOLEAN, words : Seq(STRING) \ {<<>>}, attached : BOOLEAN]
  <1>1. /\ product \in Seq(T) /\ Search.tokens = ProductTokens(product)
        /\ \A f \in ToSet(product) : \A i \in DOMAIN f.words : IsWord(FactorWord(f, i))
    BY DEF IsSearch, IsWritten, ProductOfFactors
  <1>2. \A f \in ToSet(product) : ~f.neg
    BY DEF Sound
  <1>3. \A f \in T : /\ f.neg \in BOOLEAN /\ f.attached \in BOOLEAN
                     /\ f.words \in Seq(STRING) /\ f.words # <<>>
    OBVIOUS
  <1> HIDE DEF T
  <1>4. IsList(product)
    BY <1>1, ListIs
  <1>5. \A i \in 1 .. Len(product) : product[i] \in T
    BY <1>1
  <1>6. ASSUME NEW i \in 1 .. Len(product)
        PROVE  /\ IsList(product[i].words) /\ 1 \in 1 .. Len(product[i].words)
               /\ product[i].neg = FALSE /\ product[i].attached \in BOOLEAN
               /\ IsWord(FactorWord(product[i], 1))
    <2> DEFINE f == product[i]
               ws == f.words
    <2>1. f \in ToSet(product)
      BY <1>4, ListElements
    <2>2. f.neg \in BOOLEAN /\ f.attached \in BOOLEAN /\ ws \in Seq(STRING) /\ ws # <<>> /\ ~f.neg
      BY <1>2, <1>3, <1>5, <2>1
    <2>3. \A k \in DOMAIN ws : IsWord(FactorWord(f, k))
      BY <1>1, <2>1
    <2> HIDE DEF ws
    <2>4. IsList(ws) /\ Len(ws) \in Nat /\ DOMAIN ws = 1 .. Len(ws)
      BY <2>2, ListIs, ListLen
    <2>5. Len(ws) # 0
      BY <2>2, <2>4, ListNone
    <2>6. 1 \in 1 .. Len(ws)
      BY <2>4, <2>5
    <2>7. QED
      BY <2>2, <2>3, <2>4, <2>6 DEF ws
  <1>7. QED
    BY <1>1, <1>4, <1>6 DEF Factors

\* A row that has a word with its parentheses has the word.
LEMMA WordWithin ==
    ASSUME request \in Requests, request.api = "logs", Search.kind = "boolean",
           Search.form = "product", NEW f \in ToSet(Search.formula), NEW row \in Rows,
           NEW i \in DOMAIN f.words, FactorWord(f, i) \in row.words
    PROVE  f.words[i] \in row.words
  <1> DEFINE s == Search
  <1>1. s \in {request.search, request.filter}
    BY DEF Search
  <1>2. s.kind = "boolean" /\ s.form = "product" /\ f \in ToSet(s.formula)
    OBVIOUS
  <1> HIDE DEF s
  <1>3. QED
    BY <1>1, <1>2, WordsAssumption

\* The rows that a boolean expression of a product finds have the first word of
\* every factor: they are some of those that it means.
LEMMA ProductMeant ==
    ASSUME request \in Requests, request.api = "logs", IsSearch(Search),
           Search.kind = "boolean", Search.form = "product", Sound,
           NEW F, F = parseBooleanSearch(Search).filters, parseBooleanSearch(Search).ok,
           NEW row \in Rows
    PROVE  Flat(F) /\ (SearchMet(row, F) => Meant(row))
  <1> DEFINE product == Search.formula
             t == ProductTokens(product)
  <1>1. Factors(product) /\ Search.tokens = t
    BY ProductSearch
  <1>2. F = convertTokensToFilters(t)
    BY <1>1 DEF parseBooleanSearch, Refusal, Accepted
  <1>3. IsList(t)
    BY <1>1, BlocksAre
  <1>4. Flat(F)
    BY <1>2, <1>3, BooleanFlat
  <1>5. Meant(row) <=> \A f \in ToSet(product) :
                           f.neg # \E word \in ToSet(f.words) : word \in row.words
    BY DEF Meant
  <1>6. ASSUME SearchMet(row, F), NEW f \in ToSet(product)
        PROVE  f.neg # \E word \in ToSet(f.words) : word \in row.words
    <2> DEFINE w == FactorWord(f, 1)
    <2> HIDE DEF t, product
    <2>1. PICK i \in 1 .. Len(product) : product[i] = f
      BY <1>1, <1>6, ListElements DEF Factors
    <2>2. IsList(f.words) /\ 1 \in 1 .. Len(f.words) /\ f.neg = FALSE
      BY <1>1, <2>1 DEF Factors
    <2>3. PICK p \in 1 .. Len(t) : t[p] = w /\ IsTerm(t[p]) /\ OperatorAt(t, p) = "AND"
      BY <1>1, <2>1, ProductToken DEF t
    <2> HIDE DEF w
    <2>4. ContentFilter("exact", w, "AND") \in ToSet(F)
      BY <1>2, <1>3, <2>3, ConvertIs
    <2>5. FilterMet(row, ContentFilter("exact", w, "AND"))
      <3>1. ContentFilter("exact", w, "AND").operator = "AND"
        BY DEF ContentFilter
      <3>2. QED
        BY <1>6, <2>4, <3>1 DEF SearchMet
    <2>6. w \in row.words
      BY <2>5, ContentFilterMet
    <2>7. 1 \in DOMAIN f.words
      BY <2>2, ListLen
    <2>8. f.words[1] \in row.words
      BY <1>6, <2>6, <2>7, WordWithin DEF w, product
    <2>9. f.words[1] \in ToSet(f.words)
      BY <2>2, ListElements
    <2>10. QED
      BY <2>2, <2>8, <2>9
  <1>7. QED
    BY <1>4, <1>5, <1>6

\* The filters of a search that is not refused are those of its kind.
LEMMA SearchIs ==
    ASSUME ParsedSearch.ok, Search.kind # "none"
    PROVE  /\ parseSearchExpression(Search, JoinOf).ok
           /\ ParsedSearch.filters = parseSearchExpression(Search, JoinOf).filters
  <1> DEFINE p == parseSearchExpression(Search, JoinOf)
             c == calculateComplexity(p.filters)
             m == 10 * MaxQueryComplexity
  <1>1. ParsedSearch = ParseContentSearch(Search, JoinOf)
    BY DEF ParsedSearch, validateAndParseContentSearch, Search, JoinOf
  <1>2. ParseContentSearch(Search, JoinOf) = IF p.ok /\ c > m THEN Refusal ELSE p
    BY DEF ParseContentSearch
  <1>3. ~Refusal.ok
    BY DEF Refusal
  <1> HIDE DEF p, c, m
  <1>4. ParsedSearch = p
    BY <1>1, <1>2, <1>3, Zenon
  <1>5. QED
    BY <1>4 DEF p

\* Whatever its kind, a search with a sound formula finds only rows that it
\* means.
LEMMA FoundIsAsked ==
    ASSUME request \in Requests, IsRequest(request), request.api = "logs",
           ParsedSearch.ok, Sound, NEW F, F = ParsedSearch.filters, NEW row \in Rows
    PROVE  Flat(F) /\ (SearchMet(row, F) => Meant(row))
  <1>1. IsSearch(Search)
    BY DEF IsRequest, Search
  <1>2. CASE Search.kind = "none"
    <2>1. Meant(row)
      BY <1>2 DEF Meant
    <2>2. F = <<>>
      BY <1>2 DEF ParsedSearch, validateAndParseContentSearch, ParseContentSearch,
                  Accepted, Search
    <2>3. QED
      BY <2>1, <2>2, ListEmpty DEF Flat
  <1>3. Search.kind # "none" =>
            /\ parseSearchExpression(Search, JoinOf).ok
            /\ F = parseSearchExpression(Search, JoinOf).filters
    BY SearchIs
  <1>4. CASE Search.kind = "simple"
    <2>1. parseSearchExpression(Search, JoinOf) = parseSimpleSearch(Search, JoinOf)
      BY <1>4 DEF parseSearchExpression
    <2>2. QED
      BY <1>1, <1>3, <1>4, <2>1, SimpleMeant
  <1>5. CASE Search.kind = "boolean"
    <2>1. parseSearchExpression(Search, JoinOf) = parseBooleanSearch(Search)
      BY <1>5 DEF parseSearchExpression
    <2>2. Search.form \in {"sum", "product"}
      BY <1>5 DEF Sound
    <2>3. CASE Search.form = "sum"
      BY <1>1, <1>3, <1>5, <2>1, <2>3, SumMeant
    <2>4. CASE Search.form = "product"
      BY <1>1, <1>3, <1>5, <2>1, <2>4, ProductMeant
    <2>5. QED
      BY <2>2, <2>3, <2>4
  <1>6. CASE Search.kind = "phrase"
    <2>1. parseSearchExpression(Search, JoinOf) = parsePhraseSearch(Search)
      BY <1>6 DEF parseSearchExpression
    <2>2. QED
      BY <1>1, <1>3, <1>6, <2>1, PhrasesMeant
  <1>7. CASE Search.kind = "regex"
    <2>1. parseSearchExpression(Search, JoinOf) = parseRegexSearch(Search)
      BY <1>7 DEF parseSearchExpression
    <2>2. QED
      BY <1>3, <1>7, <2>1, RegexMeant
  <1>8. CASE Search.kind = "proximity"
    <2>1. parseSearchExpression(Search, JoinOf) = parseProximitySearch(Search)
      BY <1>8 DEF parseSearchExpression
    <2>2. QED
      BY <1>1, <1>3, <1>8, <2>1, ProximityMeant
  <1>9. QED
    BY <1>1, <1>2, <1>4, <1>5, <1>6, <1>7, <1>8 DEF IsSearch

\* The rows of an answer of the logs route pass its search: only the content
\* builder is given one.
LEMMA RowsPassSearch ==
    ASSUME IInv, stage = "done", request.api = "logs", NEW row \in rows,
           Flat(query.search)
    PROVE  SearchMet(row, query.search)
  <1>1. main = Sql("logs_mv", LogsPiece, {}, <<>>) /\ row \in Selected(main)
    BY DEF IInv, LogsBuilt, LogsSql, LogsPiece, Fetched
  <1>2. RowMeets(row, LogsPiece)
    BY <1>1, SelectedMeets
  <1>3. Typed
    BY AskedQueryTyped DEF IInv
  <1>4. CASE Builder = "content"
    <2>1. LogsPiece = buildWhereClause(query)
      BY <1>4 DEF LogsPiece
    <2>2. RowMeets(row, buildContentSearchConditions(query.search))
      BY <1>2, <1>3, <2>1, ContentPiece DEF Typed
    <2>3. QED
      BY <1>3, <2>2, SearchMeets DEF Typed
  <1>5. CASE Builder # "content"
    <2>1. ToSet(query.search) = {}
      BY <1>5, BuilderIs, ListEmpty
    <2>2. QED
      BY <2>1 DEF SearchMet
  <1>6. QED
    BY <1>4, <1>5

\* So no search widens an answer.
LEMMA NoSearchWidens ==
    IInv => SearchNeverWidens
  <1> SUFFICES ASSUME IInv, stage = "done", request.api = "logs", Sound,
                      NEW row \in rows
               PROVE  Meant(row)
    BY DEF SearchNeverWidens
  <1>1. Ready
    BY DEF Ready, IInv
  <1>2. query.search = ParsedSearch.filters
    BY <1>1, AskedIs
  <1>3. ParsedSearch.ok /\ request \in Requests /\ IsRequest(request)
    BY <1>1 DEF Ready, Asked, Progress
  <1>4. row \in Rows
    BY DEF IInv, Fetched
  <1>5. Flat(query.search) /\ (SearchMet(row, query.search) => Meant(row))
    BY <1>2, <1>3, <1>4, FoundIsAsked
  <1>6. QED
    BY <1>5, RowsPassSearch

\* The flat list of filters that a search is parsed to keeps neither its order
\* nor its parentheses, and one OR makes alternatives of filters that others
\* stand between. Still every row of an answer is one that the search means, in
\* any of its six forms, unless its formula has a negation that the list
\* cannot hold.
THEOREM SearchesNeverAddRows == Spec => []SearchNeverWidens
  BY Invariance, NoSearchWidens, PTL

-----------------------------------------------------------------------------
(* What a search never misses *)

\* A boolean expression of a product of words finds every row that it means.
LEMMA SingleProductMeant ==
    ASSUME IsSearch(Search), Search.kind = "boolean", Search.form = "product", Sound,
           \A f \in ToSet(Search.formula) : Len(f.words) = 1 /\ ~f.attached,
           NEW F, F = parseBooleanSearch(Search).filters, parseBooleanSearch(Search).ok,
           NEW row, Meant(row)
    PROVE  SearchMet(row, F)
  <1> DEFINE product == Search.formula
             t == ProductTokens(product)
  <1>1. Factors(product) /\ Search.tokens = t
    BY ProductSearch
  <1>2. F = convertTokensToFilters(t)
    BY <1>1 DEF parseBooleanSearch, Refusal, Accepted
  <1>3. IsList(t)
    BY <1>1, BlocksAre
  <1>4. \A f \in ToSet(product) : f.neg # \E word \in ToSet(f.words) : word \in row.words
    BY DEF Meant
  <1>5. \A f \in ToSet(product) : Len(f.words) = 1 /\ ~f.attached
    OBVIOUS
  <1> HIDE DEF product
  <1>6. \A i \in 1 .. Len(product) : product[i] \in ToSet(product)
    BY <1>1, ListElements DEF Factors
  <1>7. SingleWords(product)
    BY <1>1, <1>5, <1>6 DEF SingleWords
  <1>8. ASSUME NEW i \in 1 .. Len(product)
        PROVE  product[i].words[1] \in row.words
    <2> DEFINE ws == product[i].words
    <2>1. IsList(ws) /\ Len(ws) = 1 /\ product[i].neg = FALSE
      BY <1>1, <1>7 DEF SingleWords, Factors
    <2>2. PICK word \in ToSet(ws) : word \in row.words
      BY <1>4, <1>6, <2>1
    <2> HIDE DEF ws
    <2>3. PICK j \in 1 .. Len(ws) : ws[j] = word
      BY <2>1, <2>2, ListElements
    <2>4. j = 1
      BY <2>1
    <2>5. QED
      BY <2>2, <2>3, <2>4 DEF ws
  <1>9. \A k \in 1 .. Len(t) :
            /\ OperatorAt(t, k) = "AND"
            /\ IsTerm(t[k]) => \E i \in 1 .. Len(product) : t[k] = product[i].words[1]
    BY <1>7, SingleProduct
  <1> HIDE DEF t
  <1>10. ASSUME NEW f \in ToSet(F)
         PROVE  f.operator = "AND" /\ FilterMet(row, f)
    <2>1. PICK k \in 1 .. Len(t) :
              IsTerm(t[k]) /\ f = ContentFilter("exact", t[k], OperatorAt(t, k))
      BY <1>2, <1>3, ConvertIs
    <2>2. PICK i \in 1 .. Len(product) : t[k] = product[i].words[1]
      BY <1>9, <2>1
    <2> DEFINE w == t[k]
               o == "AND"
    <2>3. f = ContentFilter("exact", w, o) /\ w \in row.words
      BY <1>8, <1>9, <2>1, <2>2
    <2> HIDE DEF w, o
    <2>4. /\ FilterMet(row, ContentFilter("exact", w, o)) <=> w \in row.words
          /\ ContentFilter("exact", w, o).operator = o
      <3>1. FilterMet(row, ContentFilter("exact", w, o)) <=> w \in row.words
        BY ContentFilterMet
      <3>2. ContentFilter("exact", w, o).operator = o
        BY DEF ContentFilter
      <3>3. QED
        BY <3>1, <3>2
    <2>5. QED
      BY <2>3, <2>4 DEF o
  <1>11. QED
    BY <1>10 DEF SearchMet

\* Whatever its kind, an exact search finds every row that it means.
LEMMA AskedIsFound ==
    ASSUME request \in Requests, IsRequest(request), request.api = "logs",
           ParsedSearch.ok, Exact, NEW F, F = ParsedSearch.filters, NEW row \in Rows,
           Meant(row)
    PROVE  SearchMet(row, F)
  <1>1. IsSearch(Search) /\ Sound
    BY DEF IsRequest, Search, Exact
  <1>2. CASE Search.kind = "none"
    <2>1. F = <<>>
      BY <1>2 DEF ParsedSearch, validateAndParseContentSearch, ParseContentSearch,
                  Accepted, Search
    <2>2. QED
      BY <2>1, ListEmpty DEF SearchMet
  <1>3. Search.kind # "none" =>
            /\ parseSearchExpression(Search, JoinOf).ok
            /\ F = parseSearchExpression(Search, JoinOf).filters
    BY SearchIs
  <1>4. CASE Search.kind = "simple"
    <2>1. parseSearchExpression(Search, JoinOf) = parseSimpleSearch(Search, JoinOf)
      BY <1>4 DEF parseSearchExpression
    <2>2. QED
      BY <1>1, <1>3, <1>4, <2>1, SimpleMeant
  <1>5. CASE Search.kind = "boolean"
    <2>1. parseSearchExpression(Search, JoinOf) = parseBooleanSearch(Search)
      BY <1>5 DEF parseSearchExpression
    <2>2. Search.form \in {"sum", "product"}
      BY <1>1, <1>5 DEF Sound
    <2>3. CASE Search.form = "sum"
      <3>1. Len(Search.formula) = 1
        BY <1>5, <2>3 DEF Exact
      <3>2. QED
        BY <1>1, <1>3, <1>5, <2>1, <2>3, <3>1, SumMeant
    <2>4. CASE Search.form = "product"
      <3>1. \A f \in ToSet(Search.formula) : Len(f.words) = 1 /\ ~f.attached
        BY <1>5, <2>4 DEF Exact
      <3>2. QED
        BY <1>1, <1>3, <1>5, <2>1, <2>4, <3>1, SingleProductMeant
    <2>5. QED
      BY <2>2, <2>3, <2>4
  <1>6. CASE Search.kind = "phrase"
    <2>1. parseSearchExpression(Search, JoinOf) = parsePhraseSearch(Search)
      BY <1>6 DEF parseSearchExpression
    <2>2. Search.form = "sum"
      BY <1>1, <1>6 DEF Sound
    <2>3. Len(Search.formula) = 1
      BY <1>6, <2>2 DEF Exact
    <2>4. QED
      BY <1>1, <1>3, <1>6, <2>1, <2>3, PhrasesMeant
  <1>7. CASE Search.kind = "regex"
    <2>1. parseSearchExpression(Search, JoinOf) = parseRegexSearch(Search)
      BY <1>7 DEF parseSearchExpression
    <2>2. QED
      BY <1>3, <1>7, <2>1, RegexMeant
  <1>8. CASE Search.kind = "proximity"
    <2>1. parseSearchExpression(Search, JoinOf) = parseProximitySearch(Search)
      BY <1>8 DEF parseSearchExpression
    <2>2. QED
      BY <1>1, <1>3, <1>8, <2>1, ProximityMeant
  <1>9. QED
    BY <1>1, <1>2, <1>4, <1>5, <1>6, <1>7, <1>8 DEF IsSearch

-----------------------------------------------------------------------------
(* What a row has to have to be selected *)

\* A row passes the equality with its value.
LEMMA EqualPass ==
    ASSUME NEW row, NEW c, c \notin Whole, NEW v, row[c] = v
    PROVE  Passes(row, [col |-> c, op |-> "="], v)
  <1>1. Cell(row, c) = {row[c]}
    BY DEF Cell, Whole
  <1>2. Fits("=", v) = {v}
    BY DEF Fits
  <1>3. QED
    BY <1>1, <1>2 DEF Passes

\* It meets a parameter that is that value, or is not given.
LEMMA ValueMet ==
    ASSUME NEW row, NEW c, c \notin Whole, NEW v, Is(row[c], v)
    PROVE  Met(row, c, "=", v)
  BY EqualPass DEF Is, Met

\* A row on the right side of a bound passes it.
LEMMA TimePass ==
    ASSUME NEW row, NEW op \in {">=", "<="}, NEW v, row.Timestamp \in Fits(op, v)
    PROVE  Passes(row, [col |-> "Timestamp", op |-> op], v)
  <1>1. Cell(row, "Timestamp") = {row.Timestamp}
    BY DEF Cell
  <1>2. Cell(row, "Timestamp") \cap Fits(op, v) # {}
    BY <1>1
  <1>3. QED
    BY <1>2 DEF Passes

\* A row on the right side of a time, and not near it, is on that of what is held
\* of the time.
LEMMA BoundPass ==
    ASSUME NEW row, NEW v, Timely(v), NEW h \in Held(v), NEW op \in {">=", "<="},
           v # "" => row.Timestamp \in (Fits(op, v) \cup Near[v]) \ Near[v]
    PROVE  Met(row, "Timestamp", op, h)
  <1>1. CASE v = ""
    BY <1>1, NotHeld DEF Met
  <1>2. CASE v # ""
    <2>1. Fits(op, v) \subseteq Fits(op, h) \cup Near[v]
      BY <1>2, HeldFits
    <2>2. row.Timestamp \in Fits(op, h)
      BY <1>2, <2>1
    <2>3. QED
      BY <2>2, TimePass DEF Met
  <1>3. QED
    BY <1>1, <1>2

\* A row within a range, and not at its edge, meets both its ends.
LEMMA RangeMet ==
    ASSUME NEW row, NEW s, NEW e, Timely(s), Timely(e), Within(row, s, e),
           ~AtEdge(row, s, e), NEW g \in Held(s), NEW h \in Held(e)
    PROVE  Met(row, "Timestamp", ">=", g) /\ Met(row, "Timestamp", "<=", h)
  <1>1. /\ s # "" => row.Timestamp \in (Fits(">=", s) \cup Near[s]) \ Near[s]
        /\ e # "" => row.Timestamp \in (Fits("<=", e) \cup Near[e]) \ Near[e]
    BY DEF Within, AtEdge
  <1>2. QED
    BY <1>1, BoundPass

\* A row with a form of a text contains it in some case.
LEMMA FoldMet ==
    ASSUME NEW row, NEW v, v = "" \/ row.words \cap Fold(v) # {}
    PROVE  Met(row, "Content", "positionFold", v)
  <1> SUFFICES ASSUME row.words \cap Fold(v) # {}
               PROVE  Passes(row, [col |-> "Content", op |-> "positionFold"], v)
    BY DEF Met
  <1>1. Cell(row, "Content") = row.words
    BY DEF Cell
  <1>2. Fits("positionFold", v) = Fold(v)
    BY DEF Fits
  <1>3. QED
    BY <1>1, <1>2 DEF Passes

\* A row with a text contains it, when no character of the text is a wildcard.
LEMMA WordMet ==
    ASSUME NEW row, NEW v, v \notin DOMAIN Liked, v = "" \/ v \in row.words
    PROVE  Met(row, "Body", "LIKEText", v)
  <1> SUFFICES ASSUME v \in row.words
               PROVE  Passes(row, [col |-> "Body", op |-> "LIKEText"], v)
    BY DEF Met
  <1>1. Cell(row, "Body") = row.words
    BY DEF Cell
  <1>2. Fits("LIKEText", v) = {v}
    BY DEF Fits
  <1>3. QED
    BY <1>1, <1>2 DEF Passes

\* One of the two columns places a row on its host.
LEMMA HostPass ==
    ASSUME NEW row, NEW v, Is(row.host, v)
    PROVE  v = "" \/ AtHost(row, v)
  <1> SUFFICES ASSUME row.host = v
               PROVE  Passes(row, [col |-> "host.name", op |-> "="], v)
    BY DEF Is, AtHost
  <1>1. Cell(row, "host.name") = {row.host}
    BY DEF Cell
  <1>2. Fits("=", v) = {v}
    BY DEF Fits
  <1>3. QED
    BY <1>1, <1>2 DEF Passes

-----------------------------------------------------------------------------
(* What the patterns never miss *)

\* The operator made for the kind of a valid pattern finds every name that the
\* pattern means, when it looks at the case as the pattern does.
LEMMA MeantPasses ==
    ASSUME NEW row, NEW c, c \notin Whole, NEW e \in DOMAIN Entries, Entries[e].valid,
           row[c] \in Entries[e].names, NEW icase \in BOOLEAN, icase = Entries[e].icase
    PROVE  Passes(row, [col |-> c, op |-> Folded(OpOf[KindOf(e)], icase)],
                  Entries[e].text)
  <1> DEFINE k == KindOf(e)
             t == Entries[e].text
             o == Folded(OpOf[k], icase)
  <1>1. k \in {"exact", "regex", "wildcard"}
    BY LimitsAssumption DEF KindOf
  <1>2. OpOf[k] =
            CASE k = "exact" -> "=" [] k = "regex" -> "match" [] k = "wildcard" -> "LIKE"
    BY <1>1 DEF OpOf
  <1>3. Entries[e].names \subseteq
            CASE icase -> Matching[t].fold
              [] ~icase /\ k = "exact" -> {t}
              [] OTHER -> Matching[t].plain
    BY FindingAssumption
  <1>4. Fold(t) = Matching[t].fold /\ Plain(t) = Matching[t].plain
    BY QueryAssumption DEF Fold, Plain
  <1>5. Cell(row, c) = {row[c]}
    BY DEF Cell, Whole
  <1>6. CASE icase
    <2>1. o = CASE k = "exact" -> "=Fold" [] k = "regex" -> "matchFold"
                [] k = "wildcard" -> "LIKEFold"
      BY <1>1, <1>2, <1>6 DEF Folded
    <2>2. o \notin {"path", "matchWhole"} /\ Fits(o, t) = Fold(t)
      BY <1>1, <2>1 DEF Fits
    <2>3. row[c] \in Matching[t].fold
      BY <1>3, <1>6
    <2> HIDE DEF o, t
    <2>4. QED
      BY <1>4, <1>5, <2>2, <2>3 DEF Passes, o, t
  <1>7. CASE ~icase
    <2>1. o = CASE k = "exact" -> "=" [] k = "regex" -> "match" [] k = "wildcard" -> "LIKE"
      BY <1>1, <1>2, <1>7 DEF Folded
    <2>2. o \notin {"path", "matchWhole"} /\ Fits(o, t) = IF k = "exact" THEN {t} ELSE Plain(t)
      BY <1>1, <2>1 DEF Fits
    <2>3. row[c] \in IF k = "exact" THEN {t} ELSE Matching[t].plain
      BY <1>3, <1>7
    <2> HIDE DEF o, t
    <2>4. QED
      BY <1>4, <1>5, <2>2, <2>3 DEF Passes, o, t
  <1>8. QED
    BY <1>6, <1>7

\* A row with a namespace that a pattern means passes its filter, whichever
\* builder makes the condition.
LEMMA NamespaceMeant ==
    ASSUME NEW row, NEW e \in DOMAIN Entries, Entries[e].valid, ~Entries[e].icase,
           row.namespace_name \in Entries[e].names
    PROVE  /\ PassesNamespace(row, parseNamespaceFilter(e))
           /\ PassesSingle(row, parseNamespaceFilter(e))
  <1>1. Entries[e].icase = FALSE
    BY LimitsAssumption
  <1>2. row["namespace_name"] \in Entries[e].names /\ "namespace_name" \notin Whole
    BY DEF Whole
  <1>3. Passes(row,
               [col |-> "namespace_name", op |-> Folded(OpOf[KindOf(e)], FALSE)],
               Entries[e].text)
    BY <1>1, <1>2, MeantPasses
  <1>4. QED
    BY <1>3 DEF PassesNamespace, PassesSingle, parseNamespaceFilter, Folded

\* So it is with pods, but for an exact name that ignores case, which the
\* Kubernetes builder compares as it is, and for an expression that ignores case,
\* which the content builder matches as it is.
LEMMA PodMeant ==
    ASSUME NEW row, NEW e \in DOMAIN Entries, Entries[e].valid,
           row.pod_name \in Entries[e].names
    PROVE  /\ ~(Entries[e].icase /\ KindOf(e) = "exact") => PassesPod(row, parsePodFilter(e))
           /\ ~(Entries[e].icase /\ KindOf(e) = "regex") => PassesSingle(row, parsePodFilter(e))
  <1> DEFINE b == Entries[e].icase
             k == KindOf(e)
  <1>1. b \in BOOLEAN
    BY LimitsAssumption
  <1>2. row["pod_name"] \in Entries[e].names /\ "pod_name" \notin Whole
    BY DEF Whole
  <1>3. Passes(row, [col |-> "pod_name", op |-> Folded(OpOf[k], b)], Entries[e].text)
    BY <1>1, <1>2, MeantPasses
  <1>4. /\ PassesPod(row, parsePodFilter(e)) <=>
               Passes(row, [col |-> "pod_name", op |-> Folded(OpOf[k], b /\ k # "exact")],
                      Entries[e].text)
        /\ PassesSingle(row, parsePodFilter(e)) <=>
               Passes(row, [col |-> "pod_name", op |-> Folded(OpOf[k], b /\ k # "regex")],
                      Entries[e].text)
    BY DEF PassesPod, PassesSingle, parsePodFilter
  <1> HIDE DEF b, k
  <1>5. /\ ~(b /\ k = "exact") => (b /\ k # "exact") = b
        /\ ~(b /\ k = "regex") => (b /\ k # "regex") = b
    BY <1>1
  <1>6. QED
    BY <1>3, <1>4, <1>5 DEF b, k

\* One of the patterns means the value, or there are none.
MeantIn(v, entries) == entries = {} \/ \E e \in entries : v \in Entries[e].names

\* The patterns are valid, and those of the namespaces have no flag.
Patterns(names, pods) ==
    /\ names \cup pods \subseteq DOMAIN Entries
    /\ \A e \in names \cup pods : Entries[e].valid
    /\ \A e \in names : ~Entries[e].icase

\* A row with names that the patterns mean passes the conditions of the
\* Kubernetes builder, when the patterns of a field are of one type.
LEMMA K8sNamesMet ==
    ASSUME NEW names, NEW pods, Patterns(names, pods),
           NEW filters, ToSet(filters) = FiltersOf(names, pods),
           \A f, g \in ToSet(filters) : f.field = g.field => f.type = g.type,
           \A f \in ToSet(filters) : ~(f.type = "exact" /\ f.icase),
           NEW row, MeantIn(row.namespace_name, names), MeantIn(row.pod_name, pods)
    PROVE  PassesNames(row, filters)
  <1>1. \A e : /\ parseNamespaceFilter(e).field = "namespace_name"
               /\ parsePodFilter(e).field = "pod_name"
               /\ parsePodFilter(e).type = KindOf(e)
               /\ parsePodFilter(e).icase = Entries[e].icase
    BY DEF parseNamespaceFilter, parsePodFilter
  <1>2. ASSUME NEW f \in ToSet(filters), f.field = "namespace_name"
        PROVE  \E g \in ToSet(filters) :
                  g.field = "namespace_name" /\ g.type = f.type /\ PassesNamespace(row, g)
    <2>1. names # {}
      BY <1>1, <1>2 DEF FiltersOf
    <2>2. PICK e \in names : row.namespace_name \in Entries[e].names
      BY <2>1 DEF MeantIn
    <2> DEFINE g == parseNamespaceFilter(e)
    <2>3. g \in ToSet(filters) /\ g.field = "namespace_name"
      BY <1>1 DEF FiltersOf
    <2>4. PassesNamespace(row, g)
      BY <2>2, NamespaceMeant DEF Patterns
    <2> HIDE DEF g
    <2>5. QED
      BY <1>2, <2>3, <2>4
  <1>3. ASSUME NEW f \in ToSet(filters), f.field = "pod_name"
        PROVE  \E g \in ToSet(filters) :
                  g.field = "pod_name" /\ g.type = f.type /\ PassesPod(row, g)
    <2>1. pods # {}
      BY <1>1, <1>3 DEF FiltersOf
    <2>2. PICK e \in pods : row.pod_name \in Entries[e].names
      BY <2>1 DEF MeantIn
    <2> DEFINE g == parsePodFilter(e)
    <2>3. g \in ToSet(filters) /\ g.field = "pod_name"
      BY <1>1 DEF FiltersOf
    <2>4. ~(Entries[e].icase /\ KindOf(e) = "exact")
      BY <1>1, <2>3
    <2>5. PassesPod(row, g)
      BY <2>2, <2>4, PodMeant DEF Patterns
    <2> HIDE DEF g
    <2>6. QED
      BY <1>3, <2>3, <2>5
  <1>4. QED
    BY <1>2, <1>3 DEF PassesNames

\* It passes those of the content builder when each field has one filter.
LEMMA SingleNamesMet ==
    ASSUME NEW names, NEW pods, Patterns(names, pods),
           NEW filters, ToSet(filters) = FiltersOf(names, pods),
           \A f, g \in ToSet(filters) : f.field = g.field => f = g,
           \A f \in ToSet(filters) : ~(f.type = "regex" /\ f.icase),
           NEW row, MeantIn(row.namespace_name, names), MeantIn(row.pod_name, pods)
    PROVE  \A f \in ToSet(filters) : PassesSingle(row, f)
  <1>1. \A e : /\ parseNamespaceFilter(e).field = "namespace_name"
               /\ parsePodFilter(e).field = "pod_name"
               /\ parsePodFilter(e).type = KindOf(e)
               /\ parsePodFilter(e).icase = Entries[e].icase
    BY DEF parseNamespaceFilter, parsePodFilter
  <1>2. ASSUME NEW x \in names
        PROVE  PassesSingle(row, parseNamespaceFilter(x))
    <2>1. PICK e \in names : row.namespace_name \in Entries[e].names
      BY DEF MeantIn
    <2> DEFINE f == parseNamespaceFilter(x)
               g == parseNamespaceFilter(e)
    <2>2. f \in ToSet(filters) /\ g \in ToSet(filters) /\ f.field = g.field
      BY <1>1 DEF FiltersOf
    <2>3. PassesSingle(row, g)
      BY <2>1, NamespaceMeant DEF Patterns
    <2> HIDE DEF f, g
    <2>4. PassesSingle(row, f)
      BY <2>2, <2>3
    <2>5. QED
      BY <2>4 DEF f
  <1>3. ASSUME NEW x \in pods
        PROVE  PassesSingle(row, parsePodFilter(x))
    <2>1. PICK e \in pods : row.pod_name \in Entries[e].names
      BY DEF MeantIn
    <2> DEFINE f == parsePodFilter(x)
               g == parsePodFilter(e)
    <2>2. f \in ToSet(filters) /\ g \in ToSet(filters) /\ f.field = g.field
      BY <1>1 DEF FiltersOf
    <2>3. ~(Entries[e].icase /\ KindOf(e) = "regex")
      BY <1>1, <2>2
    <2>4. PassesSingle(row, g)
      BY <2>1, <2>3, PodMeant DEF Patterns
    <2> HIDE DEF f, g
    <2>5. PassesSingle(row, f)
      BY <2>2, <2>4
    <2>6. QED
      BY <2>5 DEF f
  <1>4. QED
    BY <1>2, <1>3 DEF FiltersOf

\* A parameter of no more than one exact name.
OneName(list) ==
    Len(list) <= 1 /\ \A e \in ToSet(list) :
        e # "" /\ KindOf(e) = "exact" /\ ~Entries[e].icase

\* The patterns are all written alike.
Alike(entries) ==
    \A d, e \in entries : /\ Entries[d].text = Entries[e].text
                          /\ KindOf(d) = KindOf(e)
                          /\ Entries[d].icase = Entries[e].icase

\* A parameter of an exact name, compared as it is, asks for what the patterns
\* mean when it is one of them and they are alike.
LEMMA NameMet ==
    ASSUME NEW list, IsList(list), OneName(list),
           NEW entries, entries \subseteq DOMAIN Entries, ToSet(list) \subseteq entries,
           \A e \in entries : Entries[e].valid, Alike(entries),
           NEW v, MeantIn(v, entries)
    PROVE  Is(v, Raw(list))
  <1>1. Len(list) \in Nat /\ \A i \in 1 .. Len(list) : list[i] \in ToSet(list)
    BY ListLen, ListElements
  <1> DEFINE n == Len(list)
             ExactName(e) == e # "" /\ KindOf(e) = "exact" /\ ~Entries[e].icase
  <1>2. n <= 1
    BY Zenon DEF OneName
  <1>3. \A e \in ToSet(list) : ExactName(e)
    BY Zenon DEF OneName
  <1>4. n \in Nat
    BY <1>1
  <1>5. n = 0 \/ n = 1
    <2> HIDE DEF n, ExactName
    <2>1. QED
      BY <1>2, <1>4
  <1>6. CASE Len(list) = 0
    <2>1. Raw(list) = ""
      BY <1>6, ListNone DEF Raw
    <2>2. QED
      BY <2>1 DEF Is
  <1>7. CASE Len(list) = 1
    <2> DEFINE e == list[1]
    <2>1. e \in ToSet(list)
      <3> HIDE DEF ExactName
      <3>1. QED
        BY <1>1, <1>7
    <2>2. e \in ToSet(list) /\ e # "" /\ KindOf(e) = "exact" /\ ~Entries[e].icase
      BY <1>3, <2>1
    <2>3. list # <<>>
      BY <1>7, ListEmpty
    <2>4. Raw(list) = e
      BY <1>7, <2>2, <2>3 DEF Raw
    <2> HIDE DEF e
    <2>5. e \in entries
      BY <2>2
    <2>6. PICK x \in entries : v \in Entries[x].names
      BY <2>5 DEF MeantIn
    <2>7. /\ Entries[x].text = Entries[e].text /\ KindOf(x) = "exact"
          /\ ~Entries[x].icase
      BY <2>2, <2>5, <2>6 DEF Alike
    <2>8. Entries[e].text = e
      BY <2>2, <2>5, FindingAssumption
    <2>9. Entries[x].names \subseteq {Entries[x].text}
      BY <2>7, FindingAssumption
    <2>10. v = e
      BY <2>6, <2>7, <2>8, <2>9
    <2>11. QED
      BY <2>4, <2>10 DEF Is
  <1>8. QED
    BY <1>5, <1>6, <1>7

\* Filters of which each field has one are those of patterns written alike.
LEMMA OneFilterAlike ==
    ASSUME NEW names, NEW pods, Patterns(names, pods),
           NEW filters, ToSet(filters) = FiltersOf(names, pods),
           \A f, g \in ToSet(filters) : f.field = g.field => f = g
    PROVE  Alike(names) /\ Alike(pods)
  <1>1. \A e : /\ parseNamespaceFilter(e).field = "namespace_name"
               /\ parseNamespaceFilter(e).type = KindOf(e)
               /\ parseNamespaceFilter(e).pattern = Entries[e].text
               /\ parsePodFilter(e).field = "pod_name"
               /\ parsePodFilter(e).type = KindOf(e)
               /\ parsePodFilter(e).pattern = Entries[e].text
               /\ parsePodFilter(e).icase = Entries[e].icase
    BY DEF parseNamespaceFilter, parsePodFilter
  <1>2. /\ \A e \in names : parseNamespaceFilter(e) \in ToSet(filters)
        /\ \A e \in pods : parsePodFilter(e) \in ToSet(filters)
    BY DEF FiltersOf
  <1>3. \A d, e \in names : Entries[d].icase = Entries[e].icase
    BY LimitsAssumption DEF Patterns
  <1>4. \A d, e \in names : parseNamespaceFilter(d) = parseNamespaceFilter(e)
    BY <1>1, <1>2
  <1>5. \A d, e \in pods : parsePodFilter(d) = parsePodFilter(e)
    BY <1>1, <1>2
  <1>6. ASSUME NEW d \in names, NEW e \in names
        PROVE  Entries[d].text = Entries[e].text /\ KindOf(d) = KindOf(e)
    BY <1>1, <1>4
  <1>7. ASSUME NEW d \in pods, NEW e \in pods
        PROVE  /\ Entries[d].text = Entries[e].text /\ KindOf(d) = KindOf(e)
               /\ Entries[d].icase = Entries[e].icase
    BY <1>1, <1>5
  <1>8. QED
    BY <1>3, <1>6, <1>7 DEF Alike

-----------------------------------------------------------------------------
(* The path of a log file *)

\* A path contains any part of it.
LEMMA PartLike ==
    ASSUME NEW a, NEW p, NEW b, IsList(a), IsList(p), IsList(b)
    PROVE  PathLike((a \o p) \o b, p)
  <1> DEFINE ap == a \o p
             path == ap \o b
  <1>1. /\ IsList(ap) /\ Len(ap) = Len(a) + Len(p)
        /\ Len(a) \in Nat /\ Len(p) \in Nat
        /\ \A i \in 1 .. Len(p) : ap[Len(a) + i] = p[i]
    BY ListConcat
  <1> HIDE DEF ap
  <1>2. /\ Len(path) = Len(ap) + Len(b) /\ Len(b) \in Nat
        /\ \A i \in 1 .. Len(ap) : path[i] = ap[i]
    BY <1>1, ListConcat
  <1> HIDE DEF path
  <1>3. DOMAIN p = 1 .. Len(p)
    BY ListLen
  <1>4. Len(a) \in 0 .. (Len(path) - Len(p))
    BY <1>1, <1>2
  <1>5. ASSUME NEW j \in DOMAIN p
        PROVE  path[Len(a) + j] = p[j]
    <2>1. j \in 1 .. Len(p) /\ Len(a) + j \in 1 .. Len(ap)
      BY <1>1, <1>3
    <2>2. QED
      BY <1>1, <1>2, <2>1
  <1>6. PathLike(path, p)
    BY <1>4, <1>5 DEF PathLike
  <1>7. QED
    BY <1>6 DEF path, ap

\* Three lists of which either two may be joined first.
Assoc(s, t, u) == (s \o t) \o u = s \o (t \o u)

\* So are any three.
LEMMA Associative ==
    ASSUME NEW s, NEW t, NEW u, IsList(s), IsList(t), IsList(u)
    PROVE  Assoc(s, t, u)
  BY ConcatAssoc DEF Assoc

\* The path of three names, from its parts.
PathOf(s, p, u, n, c, t) == s \o p \o u \o n \o u \o c \o t

\* A pattern with the second name.
LEMMA SecondNameLike ==
    ASSUME NEW s, NEW p, NEW u, NEW n, NEW c, NEW t,
           IsList(s), IsList(p), IsList(u), IsList(n), IsList(c), IsList(t)
    PROVE  PathLike(PathOf(s, p, u, n, c, t), u \o n \o u)
  <1> DEFINE a == s \o p
             x == u \o n
             b == c \o t
             m == x \o u
             y == a \o m
  <1>1. IsList(a) /\ IsList(x) /\ IsList(b)
    BY ListConcat
  <1> HIDE DEF a, x, b
  <1>2. Assoc(a, u, n) /\ Assoc(a, x, u)
    BY <1>1, Associative
  <1>3. (a \o u) \o n = a \o x
    BY <1>2 DEF Assoc, x
  <1>4. IsList(m)
    BY <1>1, ListConcat
  <1> HIDE DEF m
  <1>5. IsList(y)
    BY <1>1, <1>4, ListConcat
  <1>6. PathLike(y \o b, m)
    BY <1>1, <1>4, PartLike
  <1> HIDE DEF y
  <1>7. Assoc(y, c, t)
    BY <1>5, Associative
  <1>8. PathOf(s, p, u, n, c, t) = (((a \o u) \o n) \o u) \o c \o t
    BY DEF PathOf, a
  <1>9. y = (a \o x) \o u
    BY <1>2 DEF Assoc, y, m
  <1>10. PathOf(s, p, u, n, c, t) = (y \o c) \o t
    BY <1>3, <1>8, <1>9
  <1>11. QED
    BY <1>6, <1>7, <1>10 DEF Assoc, m, x, b

\* A pattern with the first name.
LEMMA FirstNameLike ==
    ASSUME NEW s, NEW p, NEW u, NEW n, NEW c, NEW t,
           IsList(s), IsList(p), IsList(u), IsList(n), IsList(c), IsList(t)
    PROVE  PathLike(PathOf(s, p, u, n, c, t), s \o p \o u)
  <1> DEFINE m == s \o p \o u
             b == n \o u
             d == b \o c
             e == d \o t
  <1>1. IsList(s \o p) /\ IsList(b)
    BY ListConcat
  <1>2. IsList(m)
    BY <1>1, ListConcat
  <1> HIDE DEF m
  <1>3. Assoc(m, n, u)
    BY <1>2, Associative
  <1> HIDE DEF b
  <1>4. IsList(d) /\ Assoc(m, b, c)
    BY <1>1, <1>2, ListConcat, Associative
  <1> HIDE DEF d
  <1>5. IsList(e) /\ Assoc(m, d, t)
    BY <1>2, <1>4, ListConcat, Associative
  <1> HIDE DEF e
  <1>6. PathLike((<<>> \o m) \o e, m)
    BY <1>2, <1>5, ListEmpty, PartLike
  <1>7. <<>> \o m = m
    BY <1>2, EmptyConcat
  <1>8. PathOf(s, p, u, n, c, t) = m \o n \o u \o c \o t
    BY DEF PathOf, m
  <1>9. (m \o n) \o u = m \o b /\ (m \o b) \o c = m \o d /\ (m \o d) \o t = m \o e
    BY <1>3, <1>4, <1>5 DEF Assoc, b, d, e
  <1>10. PathOf(s, p, u, n, c, t) = m \o e
    BY <1>8, <1>9
  <1>11. QED
    BY <1>6, <1>7, <1>10 DEF m

\* A pattern with the third name, and the first part of the tail.
LEMMA ThirdNameLike ==
    ASSUME NEW s, NEW p, NEW u, NEW n, NEW c, NEW d, NEW e,
           IsList(s), IsList(p), IsList(u), IsList(n), IsList(c), IsList(d), IsList(e)
    PROVE  PathLike(PathOf(s, p, u, n, c, d \o e), u \o c \o d)
  <1> DEFINE a == s \o p \o u \o n
             x == u \o c
             m == x \o d
  <1>1. IsList(s \o p) /\ IsList(x) /\ IsList(d \o e)
    BY ListConcat
  <1>2. IsList(s \o p \o u)
    BY <1>1, ListConcat
  <1>3. IsList(a)
    BY <1>2, ListConcat
  <1> HIDE DEF a
  <1>4. Assoc(a, u, c)
    BY <1>3, Associative
  <1> HIDE DEF x
  <1>5. IsList(a \o x)
    BY <1>1, <1>3, ListConcat
  <1>6. Assoc(a \o x, d, e)
    BY <1>5, Associative
  <1>7. Assoc(a, x, d)
    BY <1>1, <1>3, Associative
  <1>8. IsList(m)
    BY <1>1, ListConcat
  <1> HIDE DEF m
  <1>9. PathLike((a \o m) \o e, m)
    BY <1>3, <1>8, PartLike
  <1>10. PathOf(s, p, u, n, c, d \o e) = a \o u \o c \o (d \o e)
    BY DEF PathOf, a
  <1>11. /\ (a \o u) \o c = a \o x
         /\ (a \o x) \o (d \o e) = ((a \o x) \o d) \o e
         /\ (a \o x) \o d = a \o m
    BY <1>4, <1>6, <1>7 DEF Assoc, m, x
  <1>12. PathOf(s, p, u, n, c, d \o e) = (a \o m) \o e
    BY <1>10, <1>11
  <1>13. QED
    BY <1>9, <1>12 DEF m, x

\* A name in a path, between what comes before and after it.
NamedBy(row, before, parts, after) ==
    Lasts(row, parts, <<before>> \o parts \o <<after>>)

\* The path of a row has its three names, each between the characters that the
\* first route looks for.
LEMMA PathNames ==
    ASSUME NEW row \in Rows
    PROVE  /\ NamedBy(row, "_", Spelling[row.namespace_name], "_")
           /\ NamedBy(row, "/", Spelling[row.pod_name], "_")
           /\ NamedBy(row, "_", Spelling[row.container_name], "-")
  <1> DEFINE p == Spelling[row.pod_name]
             n == Spelling[row.namespace_name]
             c == Spelling[row.container_name]
             s == <<"/">>
             u == <<"_">>
             d == <<"-">>
             e == <<"id">>
             path == PathOf(s, p, u, n, c, d \o e)
  <1>1. p \in Seq(STRING) /\ n \in Seq(STRING) /\ c \in Seq(STRING)
    BY SpellingAssumption
  <1>2. <<"-", "id">> = d \o e
    BY ListTwo
  <1>3. Path(row) = path
    BY <1>2 DEF Path, PathOf
  <1>4. IsList(s) /\ IsList(u) /\ IsList(d) /\ IsList(e)
    BY ListOne
  <1> HIDE DEF p, n, c, s, u, d, e
  <1>5. IsList(p) /\ IsList(n) /\ IsList(c)
    BY <1>1, ListIs
  <1>6. IsList(d \o e)
    BY <1>4, ListConcat
  <1>7. PathLike(path, u \o n \o u)
    BY <1>4, <1>5, <1>6, SecondNameLike
  <1>8. PathLike(path, s \o p \o u)
    BY <1>4, <1>5, <1>6, FirstNameLike
  <1>9. PathLike(path, u \o c \o d)
    BY <1>4, <1>5, ThirdNameLike
  <1> HIDE DEF path
  <1>10. \A v : Passes(row, [col |-> "log.file.path", op |-> "path"], v) <=>
                   PathLike(Path(row), v)
    BY DEF Passes
  <1>11. /\ Lasts(row, n, u \o n \o u) /\ Lasts(row, p, s \o p \o u)
         /\ Lasts(row, c, u \o c \o d)
    BY <1>3, <1>7, <1>8, <1>9, <1>10 DEF Lasts
  <1>12. QED
    BY <1>11 DEF NamedBy, p, n, c, s, u, d

-----------------------------------------------------------------------------
(* Rows that are not missed *)

\* A row of the table that meets the piece is selected.
LEMMA MeetsSelected ==
    ASSUME NEW t, NEW p, NEW n, NEW tail, NEW row \in Rows, RowMeets(row, p)
    PROVE  row \in Selected(Sql(t, p, n, tail))
  BY SelectedIs DEF Sql, RowMeets

\* The first route looks for a name of the row, when it is the one that the
\* request gives.
LEMMA NameLasts ==
    ASSUME NEW row, NEW before, NEW after, NEW v, NEW name, Is(v, name),
           NamedBy(row, before, Spelling[v], after),
           NEW parts, parts = IF name = "" THEN <<>> ELSE Spelling[name]
    PROVE  NamedBy(row, before, parts, after)
  <1>1. CASE name = ""
    BY <1>1 DEF NamedBy, Lasts
  <1>2. CASE name # ""
    <2>1. parts = Spelling[v]
      BY <1>2 DEF Is
    <2>2. QED
      BY <2>1
  <1>3. QED
    BY <1>1, <1>2

\* No row that the first route is asked for is missing from its answer, but at the
\* edge of the range, and those that it skips.
LEMMA LegacyHas ==
    ASSUME IInv, stage = "done", request.api = "legacy", NEW row \in Rows \ Unreadable,
           LegacyScope(row), LegacyNames(row), request.text \notin DOMAIN Liked,
           ~AtEdge(row, parseTimeRange(request).start, parseTimeRange(request).end)
    PROVE  row \in rows
  <1> DEFINE range == parseTimeRange(request)
             r == LegacyAsked
  <1>1. main = PagedSql /\ (row \in Selected(main) => row \in rows)
    BY DEF IInv, LegacyBuilt, Fetched, Skipped
  <1>2. /\ r.start = range.start /\ r.end = range.end
        /\ r.node = request.node /\ r.text = request.text
        /\ r.severity = request.severity
        /\ r.namespaceParts =
               IF request.namespace = "" THEN <<>> ELSE Spelling[request.namespace]
        /\ r.podParts = IF request.pod = "" THEN <<>> ELSE Spelling[request.pod]
        /\ r.containerParts =
               IF request.container = "" THEN <<>> ELSE Spelling[request.container]
    BY DEF LegacyAsked
  <1>3. /\ Within(row, range.start, range.end)
        /\ Is(row.host, request.node) /\ Is(row["SeverityText"], request.severity)
        /\ request.text = "" \/ request.text \in row.words
    BY DEF LegacyScope
  <1>4. /\ Timely(range.start) /\ range.start # ""
        /\ Timely(range.end) /\ range.end # ""
        /\ ~AtEdge(row, range.start, range.end)
    BY LegacyTimes
  <1>6. Is(row.namespace_name, request.namespace) /\ Is(row.pod_name, request.pod)
        /\ Is(row.container_name, request.container)
    BY DEF LegacyNames
  <1> HIDE DEF range, r
  <1>5. \A v : Timely(v) /\ v # "" => AsDriverTime(v) # ""
    BY HeldFits, HeldAs
  <1>7. /\ Passes(row, [col |-> "Timestamp", op |-> ">="], AsDriverTime(range.start))
        /\ Passes(row, [col |-> "Timestamp", op |-> "<="], AsDriverTime(range.end))
    <2>1. /\ Met(row, "Timestamp", ">=", AsDriverTime(range.start))
          /\ Met(row, "Timestamp", "<=", AsDriverTime(range.end))
      BY <1>3, <1>4, HeldAs, RangeMet
    <2>2. QED
      BY <1>4, <1>5, <2>1 DEF Met
  <1>8. request.node = "" \/ AtHost(row, request.node)
    BY <1>3, HostPass
  <1>9. Met(row, "Body", "LIKEText", request.text)
    BY <1>3, WordMet
  <1>10. Met(row, "SeverityText", "=", request.severity)
    BY <1>3, ValueMet DEF Whole
  <1>11. /\ NamedBy(row, "_", Spelling[row.namespace_name], "_")
         /\ NamedBy(row, "/", Spelling[row.pod_name], "_")
         /\ NamedBy(row, "_", Spelling[row.container_name], "-")
    BY PathNames
  <1>12. /\ NamedBy(row, "_", r.namespaceParts, "_")
         /\ NamedBy(row, "/", r.podParts, "_")
         /\ NamedBy(row, "_", r.containerParts, "-")
    BY <1>2, <1>6, <1>11, NameLasts
  <1>13. MetLegacy(row, r)
    BY <1>2, <1>7, <1>8, <1>9, <1>10, <1>12 DEF MetLegacy, NamedBy
  <1>14. QED
    BY <1>1, <1>13, LegacySelects DEF r

\* No row that an aggregation is asked to count is left out of it.
LEMMA AggregationHas ==
    ASSUME IInv, stage = "done", request.api = "aggregation", NEW row \in Rows,
           AggregationScope(row), ~AtEdge(row, request.start, request.end)
    PROVE  row \in rows
  <1>1. /\ main =
               Sql("logs_mv", AggregationWhereClause(request), main.names, <<>>)
        /\ rows = Selected(main)
    BY DEF IInv, AggregationBuilt, Fetched, Skipped
  <1>2. request.namespaces \in Seq(STRING) /\ request.pods \in Seq(STRING)
    BY DEF IInv, Progress, IsRequest
  <1>3. IsList(request.namespaces) /\ IsList(request.pods)
    BY <1>2, ListIs
  <1>4. /\ row["dataset"] = request.dataset
        /\ Within(row, request.start, request.end)
        /\ request.namespaces # <<>> => Contains(request.namespaces, row["namespace_name"])
        /\ request.pods # <<>> => Contains(request.pods, row["pod_name"])
        /\ Is(row["SeverityText"], request.severity)
        /\ request.text = "" \/ row.words \cap Fold(request.text) # {}
    BY DEF AggregationScope
  <1>5. Is(row["dataset"], request.dataset)
    BY <1>4 DEF Is
  <1>6. /\ Met(row, "dataset", "=", request.dataset)
        /\ Met(row, "SeverityText", "=", request.severity)
    BY <1>4, <1>5, ValueMet DEF Whole
  <1>7. /\ Met(row, "Timestamp", ">=", AsDriverTime(request.start))
        /\ Met(row, "Timestamp", "<=", AsDriverTime(request.end))
    <2>1. Timely(request.start) /\ Timely(request.end)
      BY DEF IInv, Progress, IsRequest, Timely
    <2>2. QED
      BY <1>4, <2>1, HeldAs, RangeMet
  <1>8. Met(row, "Content", "positionFold", request.text)
    BY <1>4, FoldMet
  <1>9. \/ request.namespaces = <<>>
        \/ \E x \in ToSet(request.namespaces) :
               Passes(row, [col |-> "namespace_name", op |-> "="], x)
    <2> DEFINE v == row["namespace_name"]
    <2>1. Passes(row, [col |-> "namespace_name", op |-> "="], v)
      BY EqualPass DEF Whole
    <2>2. request.namespaces = <<>> \/ v \in ToSet(request.namespaces)
      BY <1>3, <1>4, ListElements DEF Contains
    <2> HIDE DEF v
    <2>3. QED
      BY <2>1, <2>2
  <1>10. \/ request.pods = <<>>
         \/ \E x \in ToSet(request.pods) :
                Passes(row, [col |-> "pod_name", op |-> "="], x)
    <2> DEFINE v == row["pod_name"]
    <2>1. Passes(row, [col |-> "pod_name", op |-> "="], v)
      BY EqualPass DEF Whole
    <2>2. request.pods = <<>> \/ v \in ToSet(request.pods)
      BY <1>3, <1>4, ListElements DEF Contains
    <2> HIDE DEF v
    <2>3. QED
      BY <2>1, <2>2
  <1>11. MetAggregation(row, request)
    BY <1>6, <1>7, <1>8, <1>9, <1>10 DEF MetAggregation
  <1>12. RowMeets(row, AggregationWhereClause(request))
    BY <1>3, <1>11, AggregationPiece
  <1> DEFINE n == main.names
  <1> HIDE DEF n
  <1>13. row \in Selected(Sql("logs_mv", AggregationWhereClause(request), n, <<>>))
    BY <1>12, MeetsSelected
  <1>14. QED
    BY <1>1, <1>13 DEF n

\* A statement with an argument for the node does not run: the table has no such
\* column.
LEMMA NoNodeRuns ==
    ASSUME NEW p, FitPiece(p), Places(p, "node_name"), NEW n,
           Runs(Sql("logs_mv", p, n, <<>>))
    PROVE  FALSE
  <1> DEFINE w == p.where
             a == p.args
             sql == Sql("logs_mv", p, n, <<>>)
  <1>1. IsList(a) /\ Slots(w) = ForsOf(a)
    BY DEF FitPiece, Fit
  <1>2. PICK x \in ToSet(a) : x.for = "node_name"
    BY DEF Places
  <1>3. sql.where = w /\ sql.table = "logs_mv"
    BY DEF Sql
  <1> HIDE DEF w, a, sql
  <1>4. PICK i \in 1 .. Len(a) : a[i] = x
    BY <1>1, <1>2, ListElements
  <1>5. i \in DOMAIN a
    BY <1>1, <1>4, ListLen
  <1>6. "node_name" \in ToSet(ForsOf(a))
    BY <1>2, <1>4, <1>5 DEF ForsOf, ToSet
  <1>7. ToSet(Slots(w)) \subseteq MaterializedColumns
    BY <1>3 DEF Runs, Columns, sql
  <1>8. "node_name" \notin MaterializedColumns
    BY DEF MaterializedColumns
  <1>9. QED
    BY <1>1, <1>6, <1>7, <1>8

\* What is known of the patterns of a request that is served, and of the filters
\* that they are parsed to.
LEMMA AskedPatterns ==
    ASSUME Ready
    PROVE  /\ Patterns(ToSet(Names), ToSet(Pods))
           /\ ToSet(query.k8s) = FiltersOf(ToSet(Names), ToSet(Pods))
  <1>1. request.api = "logs" /\ IsRequest(request) /\ ParsedNames.ok
    BY DEF Ready, Asked, Progress
  <1>2. query.k8s = ParsedNames.filters
    BY AskedIs
  <1>3. \A e \in ToSet(Names) : ~Entries[e].icase
    BY <1>1, GivenNames
  <1>4. /\ ToSet(Names) \cup ToSet(Pods) \subseteq DOMAIN Entries
        /\ \A e \in ToSet(Names) \cup ToSet(Pods) : Entries[e].valid
        /\ ToSet(ParsedNames.filters) = FiltersOf(ToSet(Names), ToSet(Pods))
    BY <1>1, AskedNames
  <1>5. QED
    BY <1>2, <1>3, <1>4 DEF Patterns

\* A name that any of a list of patterns means.
LEMMA MeantOf ==
    ASSUME NEW v, NEW list, AnyMeant(v, list)
    PROVE  MeantIn(v, ToSet(list))
  BY ListEmpty DEF AnyMeant, MeantIn

\* A row of the request's scope meets the parameters that every builder looks at,
\* whatever the builder holds of the times.
LEMMA ScopeMet ==
    ASSUME Ready, NEW row, LogsScope(row), ~AtEdge(row, query.start, query.end)
    PROVE  /\ \A s \in Held(query.start), e \in Held(query.end) :
                  MetParameters(row, query, s, e)
           /\ Is(row["container_name"], query.container)
           /\ Is(row["SeverityText"], query.severity)
  <1>1. query.dataset = request.dataset /\ query.container = request.container
    BY AskedIs
  <1>2. /\ row["dataset"] = request.dataset
        /\ Within(row, query.start, query.end)
        /\ Is(row["container_name"], query.container)
        /\ Is(row["SeverityText"], query.severity)
    BY <1>1 DEF LogsScope
  <1>3. Is(row["dataset"], query.dataset)
    BY <1>1, <1>2 DEF Is
  <1>4. /\ Met(row, "dataset", "=", query.dataset)
        /\ Met(row, "container_name", "=", query.container)
        /\ Met(row, "SeverityText", "=", query.severity)
    BY <1>2, <1>3, ValueMet DEF Whole
  <1>5. \A s \in Held(query.start), e \in Held(query.end) :
            Met(row, "Timestamp", ">=", s) /\ Met(row, "Timestamp", "<=", e)
    BY <1>2, QueryTimes, RangeMet
  <1>6. QED
    BY <1>2, <1>4, <1>5 DEF MetParameters

\* The single parameters, as the query has them.
LEMMA AskedSingles ==
    ASSUME Ready
    PROVE  query.namespace = Raw(request.namespace) /\ query.pod = Raw(request.podName)
  <1>1. query = AskedQuery
    BY DEF Ready, Asked
  <1>2. QED
    BY <1>1 DEF AskedQuery

\* Each of the two single parameters is met by a row of the scope, when it is one
\* exact name.
LEMMA SinglesMet ==
    ASSUME Ready, OneName(request.namespace), OneName(request.podName),
           \A f, g \in ToSet(query.k8s) : f.field = g.field => f = g,
           NEW row, LogsScope(row)
    PROVE  /\ Met(row, "namespace_name", "=", query.namespace)
           /\ Met(row, "pod_name", "=", query.pod)
  <1> DEFINE names == ToSet(Names)
             pods == ToSet(Pods)
  <1>1. Patterns(names, pods) /\ ToSet(query.k8s) = FiltersOf(names, pods)
    BY AskedPatterns
  <1>2. Alike(names) /\ Alike(pods)
    <2> DEFINE filters == query.k8s
    <2>1. ToSet(filters) = FiltersOf(names, pods)
      BY <1>1
    <2>2. \A f, g \in ToSet(filters) : f.field = g.field => f = g
      OBVIOUS
    <2> HIDE DEF names, pods, filters
    <2>3. QED
      BY <1>1, <2>1, <2>2, OneFilterAlike
  <1>3. /\ names \cup pods \subseteq DOMAIN Entries
        /\ \A e \in names \cup pods : Entries[e].valid
    BY <1>1 DEF Patterns
  <1>4. /\ IsList(request.namespace) /\ IsList(request.podName)
        /\ names = (ToSet(request.namespace) \cup ToSet(request.namespaces)) \ {""}
        /\ pods = (ToSet(request.podName) \cup ToSet(request.podNames)) \ {""}
    BY GivenNames DEF Ready, Progress
  <1>5. /\ \A e \in ToSet(request.namespace) : e # ""
        /\ \A e \in ToSet(request.podName) : e # ""
    BY DEF OneName
  <1>6. ToSet(request.namespace) \subseteq names /\ ToSet(request.podName) \subseteq pods
    BY <1>4, <1>5
  <1>7. MeantIn(row["namespace_name"], names) /\ MeantIn(row["pod_name"], pods)
    BY MeantOf DEF LogsScope
  <1>8. \A e \in names : Entries[e].valid
    BY <1>3
  <1>9. \A e \in pods : Entries[e].valid
    BY <1>3
  <1> HIDE DEF names, pods
  <1>10. Is(row["namespace_name"], Raw(request.namespace))
    BY <1>2, <1>3, <1>4, <1>6, <1>7, <1>8, NameMet
  <1>11. Is(row["pod_name"], Raw(request.podName))
    BY <1>2, <1>3, <1>4, <1>6, <1>7, <1>9, NameMet
  <1>12. QED
    BY <1>10, <1>11, AskedSingles, ValueMet DEF Whole

\* A row that the request and its search ask for meets the statement of the
\* content builder, when that runs and the names and the search are exact.
LEMMA ContentMet ==
    ASSUME Ready, Builder = "content", Exact, NamesExact,
           Runs(Sql("logs_mv", LogsPiece, {}, <<>>)),
           NEW row \in Rows, LogsScope(row), ~AtEdge(row, query.start, query.end), Meant(row)
    PROVE  RowMeets(row, LogsPiece)
  <1> DEFINE names == ToSet(Names)
             pods == ToSet(Pods)
             filters == query.k8s
  <1>1. Typed
    BY AskedQueryTyped DEF Ready
  <1>2. LogsPiece = buildWhereClause(query)
    BY DEF LogsPiece
  <1>3. FitPiece(LogsPiece) /\ PlacesNode(LogsPiece, query)
    BY <1>1, <1>2, ContentPiece DEF Typed
  <1>4. query.node = ""
    BY <1>3, NoNodeRuns DEF PlacesNode
  <1>5. /\ \A f, g \in ToSet(filters) : f.field = g.field => f = g
        /\ \A f \in ToSet(filters) : ~(f.type = "regex" /\ f.icase)
        /\ OneName(request.namespace) /\ OneName(request.podName)
    BY DEF NamesExact, OneName
  <1>6. Patterns(names, pods) /\ ToSet(filters) = FiltersOf(names, pods)
    BY AskedPatterns
  <1>7. MeantIn(row.namespace_name, names) /\ MeantIn(row.pod_name, pods)
    BY MeantOf DEF LogsScope
  <1>8. \A f \in ToSet(filters) : PassesSingle(row, f)
    <2> HIDE DEF names, pods, filters
    <2>1. QED
      BY <1>5, <1>6, <1>7, SingleNamesMet
  <1>9. MetParameters(row, query, AsDriverTime(query.start), AsDriverTime(query.end))
    BY ScopeMet, HeldAs
  <1>10. /\ Met(row, "namespace_name", "=", query.namespace)
         /\ Met(row, "pod_name", "=", query.pod)
    BY <1>5, SinglesMet
  <1>11. Met(row, "node_name", "=", query.node)
    BY <1>4 DEF Met
  <1>12. MetNames(row, query)
    BY <1>8, <1>9, <1>10, <1>11 DEF MetNames, MetParameters
  <1>13. query.search = ParsedSearch.filters /\ ParsedSearch.ok
         /\ request \in Requests /\ IsRequest(request) /\ request.api = "logs"
    BY AskedIs DEF Ready, Asked, Progress
  <1>14. Flat(query.search)
    BY <1>13, FoundIsAsked DEF Exact
  <1>15. SearchMet(row, query.search)
    BY <1>13, AskedIsFound
  <1>16. RowMeets(row, buildContentSearchConditions(query.search))
    BY <1>1, <1>14, <1>15, SearchMeets DEF Typed
  <1>17. QED
    BY <1>1, <1>2, <1>9, <1>12, <1>16, ContentPiece DEF Typed

\* So it does with the Kubernetes builder, which has no search.
LEMMA K8sMet ==
    ASSUME Ready, Builder = "k8s", Exact, NamesExact, NEW row, LogsScope(row),
           ~AtEdge(row, query.start, query.end)
    PROVE  RowMeets(row, LogsPiece)
  <1> DEFINE names == ToSet(Names)
             pods == ToSet(Pods)
             filters == query.k8s
  <1>1. Typed
    BY AskedQueryTyped DEF Ready
  <1>2. LogsPiece = BuildK8sOptimizedQuery(query)
    BY DEF LogsPiece
  <1>3. /\ \A f, g \in ToSet(filters) : f.field = g.field => f.type = g.type
        /\ \A f \in ToSet(filters) : ~(f.type = "exact" /\ f.icase)
        /\ ~NodeUnplaced
    BY DEF NamesExact
  <1>4. query.node = ""
    BY <1>3, AskedIs DEF NodeUnplaced, Ready
  <1>5. Patterns(names, pods) /\ ToSet(filters) = FiltersOf(names, pods)
    BY AskedPatterns
  <1>6. MeantIn(row.namespace_name, names) /\ MeantIn(row.pod_name, pods)
    BY MeantOf DEF LogsScope
  <1>7. PassesNames(row, filters)
    <2> HIDE DEF names, pods, filters
    <2>1. QED
      BY <1>3, <1>5, <1>6, K8sNamesMet
  <1>8. query.text = ""
    BY BuilderIs DEF Exact
  <1>9. Met(row, "Content", "positionFold", query.text)
    BY <1>8 DEF Met
  <1>10. MetParameters(row, query, AsDriverTime(query.start), AsDriverTime(query.end))
    BY ScopeMet, HeldAs
  <1>11. QED
    BY <1>1, <1>2, <1>4, <1>7, <1>9, <1>10, K8sPiece DEF Typed

\* So it does with the time builder, which has no names either.
LEMMA TimeMet ==
    ASSUME Ready, Builder = "time", Exact, NamesExact, NEW row, LogsScope(row),
           ~AtEdge(row, query.start, query.end)
    PROVE  RowMeets(row, LogsPiece)
  <1>1. LogsPiece = BuildOptimizedTimeRangeQuery(query)
    BY DEF LogsPiece
  <1>2. request.namespace = <<>> /\ request.podName = <<>>
    BY DEF NamesExact
  <1>3. query.namespace = "" /\ query.pod = ""
    <2>1. query.namespace = Raw(<<>>) /\ query.pod = Raw(<<>>)
      BY <1>2, AskedSingles
    <2>2. Raw(<<>>) = ""
      BY ListEmpty DEF Raw
    <2>3. QED
      BY <2>1, <2>2
  <1>4. query.text = ""
    BY BuilderIs DEF Exact
  <1>5. /\ Met(row, "namespace_name", "=", query.namespace)
        /\ Met(row, "pod_name", "LIKE", query.pod)
        /\ Met(row, "Content", "positionFold", query.text)
    BY <1>3, <1>4 DEF Met
  <1>6. MetParameters(row, query, AsFloat(query.start), AsFloat(query.end))
    BY ScopeMet, HeldAs
  <1>7. MetAdditional(row, query)
    BY <1>5, <1>6 DEF MetParameters, MetAdditional
  <1>8. QED
    BY <1>1, <1>6, <1>7, TimePiece

\* No row that the logs route is asked for is missing from its answer.
LEMMA LogsHas ==
    ASSUME IInv, stage = "done", request.api = "logs", Exact, NamesExact,
           NEW row \in Rows, LogsScope(row), ~AtEdge(row, query.start, query.end), Meant(row)
    PROVE  row \in rows
  <1>1. /\ main = Sql("logs_mv", LogsPiece, {}, <<>>)
        /\ rows = Selected(main) /\ Runs(main)
    BY DEF IInv, LogsBuilt, LogsSql, LogsPiece, Fetched, Skipped
  <1>2. Ready
    BY DEF Ready, IInv
  <1>3. RowMeets(row, LogsPiece)
    BY <1>1, <1>2, BuilderIs, ContentMet, K8sMet, TimeMet
  <1>4. QED
    BY <1>1, <1>3, MeetsSelected

\* So no row is missed.
LEMMA NoRowMissing ==
    IInv => NothingMissed
  <1> SUFFICES ASSUME IInv, stage = "done"
               PROVE  NothingMissed
    BY DEF NothingMissed
  <1>1. CASE request.api = "logs"
    BY <1>1, LogsHas DEF NothingMissed
  <1>2. CASE request.api = "aggregation"
    BY <1>2, AggregationHas DEF NothingMissed
  <1>3. CASE request.api = "legacy"
    BY <1>3, LegacyHas DEF NothingMissed
  <1>4. QED
    BY <1>1, <1>2, <1>3 DEF IInv, Progress, IsRequest

\* Each parameter reaches the statement of the log route by another way: as a
\* condition of its own, as one of the patterns that the Kubernetes builder or
\* the basic one makes conditions of, or as filters of the parsed search, and
\* the two other routes leave most of them out. None of these ways refuses a
\* row that the request asks for: every row of its time range that its
\* parameters and its search mean is in the answer, where the names are
\* compared as they are written and the search is one that the list of filters
\* can hold.
THEOREM NoRowIsMissed == Spec => []NothingMissed
  BY Invariance, NoRowMissing, PTL
=============================================================================
