------------------------------ MODULE MCQuerySql ------------------------------
(***************************************************************************)
(* Values for the constants of QuerySql: rows that differ in one or two    *)
(* columns, and families of requests, each of which varies what one part   *)
(* of the program reads.                                                   *)
(***************************************************************************)
EXTENDS QuerySql

EightTimes == <<"t0", "t1", "t2", "t3", "t4", "t5", "t6", "t7">>

\* float64 moves both ends of the range out, the driver one of them in
Floats == [t \in ToSet(EightTimes) |-> CASE t = "t2" -> "t1" [] t = "t5" -> "t6" [] OTHER -> t]

DriverTimes == [t \in ToSet(EightTimes) |-> IF t = "t5" THEN "t4" ELSE t]

NearTimes == [t \in ToSet(EightTimes) |->
                 CASE t = "t2" -> {"t1", "t2"} [] t = "t5" -> {"t4", "t5", "t6"}
                   [] OTHER -> {}]

Line(d, t, ns, pod, c, sev, host, words) ==
    [dataset |-> d, Timestamp |-> t, namespace_name |-> ns, pod_name |-> pod,
     container_name |-> c, SeverityText |-> sev, host |-> host, words |-> words,
     phrases |-> words]

Common == Line("d1", "t3", "prod", "web-1", "app", "ERROR", "node1", {"a"})

\* one that cannot be scanned
BadRow == [Common EXCEPT !.dataset = "d2"]

BadRows == {BadRow}

\* every namespace and pod; every set of words; every other column changed; a word
\* inside of another one, and a phrase with an operator in it
SomeRows ==
    {[Common EXCEPT !.namespace_name = ns, !.pod_name = pod] :
        ns \in {"prod", "dev"}, pod \in {"web-1", "web-prod", "db-1"}}
    \cup {[Common EXCEPT !.words = w, !.phrases = w] :
            w \in SUBSET {"a", "b", "c"} \cup {{"A"}, {"a", "b", "a NOT b"}}}
    \cup {[Common EXCEPT !.Timestamp = t] : t \in {"t0", "t1", "t4", "t6", "t7"}}
    \cup {BadRow, [Common EXCEPT !.phrases = {}],
          [Common EXCEPT !.container_name = "side"], [Common EXCEPT !.host = "node2"],
          [Common EXCEPT !.SeverityText = "INFO"],
          [Common EXCEPT !.SeverityText = "INFO", !.container_name = "side"]}

Parts ==
    ("prod" :> <<"prod">>) @@ ("dev" :> <<"dev">>) @@ ("web-1" :> <<"web", "-", "1">>)
    @@ ("web-prod" :> <<"web", "-", "prod">>) @@ ("db-1" :> <<"db", "-", "1">>)
    @@ ("app" :> <<"app">>) @@ ("side" :> <<"side">>) @@ ("web" :> <<"web">>)

Entry(regex, star, icase, text, valid, names) ==
    [regex |-> regex, star |-> star, icase |-> icase, text |-> text, valid |-> valid,
     names |-> names]

Patterns ==
    ("prod" :> Entry(FALSE, FALSE, FALSE, "prod", TRUE, {"prod"}))
    @@ ("dev" :> Entry(FALSE, FALSE, FALSE, "dev", TRUE, {"dev"}))
    @@ ("PROD" :> Entry(FALSE, FALSE, FALSE, "PROD", FALSE, {}))
    @@ ("p*" :> Entry(FALSE, TRUE, FALSE, "p*", TRUE, {"prod"}))
    @@ ("regex:d" :> Entry(TRUE, FALSE, FALSE, "d", TRUE, {"prod", "dev"}))
    @@ ("web-1" :> Entry(FALSE, FALSE, FALSE, "web-1", TRUE, {"web-1"}))
    @@ ("web-*" :> Entry(FALSE, TRUE, FALSE, "web-*", TRUE, {"web-1", "web-prod"}))
    @@ ("web_*" :> Entry(FALSE, TRUE, FALSE, "web_*", TRUE, {}))
    @@ ("regex:.*1" :> Entry(TRUE, TRUE, FALSE, ".*1", TRUE, {"web-1", "db-1"}))
    @@ ("icase:WEB-1" :> Entry(FALSE, FALSE, TRUE, "WEB-1", TRUE, {"web-1", "WEB-1"}))
    @@ ("icase:WEB-*" :> Entry(FALSE, TRUE, TRUE, "WEB-*", TRUE, {"web-1", "web-prod"}))

Both(names) == [plain |-> names, fold |-> names]

Matches ==
    ("prod" :> Both({"prod"})) @@ ("dev" :> Both({"dev"})) @@ ("p*" :> Both({"prod"}))
    @@ ("PROD" :> [plain |-> {}, fold |-> {"prod"}])
    @@ ("d" :> Both({"prod", "dev"})) @@ ("web-1" :> Both({"web-1"}))
    @@ ("web-*" :> Both({"web-1", "web-prod"})) @@ ("web_*" :> Both({"web-1", "web-prod"}))
    @@ (".*1" :> Both({"web-1", "db-1"}))
    @@ ("WEB-1" :> [plain |-> {}, fold |-> {"web-1", "WEB-1"}])
    @@ ("WEB-*" :> [plain |-> {}, fold |-> {"web-1", "web-prod"}])
    @@ ("a" :> [plain |-> {"a"}, fold |-> {"a", "A"}])
    @@ ("A" :> [plain |-> {"A"}, fold |-> {"a", "A"}])
    @@ ("a|b" :> Both({"a", "b"}))

\* any character, and a text of the table
Wildcards == ("_" :> {"a", "b", "c", "A", "a NOT b"}) @@ ("a_" :> {"a NOT b"})

UpperCases ==
    ("and" :> "AND") @@ ("Or" :> "OR") @@ ("not" :> "NOT") @@ ("a" :> "A") @@ ("b" :> "B")
    @@ ("c" :> "C") @@ ("err" :> "ERR")

Operators == ("a NOT b" :> {"NOT"})

-----------------------------------------------------------------------------
NoSearch == [kind |-> "none"]

LogsRequest ==
    [api |-> "logs", dataset |-> "d1", namespace |-> <<>>, namespaces |-> <<>>,
     podName |-> <<>>, podNames |-> <<>>, start |-> "", end |-> "", container |-> "",
     node |-> "", severity |-> "", filter |-> NoSearch, search |-> NoSearch,
     operator |-> ""]

NamespaceEntries == {"prod", "dev", "PROD", "p*", "regex:d"}

PodEntries == {"web-1", "web-*", "web_*", "regex:.*1", "icase:WEB-1", "icase:WEB-*"}

Lists(S) == {<<>>} \cup {<<s>> : s \in S}

\* a single parameter of no, one or two names, or of blanks, and a list beside it
NameRequests ==
    {[LogsRequest EXCEPT !.namespace = n, !.namespaces = l, !.podName = p, !.podNames = q] :
        n \in Lists({"prod", "p*", ""}) \cup {<<"", "">>, <<"prod", "dev">>},
        l \in Lists(NamespaceEntries),
        p \in Lists(PodEntries) \cup {<<"web-1", "web-*">>, <<"web-1", "icase:WEB-1">>},
        q \in Lists({"web-*", "regex:.*1"})}

Literal(neg, w) == [neg |-> neg, word |-> w]

Clauses ==
    {<<Literal(x, "a")>> : x \in BOOLEAN}
    \cup {<<Literal(x, v), Literal(y, w)>> : x, y \in BOOLEAN, v \in {"a", "b"}, w \in {"c"}}

Sums == {<<c>> : c \in Clauses} \cup {<<c, d>> : c, d \in Clauses}
        \cup {<<c, d, <<Literal(FALSE, "b")>> >> : c, d \in {<<Literal(FALSE, w)>> : w \in {"a", "c"}}}

SumSearches ==
    {[kind |-> "boolean", form |-> "sum", formula |-> sum, tokens |-> SumTokens(sum)] :
        sum \in Sums}
    \cup {[kind |-> "phrase", form |-> "sum", formula |-> sum, phrases |-> Written(sum),
           closed |-> TRUE] : sum \in Sums}

\* factors in parentheses, which stand alone or are attached to the words
Factors ==
    [neg : BOOLEAN, words : {<<"a">>, <<"a", "b">>, <<"b", "c">>}, attached : BOOLEAN]

ProductSearches ==
    {[kind |-> "boolean", form |-> "product", formula |-> product,
      tokens |-> ProductTokens(product)] :
        product \in {<<f>> : f \in Factors} \cup {<<f, g>> : f, g \in Factors}}

Malformed ==
    {[kind |-> "boolean", form |-> "none", formula |-> <<>>, tokens |-> t] :
        t \in {<<>>, <<"OR", "a">>, <<"a", "and">>, <<"(", ")">>, <<"not", "a", "b">>,
               <<"a", "Or", "AND", "b">>}}
    \cup {[kind |-> "phrase", form |-> "none", formula |-> <<>>, closed |-> x,
           phrases |-> p] :
              x \in BOOLEAN,
              p \in {<<[phrase |-> "a", before |-> o]>> : o \in {<<>>, <<"", "NOT">>}}
                     \cup {<<[phrase |-> v, before |-> <<>>],
                             [phrase |-> "b", before |-> <<"OR">>]>> : v \in {"", "a"}}}

\* the phrase with an operator in it, by itself and with another one
InsideSearches ==
    {[kind |-> "phrase", form |-> "sum", formula |-> sum, phrases |-> Written(sum),
      closed |-> TRUE] :
        sum \in {<<<<Literal(FALSE, "a NOT b")>>>>,
                 <<<<Literal(FALSE, "a"), Literal(FALSE, "a NOT b")>>>>}}

Term(mark, wild, w) == [mark |-> mark, wild |-> wild, word |-> w]

Terms == {Term("", FALSE, "a"), Term("", FALSE, "b"), Term("icase:", FALSE, "A"),
          Term("NOT:", FALSE, "b"), Term("", TRUE, "a")}

SimpleSearches ==
    {[kind |-> "simple", terms |-> t] : t \in BoundedSeq(Terms, 2) \ {<<>>}}
    \cup {[kind |-> "simple", terms |-> <<t, t, t, t>>] : t \in Terms}

OtherSearches ==
    {[kind |-> "regex", pattern |-> "a|b", safe |-> s] : s \in BOOLEAN}
    \cup {[kind |-> "proximity", distance |-> d, words |-> w] :
            d \in {0, 2, 5}, w \in {<<"a">>, <<"a", "b">>}}

Searches == SumSearches \cup InsideSearches \cup ProductSearches \cup Malformed \cup SimpleSearches \cup OtherSearches

\* a search of blanks, which has no terms
Blank == [kind |-> "simple", terms |-> <<>>]

SearchRequests ==
    {[LogsRequest EXCEPT !.search = s] : s \in Searches}
    \cup {[LogsRequest EXCEPT !.search = s, !.filter = f, !.podNames = p] :
            s \in {Blank, NoSearch}, f \in SimpleSearches \cup {Blank},
            p \in Lists({"web-1"})}
    \cup {[LogsRequest EXCEPT !.search = s, !.filter = f, !.operator = o,
                              !.namespaces = l, !.podName = p] :
            s \in SimpleSearches \cup {NoSearch}, f \in {NoSearch} \cup Malformed,
            o \in {"AND", "OR"}, l \in {<<>>, <<"prod">>}, p \in {<<>>, <<"web-1">>}}

\* every other parameter, through each of the three builders
ParameterRequests ==
    {[LogsRequest EXCEPT !.dataset = d] : d \in {"", "d2"}} \cup
    {[LogsRequest EXCEPT !.start = s, !.end = e, !.container = c, !.node = n,
                         !.severity = v, !.namespace = l, !.podNames = p, !.search = x] :
        s \in {"", "t2"}, e \in {"", "t3"}, c \in {"", "side"}, n \in {"", "node1"},
        v \in {"", "err", "INFO"}, l \in Lists({"prod", "p*"}),
        p \in Lists({"web-1", "icase:WEB-*"}),
        x \in {NoSearch, [kind |-> "simple", terms |-> <<Term("", FALSE, "a")>>]}}

AggregationRequests ==
    {[api |-> "aggregation", dataset |-> "", namespaces |-> <<>>, pods |-> <<>>, start |-> "",
      end |-> "t5", severity |-> "", text |-> "", dimensions |-> <<"severity">>,
      functions |-> <<>>, bucket |-> "1h", orderBy |-> <<>>]} \cup
    {[api |-> "aggregation", dataset |-> "d1", namespaces |-> n, pods |-> p, start |-> s,
      end |-> "t5", severity |-> v, text |-> w, dimensions |-> d, functions |-> f,
      bucket |-> b, orderBy |-> o] :
        n \in Lists({"prod"}) \cup {<<"prod", "dev">>}, p \in Lists({"web-1", "web-*"}),
        s \in {"", "t2"}, v \in {"", "ERROR"}, w \in {"", "A"},
        d \in {<<>>, <<"severity">>, <<"timestamp">>, <<"node_name">>, <<"namespace", "pod_name">>,
               <<"namespace", "pod_name", "dataset">>, <<"timestamp", "unheard-of">>},
        f \in {<<>>, <<"count">>, <<"avg">>, <<"distinct_count">>},
        b \in {"5m", "1h", "2h"}, o \in {<<>>, <<"time_bucket">>}}

LegacyRequests ==
    {[api |-> "legacy", namespace |-> n, pod |-> p, container |-> c, node |-> h, text |-> w,
      severity |-> v, start |-> s, end |-> e] :
        n \in {"", "prod", "dev"}, p \in {"", "web-1", "web"}, c \in {"", "app"},
        h \in {"", "node1"}, w \in {"", "a", "_", "a_"}, v \in {"", "INFO"},
        s \in {"", "t0", "never"}, e \in {"", "t3"}}

AllRequests ==
    NameRequests \cup SearchRequests \cup ParameterRequests \cup AggregationRequests
        \cup LegacyRequests

OnlySearches == {[LogsRequest EXCEPT !.search = s] : s \in SimpleSearches}
=============================================================================
