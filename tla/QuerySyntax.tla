----------------------------- MODULE QuerySyntax -----------------------------
(***************************************************************************)
(* What the query service makes of the text of a request: the lists of     *)
(* namespaces and pods (handler.go, service.go, k8s_validator.go) and the  *)
(* search expressions (content_search_validator.go).                       *)
(*                                                                         *)
(* A name pattern is looked up in Entries, which tells what its characters *)
(* are; a search is a record whose "kind" tells how it is written.  A      *)
(* parser returns [ok, filters]: the filters, unless the text is refused.  *)
(***************************************************************************)
EXTENDS Naturals, SequencesExt

CONSTANTS
    Entries,              \* the name patterns: [regex, star, icase, text, valid],
                          \* and the names each means, which no parser reads
    Upper,                \* the texts that are not in upper case: what makes them so
    Inside,               \* the operators that phrases have in them, blanks around
    MaxFilterCount,       \* name patterns in a request (50 in the code)
    MaxSearchTerms,       \* words in a simple search (20)
    MaxProximity,         \* the distance of a proximity search (50)
    MaxDimensions,        \* dimensions of an aggregation (5)
    MaxFunctions,         \* functions of an aggregation (8)
    MaxQueryComplexity    \* tenths of the complexity of a search or an aggregation
                          \* (1000)

ASSUME LimitsAssumption ==
    /\ MaxFilterCount \in Nat /\ MaxQueryComplexity \in Nat
    /\ \A e \in DOMAIN Entries : {Entries[e].regex, Entries[e].star, Entries[e].icase,
                                  Entries[e].valid} \subseteq BOOLEAN

\* strings.ToUpper
ToUpper(text) == IF text \in DOMAIN Upper THEN Upper[text] ELSE text

\* the words of a boolean expression that are in upper case
ASSUME UpperAssumption ==
    \A token \in {"AND", "OR", "NOT", "(", ")"} : ToUpper(token) = token

Refusal == [ok |-> FALSE, filters |-> <<>>]

Accepted(filters) == [ok |-> TRUE, filters |-> filters]

\* the elements of a list that are in S, in their order
Only(list, S) ==
    FlattenSeq([i \in DOMAIN list |-> IF list[i] \in S THEN <<list[i]>> ELSE <<>>])

-----------------------------------------------------------------------------
(***************************************************************************)
(* Namespaces and pods.  A comma-separated parameter is the list of its    *)
(* trimmed parts, where "" is a part that was blank.                       *)
(***************************************************************************)
cleanStringArray(list) == Only(list, ToSet(list) \ {""})

\* the handler's list: the single parameter, then the list parameters
parseK8sParameters(single, lists) == cleanStringArray(single \o lists)

\* the service adds the single parameter, which the handler's list already
\* has, and keeps the first of equal ones
parseNamespaceInput(single, list) ==
    LET names == cleanStringArray(single \o list)
    IN  FlattenSeq([i \in DOMAIN names |->
            IF \E j \in 1 .. i - 1 : names[j] = names[i] THEN <<>> ELSE <<names[i]>>])

parsePodInput(single, list) == parseNamespaceInput(single, list)

\* the kind of a pattern: the wildcard case comes before those of the prefixes,
\* suffixes and infixes, which are all written with a star: they are never made
KindOf(e) ==
    CASE Entries[e].regex -> "regex"
      [] ~Entries[e].regex /\ Entries[e].star -> "wildcard"
      [] OTHER -> "exact"

parseNamespaceFilter(e) ==
    [field |-> "namespace_name", type |-> KindOf(e), pattern |-> Entries[e].text,
     icase |-> FALSE]

parsePodFilter(e) ==
    [field |-> "pod_name", type |-> KindOf(e), pattern |-> Entries[e].text,
     icase |-> Entries[e].icase]
\* mutant of ParseK8sFilters: the limit holds for each list and not for both
ParseEachK8sFilters(namespaces, pods) ==
    IF (\E e \in ToSet(namespaces \o pods) : ~Entries[e].valid)
         \/ Len(namespaces) > MaxFilterCount \/ Len(pods) > MaxFilterCount
    THEN Refusal
    ELSE Accepted([i \in DOMAIN namespaces |-> parseNamespaceFilter(namespaces[i])]
                  \o [i \in DOMAIN pods |-> parsePodFilter(pods[i])])

ParseK8sFilters(namespaces, pods) ==
    IF (\E e \in ToSet(namespaces \o pods) : ~Entries[e].valid)
         \/ Len(namespaces) + Len(pods) > MaxFilterCount
    THEN Refusal
    ELSE Accepted([i \in DOMAIN namespaces |-> parseNamespaceFilter(namespaces[i])]
                  \o [i \in DOMAIN pods |-> parsePodFilter(pods[i])])

-----------------------------------------------------------------------------
(***************************************************************************)
(* Searches, by kind:                                                      *)
(*   none                  no search                                       *)
(*   simple     terms      words, with "icase:", "NOT:" or nothing before, *)
(*                         and perhaps a star or a question mark           *)
(*   boolean    tokens     what strings.Fields makes of the expression     *)
(*   phrase     phrases    quoted phrases with the operators before each,  *)
(*                         where "" is other text or a blank at the start; *)
(*              closed     the last quote is there                         *)
(*   regex      pattern    an expression, which is safe and compiles or not*)
(*   proximity  distance   and the words                                   *)
(***************************************************************************)
ContentFilter(type, pattern, operator) ==
    [type |-> type, pattern |-> pattern, words |-> <<>>, icase |-> FALSE,
     operator |-> operator, distance |-> 0]

parseRegexSearch(search) ==
    IF search.safe
    THEN Accepted(<<ContentFilter("regex", search.pattern, "")>>)
    ELSE Refusal

parseProximitySearch(search) ==
    IF search.distance \in 1..MaxProximity /\ Len(search.words) >= 2
    THEN Accepted(<<[ContentFilter("proximity", "", "")
                       EXCEPT !.words = search.words, !.distance = search.distance]>>)
    ELSE Refusal

\* a phrase whose closing quote is missing is dropped, and so is an empty one
extractQuotedPhrases(search) ==
    LET phrases == [i \in DOMAIN search.phrases |-> search.phrases[i].phrase]
        closed == IF search.closed THEN phrases ELSE Front(phrases)
    IN  Only(closed, ToSet(closed) \ {""})

InsideOf(phrase) == IF phrase \in DOMAIN Inside THEN Inside[phrase] ELSE {}

\* one that starts the text has no blank before it and is not seen
OperatorsBefore(search, i) ==
    LET before == search.phrases[i].before
    IN  ToSet(IF i = 1 THEN SubSeq(before, 2, Len(before)) ELSE before)

\* which operators the text has, between its phrases or inside of them, in an
\* order that is not the text's
extractOperators(search) ==
    Only(<<"OR", "AND", "NOT">>,
         UNION {OperatorsBefore(search, i) \cup InsideOf(search.phrases[i].phrase) :
                   i \in DOMAIN search.phrases})

\* the first operator goes to the first phrase, and so on; the rest get AND
parsePhraseSearch(search) ==
    LET phrases == extractQuotedPhrases(search)
        operators == extractOperators(search)
    IN  Accepted([i \in DOMAIN phrases |->
            ContentFilter("phrase", phrases[i],
                          IF i <= Len(operators) THEN operators[i] ELSE "AND")])

\* NOT: is taken off, and nothing is left to say that the word is excluded
SimpleFilter(term, operator) ==
    [ContentFilter(CASE term.mark = "icase:" -> "icase"
                     [] term.mark # "icase:" /\ term.wild -> "wildcard"
                     [] OTHER -> "exact",
                   IF term.mark = "NOT:" /\ term.wild THEN "NOT:" \o term.word ELSE term.word,
                   operator)
       EXCEPT !.icase = (term.mark = "icase:")]

\* a word with a star keeps its NOT:, which then is part of the pattern
parseSimpleSearch(search, operator) ==
    IF Len(search.terms) > MaxSearchTerms
    THEN Refusal
    ELSE Accepted([i \in DOMAIN search.terms |-> SimpleFilter(search.terms[i], operator)])

\* the operators may be written in any case
Operator(token) ==
    IF ToUpper(token) \in {"AND", "OR", "NOT"} THEN ToUpper(token) ELSE ""

tokenizeBooleanQuery(tokens) ==
    /\ tokens # <<>>
    /\ Operator(Head(tokens)) \notin {"AND", "OR"}
    /\ Operator(Last(tokens)) = ""

\* an operator holds for every word up to the next operator; parentheses that
\* stand alone are skipped, the others are part of their word
convertTokensToFilters(tokens) ==
    LET OperatorFor(i) ==
            LET before == {j \in 1 .. i : Operator(tokens[j]) # ""}
            IN  IF before = {} THEN "AND" ELSE Operator(tokens[Max(before)])
    IN  FlattenSeq([i \in DOMAIN tokens |->
            IF Operator(tokens[i]) # "" \/ tokens[i] \in {"(", ")"}
            THEN <<>>
            ELSE <<ContentFilter("exact", tokens[i], OperatorFor(i))>>])

parseBooleanSearch(search) ==
    IF tokenizeBooleanQuery(search.tokens)
    THEN Accepted(convertTokensToFilters(search.tokens))
    ELSE Refusal

parseSearchExpression(search, operator) ==
    CASE search.kind = "boolean" -> parseBooleanSearch(search)
      [] search.kind = "regex" -> parseRegexSearch(search)
      [] search.kind = "proximity" -> parseProximitySearch(search)
      [] search.kind = "phrase" -> parsePhraseSearch(search)
      [] search.kind = "simple" -> parseSimpleSearch(search, operator)

Weight(filter) ==
    CASE filter.type = "exact" -> 10
      [] filter.type = "icase" -> 15
      [] filter.type = "wildcard" -> 30
      [] filter.type = "regex" -> 50 + Len(filter.pattern)
      [] filter.type = "phrase" -> 20
      [] filter.type = "proximity" -> 40 + filter.distance

\* in hundredths, for the factor of 1.5 of a search of several filters
calculateComplexity(filters) ==
    LET sum[n \in 0 .. Len(filters)] ==
            IF n = 0 THEN 0 ELSE Weight(filters[n]) + sum[n - 1]
    IN  sum[Len(filters)] * (IF Len(filters) > 1 THEN 15 ELSE 10)

ParseContentSearch(search, operator) ==
    LET parsed == parseSearchExpression(search, operator)
    IN  CASE search.kind = "none" -> Accepted(<<>>)
          [] search.kind # "none" /\ parsed.ok
               /\ calculateComplexity(parsed.filters) > 10 * MaxQueryComplexity -> Refusal
          [] OTHER -> parsed

\* the filter parameter is a search as well, unless there is a content_search;
\* any operator but AND and OR is taken for AND
validateAndParseContentSearch(request) ==
    ParseContentSearch(IF request.search.kind # "none" THEN request.search
                       ELSE request.filter,
                       IF request.operator = "OR" THEN "OR" ELSE "AND")

-----------------------------------------------------------------------------
(***************************************************************************)
(* How a formula is written as a boolean expression or a list of phrases:  *)
(*   sum        any of its clauses, all literals of that clause            *)
(*   product    every factor, any word of that factor, in parentheses that *)
(*              stand alone or are attached to its first and last word     *)
(*   none       the text is not that of a formula                          *)
(***************************************************************************)
Before(i, j, neg) ==
    (CASE j = 1 /\ i > 1 -> <<"OR">>
       [] j > 1 /\ ~neg -> <<"AND">>
       [] OTHER -> <<>>)
    \o (IF neg THEN <<"NOT">> ELSE <<>>)

\* the words of a sum, each with the operators before it
Written(sum) ==
    FlattenSeq([i \in DOMAIN sum |-> [j \in DOMAIN sum[i] |->
        [phrase |-> sum[i][j].word, before |-> Before(i, j, sum[i][j].neg)]]])

SumTokens(sum) ==
    LET words == Written(sum)
    IN  FlattenSeq([i \in DOMAIN words |-> Append(words[i].before, words[i].phrase)])

FactorWord(f, i) ==
    IF ~f.attached THEN f.words[i]
    ELSE (IF i = 1 THEN "(" ELSE "") \o f.words[i]
           \o (IF i = Len(f.words) THEN ")" ELSE "")

FactorTokens(f) ==
    LET either == FlattenSeq([i \in DOMAIN f.words |->
                     IF i = 1 THEN <<FactorWord(f, i)>> ELSE <<"OR", FactorWord(f, i)>>])
    IN  (IF f.neg THEN <<"NOT">> ELSE <<>>)
          \o (IF f.attached THEN either ELSE <<"(">> \o either \o <<")">>)

ProductTokens(product) ==
    FlattenSeq([i \in DOMAIN product |->
        (IF i > 1 /\ ~product[i].neg THEN <<"AND">> ELSE <<>>) \o FactorTokens(product[i])])

IsWord(token) == token \in STRING /\ Operator(token) = "" /\ token \notin {"(", ")"}

SumOfClauses(sum) == sum # <<>> /\ sum \in Seq(Seq([neg : BOOLEAN, word : STRING]) \ {<<>>})

ProductOfFactors(product) ==
    product \in Seq([neg : BOOLEAN, words : Seq(STRING) \ {<<>>}, attached : BOOLEAN])

IsWritten(search) ==
    \/ search.form = "none"
    \/ /\ search.kind = "boolean" /\ search.form = "sum" /\ SumOfClauses(search.formula)
       /\ \A clause \in ToSet(search.formula) : \A l \in ToSet(clause) : IsWord(l.word)
       /\ search.tokens = SumTokens(search.formula)
    \/ /\ search.kind = "phrase" /\ search.form = "sum" /\ SumOfClauses(search.formula)
       /\ \A clause \in ToSet(search.formula) : \A l \in ToSet(clause) : l.word # ""
       /\ search.phrases = Written(search.formula) /\ search.closed
    \/ /\ search.kind = "boolean" /\ search.form = "product" /\ ProductOfFactors(search.formula)
       /\ \A f \in ToSet(search.formula) : \A i \in DOMAIN f.words : IsWord(FactorWord(f, i))
       /\ search.tokens = ProductTokens(search.formula)

IsSearch(search) ==
    \/ search.kind = "none"
    \/ /\ search.kind = "simple"
       /\ search.terms \in Seq([mark : {"", "icase:", "NOT:"}, wild : BOOLEAN, word : STRING])
    \/ search.kind = "boolean" /\ search.tokens \in Seq(STRING) /\ IsWritten(search)
    \/ /\ search.kind = "phrase" /\ search.closed \in BOOLEAN /\ IsWritten(search)
       /\ search.phrases \in Seq([phrase : STRING, before : Seq({"OR", "AND", "NOT", ""})])
    \/ search.kind = "regex" /\ search.safe \in BOOLEAN /\ Len(search.pattern) \in Nat
    \/ search.kind = "proximity" /\ search.distance \in Nat /\ search.words \in Seq(STRING)

-----------------------------------------------------------------------------
(***************************************************************************)
(* Aggregation requests: aggregation_handler.go, aggregation_validator.go. *)
(***************************************************************************)
parseDimensions(list) ==
    list # <<>> /\ ToSet(list) \subseteq {"severity", "namespace", "pod_name", "node_name",
                                        "host_name", "container_name", "timestamp", "dataset"}

\* the field each function is applied to: the request cannot name one
FieldOf ==
    [count |-> "", sum |-> "*", avg |-> "*", min |-> "*", max |-> "*",
     distinct_count |-> "severity"]

parseFunctions(list) == IF list = <<>> THEN <<"count">> ELSE list

numericFields == {"message_length", "processing_time", "timestamp", "error_code"}

validateFunction(f) == f \in {"sum", "avg", "min", "max"} => FieldOf[f] \in numericFields

\* time dimensions need both ends of the range
validateTimeDimensions(r) ==
    "timestamp" \in ToSet(r.dimensions) => r.start # "" /\ r.end # ""

validateTimeBucket(bucket) == bucket \in {"1m", "5m", "15m", "1h", "6h", "12h", "1d", "1w"}

\* the handler gives no alias, sort order or limit
validateDimension(d, bucket) == d = "timestamp" => validateTimeBucket(bucket)

\* in hundredths; the factor is 1.5 and 0.3 more per dimension after the first
calculateRequestComplexity(dimensions, functions) ==
    LET Cost(d) == CASE d \in {"severity", "dataset"} -> 10
                     [] d = "timestamp" -> 15
                     [] d \in {"namespace", "host_name", "node_name"} -> 20
                     [] OTHER -> 30
        Price(f) == CASE f = "count" -> 5 [] f = "distinct_count" -> 20 [] OTHER -> 10
        sum == FoldLeft(LAMBDA n, d : n + Cost(d), 0, dimensions)
                 + FoldLeft(LAMBDA n, f : n + Price(f), 0, functions)
    IN  sum * (IF Len(dimensions) > 1 THEN 12 + 3 * Len(dimensions) ELSE 10)

ValidateAggregationRequest(r) ==
    LET functions == parseFunctions(r.functions)
    IN  /\ r.dataset # ""
        /\ parseDimensions(r.dimensions)
        /\ Len(r.dimensions) <= MaxDimensions
        /\ ToSet(functions) \subseteq DOMAIN FieldOf /\ Len(functions) <= MaxFunctions
        /\ \A d \in ToSet(r.dimensions) : validateDimension(d, r.bucket)
        /\ \A f \in ToSet(functions) : validateFunction(f)
        /\ validateTimeDimensions(r)
        /\ calculateRequestComplexity(r.dimensions, functions) <= 10 * MaxQueryComplexity
=============================================================================
