--------------------------- MODULE LogQueryProofs ---------------------------
(***************************************************************************)
(* What one log query guarantees, for every value of the constants of      *)
(* LogQuery: every variable keeps its type; the checks made one after the  *)
(* other agree, and has_more tells the truth; the rows of a page are of    *)
(* the request's dataset, selected by its conditions, and outside its time *)
(* range by less than the precision of the WHERE clause; and the rows      *)
(* recorded are the rows returned.  Each invariant of a request is stated  *)
(* for one client; a step of another client leaves it alone (StepFrame).   *)
(***************************************************************************)
EXTENDS LogQuery, SumsAndLists, FiniteSetTheorems, TLAPS

USE BoundsAssumption DEF BoundsAssumption

-----------------------------------------------------------------------------
(* Types *)

\* A set of rows has a number of elements.
LEMMA RowsCount ==
    ASSUME NEW S \in SUBSET Rows
    PROVE  IsFiniteSet(S) /\ Cardinality(S) \in Nat
  BY RowsAssumption, FS_Subset, FS_CardinalityType DEF RowsAssumption

\* A page starts at a row number.
LEMMA OffsetType ==
    ASSUME NEW pg \in Nat, NEW sz \in Nat
    PROVE  pg * sz \in Nat /\ (pg + 1) * sz = pg * sz + sz
  OBVIOUS

\* How many of n rows the page pg of sz rows has.
PageLength(n, pg, sz) ==
    IF n <= pg * sz THEN 0 ELSE IF n - pg * sz < sz THEN n - pg * sz ELSE sz

\* cut is the page pg of sz rows of s, an order of the rows S.
IsPage(cut, s, S, pg, sz) ==
    /\ cut \in Seq(S)
    /\ Len(cut) = PageLength(Cardinality(S), pg, sz)
    /\ \A i \in DOMAIN cut : /\ pg * sz + i \in 1 .. Cardinality(S)
                             /\ cut[i] = s[pg * sz + i]

\* What LIMIT and OFFSET cut out of the rows: as many as there are behind the
\* offset, at most the page size, and each is the row at its place.
LEMMA PageCut ==
    ASSUME NEW S \in SUBSET Rows, NEW q, NEW s \in Sorted(S, q),
           NEW pg \in Nat, NEW sz \in Nat
    PROVE  IsPage(PageOf(s, Cardinality(S), pg, sz), s, S, pg, sz)
  <1> DEFINE n == Cardinality(S)
             offset == pg * sz
             length == IF n <= offset THEN 0
                       ELSE IF n - offset < sz THEN n - offset ELSE sz
             cut == [i \in 1 .. length |-> s[offset + i]]
  <1>1. n \in Nat
    BY RowsCount
  <1>2. offset \in Nat
    BY OffsetType
  <1>3. PageOf(s, n, pg, sz) = cut
    BY DEF PageOf
  <1>4. s \in [1 .. n -> S]
    BY DEF Sorted
  <1> HIDE DEF n, offset
  <1>5. length \in Nat
    BY <1>1, <1>2
  <1>6. \A i \in 1 .. length : offset + i \in 1 .. n
    BY <1>1, <1>2
  <1>7. cut \in [1 .. length -> S]
    BY <1>4, <1>6
  <1> HIDE DEF length
  <1>8. cut \in Seq(S) /\ Len(cut) = length /\ DOMAIN cut = 1 .. length
    BY <1>5, <1>7
  <1>9. QED
    BY <1>3, <1>6, <1>8 DEF length, n, offset, IsPage, PageLength

\* The initial state has its types.
LEMMA TypeInit == Init => TypeOK
  <1> SUFFICES ASSUME Init
               PROVE  TypeOK
    OBVIOUS
  <1>1. (CHOOSE q \in Requests : TRUE) \in Requests
    BY RequestsAssumption DEF RequestsAssumption
  <1>2. StoreTypeOK
    BY DEF Init, StoreTypeOK
  <1>3. RequestTypeOK
    BY <1>1 DEF Init, RequestTypeOK, Phases, Statuses, Stages
  <1>4. StatsTypeOK
    BY DEF Init, StatsTypeOK
  <1>5. WalkTypeOK
    BY DEF Init, WalkTypeOK
  <1>6. QED
    BY <1>2, <1>3, <1>4, <1>5 DEF TypeOK

\* A step keeps the type of what it leaves alone.
LEMMA TypeUnchanged ==
    ASSUME TypeOK
    PROVE  /\ UNCHANGED <<clock, storeVars>> => StoreTypeOK'
           /\ UNCHANGED requestVars => RequestTypeOK'
           /\ UNCHANGED statsVars => StatsTypeOK'
           /\ UNCHANGED walkVars => WalkTypeOK'
  <1>1. UNCHANGED <<clock, storeVars>> => StoreTypeOK'
    BY DEF TypeOK, StoreTypeOK, storeVars
  <1>2. UNCHANGED requestVars => RequestTypeOK'
    BY DEF TypeOK, RequestTypeOK, requestVars
  <1>3. UNCHANGED statsVars => StatsTypeOK'
    BY DEF TypeOK, StatsTypeOK, statsVars
  <1>4. UNCHANGED walkVars => WalkTypeOK'
    BY DEF TypeOK, WalkTypeOK, walkVars
  <1>5. QED
    BY <1>1, <1>2, <1>3, <1>4

\* The clock, the collectors and the TTL keep the types.
LEMMA TypeWorld ==
    ASSUME TypeOK,
           Tick \/ \E r \in Rows : Ingest(r) \/ Expire(r)
    PROVE  TypeOK'
  <1>1. CASE Tick
    <2>1. StoreTypeOK'
      BY <1>1 DEF Tick, TypeOK, StoreTypeOK, storeVars
    <2>2. QED
      BY <1>1, <2>1, TypeUnchanged DEF Tick, TypeOK
  <1>2. ASSUME NEW r \in Rows, Ingest(r)
        PROVE  TypeOK'
    <2>1. StoreTypeOK'
      BY <1>2 DEF Ingest, TypeOK, StoreTypeOK
    <2>2. WalkTypeOK'
      <3>1. /\ base' \in [Clients -> SUBSET Rows]
            /\ found' \in [Clients -> Nat]
            /\ seen' \in [Clients -> Seq(Rows)]
            /\ left' \in [Clients -> BOOLEAN]
        BY <1>2 DEF Ingest, TypeOK, WalkTypeOK
      <3>2. arrived' \in [Clients -> BOOLEAN] /\ raced' \in [Clients -> BOOLEAN]
        BY <1>2, Zenon DEF Ingest, TypeOK, WalkTypeOK
      <3>3. QED
        BY <3>1, <3>2 DEF WalkTypeOK
    <2>3. QED
      BY <1>2, <2>1, <2>2, TypeUnchanged DEF Ingest, TypeOK
  <1>3. ASSUME NEW r \in Rows, Expire(r)
        PROVE  TypeOK'
    <2>1. StoreTypeOK'
      BY <1>3 DEF Expire, TypeOK, StoreTypeOK
    <2>2. WalkTypeOK'
      <3>1. /\ base' \in [Clients -> SUBSET Rows]
            /\ found' \in [Clients -> Nat]
            /\ seen' \in [Clients -> Seq(Rows)]
            /\ arrived' \in [Clients -> BOOLEAN]
            /\ raced' \in [Clients -> BOOLEAN]
        BY <1>3 DEF Expire, TypeOK, WalkTypeOK
      <3>2. left' \in [Clients -> BOOLEAN]
        BY <1>3, Zenon DEF Expire, TypeOK, WalkTypeOK
      <3>3. QED
        BY <3>1, <3>2 DEF WalkTypeOK
    <2>3. QED
      BY <1>3, <2>1, <2>2, TypeUnchanged DEF Expire, TypeOK
  <1>4. QED
    BY <1>1, <1>2, <1>3

\* A request that arrives, for a first page or a later one, keeps the types.
LEMMA TypeReceive ==
    ASSUME TypeOK, NEW c \in Clients, NEW q \in Requests, NEW pg \in Nat,
           Receive(c, q, pg)
    PROVE  /\ RequestTypeOK'
           /\ found' \in [Clients -> Nat]
           /\ raced' \in [Clients -> BOOLEAN]
  <1>1. /\ q.pageSize \in Nat
        /\ q.start \in SUBSET Int
        /\ q.end \in SUBSET Int
    BY RequestsAssumption DEF RequestsAssumption
  <1>2. (IF ParseOK(q) THEN q.pageSize ELSE 0) \in 0 .. MaxPageSize
    BY <1>1 DEF ParseOK
  <1>3. /\ query' \in [Clients -> Requests]
        /\ page' \in [Clients -> Nat]
        /\ from' \in [Clients -> SUBSET Int]
        /\ to' \in [Clients -> SUBSET Int]
        /\ total' \in [Clients -> Nat]
    BY <1>1 DEF Receive, TypeOK, RequestTypeOK
  <1>4. size' \in [Clients -> 0 .. MaxPageSize]
    BY <1>2 DEF Receive, TypeOK, RequestTypeOK
  <1>5. /\ phase' \in [Clients -> Phases]
        /\ rows' \in [Clients -> Seq(Rows)]
        /\ status' \in [Clients -> Statuses]
        /\ stage' \in [Clients -> Stages]
        /\ more' \in [Clients -> BOOLEAN]
    <2>1. \E ph \in Phases, st \in Statuses, who \in Stages :
             /\ phase' = [phase EXCEPT ![c] = ph]
             /\ status' = [status EXCEPT ![c] = st]
             /\ stage' = [stage EXCEPT ![c] = who]
      <3>1. CASE ParseOK(q)
        <4>1. /\ phase' = [phase EXCEPT ![c] = "parsed"]
              /\ status' = [status EXCEPT ![c] = 0]
              /\ stage' = [stage EXCEPT ![c] = "none"]
          BY <3>1, Zenon DEF Receive
        <4>2. "parsed" \in Phases /\ 0 \in Statuses /\ "none" \in Stages
          BY DEF Phases, Statuses, Stages
        <4>3. QED
          BY <4>1, <4>2, Zenon
      <3>2. CASE ~ParseOK(q)
        <4>1. /\ phase' = [phase EXCEPT ![c] = "answered"]
              /\ status' = [status EXCEPT ![c] = 400]
              /\ stage' = [stage EXCEPT ![c] = "handler"]
          BY <3>2, Zenon DEF Receive, Fail
        <4>2. /\ "answered" \in Phases
              /\ 400 \in Statuses
              /\ "handler" \in Stages
          BY DEF Phases, Statuses, Stages
        <4>3. QED
          BY <4>1, <4>2, Zenon
      <3>3. QED
        BY <3>1, <3>2
    <2>2. /\ more' = [more EXCEPT ![c] = FALSE]
          /\ rows' = [rows EXCEPT ![c] = <<>>]
      BY Zenon DEF Receive, Fail
    <2>3. QED
      BY <2>1, <2>2 DEF TypeOK, RequestTypeOK
  <1>6. RequestTypeOK'
    BY <1>3, <1>4, <1>5 DEF RequestTypeOK
  <1>7. found' \in [Clients -> Nat] /\ raced' \in [Clients -> BOOLEAN]
    BY DEF Receive, TypeOK, WalkTypeOK
  <1>8. QED
    BY <1>6, <1>7

\* A client's step keeps the types.
LEMMA TypeClient ==
    ASSUME TypeOK, NEW c \in Clients,
           NextPage(c) \/ \E q \in Requests : Ask(c, q)
    PROVE  TypeOK'
  <1>1. CASE NextPage(c)
    <2>1. /\ query[c] \in Requests
          /\ page[c] + 1 \in Nat
          /\ Receive(c, query[c], page[c] + 1)
      BY <1>1 DEF NextPage, TypeOK, RequestTypeOK
    <2>2. /\ RequestTypeOK'
          /\ found' \in [Clients -> Nat]
          /\ raced' \in [Clients -> BOOLEAN]
      BY <2>1, TypeReceive
    <2>3. WalkTypeOK'
      BY <1>1, <2>2, Zenon DEF NextPage, TypeOK, WalkTypeOK
    <2>4. QED
      BY <1>1, <2>2, <2>3, TypeUnchanged DEF NextPage, TypeOK
  <1>2. ASSUME NEW q \in Requests, Ask(c, q)
        PROVE  TypeOK'
    <2>1. /\ RequestTypeOK'
          /\ found' \in [Clients -> Nat]
          /\ raced' \in [Clients -> BOOLEAN]
      BY <1>2, TypeReceive DEF Ask
    <2>2. /\ base' \in [Clients -> SUBSET Rows]
          /\ seen' \in [Clients -> Seq(Rows)]
          /\ arrived' \in [Clients -> BOOLEAN]
          /\ left' \in [Clients -> BOOLEAN]
      BY <1>2 DEF Ask, TypeOK, WalkTypeOK
    <2>3. WalkTypeOK'
      BY <2>1, <2>2 DEF WalkTypeOK
    <2>4. QED
      BY <1>2, <2>1, <2>3, TypeUnchanged DEF Ask, TypeOK
  <1>3. QED
    BY <1>1, <1>2

\* What a request selects are rows of the table.
LEMMA ChosenType ==
    ASSUME TypeOK, NEW c \in Clients
    PROVE  Chosen(c) \in SUBSET Rows
  BY DEF Chosen, Selected, TypeOK, StoreTypeOK

\* An error answer keeps the types.
LEMMA TypeFail ==
    ASSUME TypeOK, NEW c \in Clients, NEW who \in Stages, NEW code \in Statuses,
           Fail(c, who, code),
           UNCHANGED <<query, page, size, from, to, total>>
    PROVE  RequestTypeOK'
  BY DEF Fail, TypeOK, RequestTypeOK, Phases

\* Every call of Finish adds to the number of inserts under way.
LEMMA TypeFinish ==
    ASSUME TypeOK, NEW a, NEW b, Finish(<<a>>) \/ Finish(<<a, b>>)
    PROVE  calls' \in Nat /\ pending' \in [0 .. MaxPageSize -> Nat]
  <1>1. ASSUME NEW lengths, NEW k \in Nat, DOMAIN lengths = 1 .. k,
               Finish(lengths)
        PROVE  calls' \in Nat /\ pending' \in [0 .. MaxPageSize -> Nat]
    <2>1. CASE MetricsEnabled
      <3> DEFINE times(n) == Cardinality({i \in DOMAIN lengths : lengths[i] = n})
      <3>1. \A n : times(n) \in Nat
        <4> TAKE n
        <4>1. IsFiniteSet(1 .. k)
          BY FS_Interval
        <4>2. {i \in DOMAIN lengths : lengths[i] = n} \in SUBSET (1 .. k)
          BY <1>1
        <4>3. QED
          BY <4>1, <4>2, FS_Subset, FS_CardinalityType
      <3>2. /\ calls' = calls + 1
            /\ pending' = [n \in 0 .. MaxPageSize |-> pending[n] + times(n)]
        BY <1>1, <2>1 DEF Finish
      <3> HIDE DEF times
      <3>3. QED
        BY <3>1, <3>2 DEF TypeOK, StatsTypeOK
    <2>2. CASE ~MetricsEnabled
      BY <1>1, <2>2 DEF Finish, TypeOK, StatsTypeOK
    <2>3. QED
      BY <2>1, <2>2
  <1>2. DOMAIN <<a>> = 1 .. 1 /\ DOMAIN <<a, b>> = 1 .. 2
    OBVIOUS
  <1>3. QED
    BY <1>1, <1>2

\* A step of the server keeps the types.
LEMMA TypeServe ==
    ASSUME TypeOK, NEW c \in Clients, Serve(c)
    PROVE  TypeOK'
  <1>1. CASE Prepare(c)
    <2>1. /\ size' \in [Clients -> 0 .. MaxPageSize]
          /\ from' \in [Clients -> SUBSET Int]
          /\ to' \in [Clients -> SUBSET Int]
          /\ phase' \in [Clients -> Phases]
      BY <1>1 DEF Prepare, TypeOK, RequestTypeOK, StoreTypeOK, Phases
    <2>2. RequestTypeOK'
      BY <1>1, <2>1 DEF Prepare, TypeOK, RequestTypeOK
    <2>3. QED
      BY <1>1, <2>2, TypeUnchanged DEF Prepare, TypeOK
  <1>2. CASE Refuse(c)
    <2>1. RequestTypeOK'
      <3>1. \A code \in {400, 500} : code \in Statuses
        BY DEF Statuses, DbCodes
      <3>2. (IF query[c].form = "badK8s" THEN 400 ELSE 500) \in Statuses
        BY <3>1
      <3>3. "service" \in Stages
        BY DEF Stages
      <3>4. QED
        BY <1>2, <3>2, <3>3, TypeFail DEF Refuse
    <2>2. QED
      BY <1>2, <2>1, TypeUnchanged DEF Refuse, TypeOK
  <1>3. CASE Count(c)
    <2>1. Chosen(c) \in SUBSET Rows /\ Cardinality(Chosen(c)) \in Nat
      BY ChosenType, RowsCount
    <2>2. RequestTypeOK'
      BY <1>3, <2>1 DEF Count, TypeOK, RequestTypeOK, Phases
    <2>3. base' \in [Clients -> SUBSET Rows]
      BY <1>3, <2>1 DEF Count, TypeOK, WalkTypeOK
    <2>4. WalkTypeOK'
      BY <1>3, <2>3 DEF Count, TypeOK, WalkTypeOK
    <2>5. QED
      BY <1>3, <2>2, <2>4, TypeUnchanged DEF Count, TypeOK
  <1>4. CASE Fetch(c)
    <2>1. Chosen(c) \in SUBSET Rows /\ Cardinality(Chosen(c)) \in Nat
      BY ChosenType, RowsCount
    <2>2. PICK s \in Sorted(Chosen(c), query[c]) :
             rows' = [rows EXCEPT ![c] = PageOf(s, Cardinality(Chosen(c)),
                                                page[c], size[c])]
      BY <1>4 DEF Fetch
    <2>3. page[c] \in Nat /\ size[c] \in Nat
      BY DEF TypeOK, RequestTypeOK
    <2>4. PageOf(s, Cardinality(Chosen(c)), page[c], size[c]) \in Seq(Chosen(c))
      BY <2>1, <2>2, <2>3, PageCut DEF IsPage
    <2>5. rows' \in [Clients -> Seq(Rows)]
      BY <2>1, <2>2, <2>4 DEF TypeOK, RequestTypeOK
    <2>6. RequestTypeOK'
      BY <1>4, <2>5 DEF Fetch, TypeOK, RequestTypeOK, Phases
    <2>7. WalkTypeOK'
      BY <1>4, <2>1 DEF Fetch, TypeOK, WalkTypeOK
    <2>8. StatsTypeOK'
      <3>1. calls' \in Nat /\ pending' \in [0 .. MaxPageSize -> Nat]
        BY <1>4, TypeFinish DEF Fetch
      <3>2. Len(rows'[c]) \in Nat
        BY <2>5
      <3>3. returned' \in Nat
        BY <1>4, <3>2 DEF Fetch, TypeOK, StatsTypeOK
      <3>4. QED
        BY <1>4, <3>1, <3>3 DEF Fetch, TypeOK, StatsTypeOK
    <2>9. QED
      BY <1>4, <2>6, <2>7, <2>8, TypeUnchanged DEF Fetch, TypeOK
  <1>5. ASSUME NEW code \in DbCodes, DbError(c, code)
        PROVE  TypeOK'
    <2>1. code \in Statuses /\ "database" \in Stages
      BY DEF Statuses, Stages
    <2>2. RequestTypeOK'
      BY <1>5, <2>1, TypeFail DEF DbError
    <2>3. StatsTypeOK'
      <3>1. calls' \in Nat /\ pending' \in [0 .. MaxPageSize -> Nat]
        BY <1>5, TypeFinish DEF DbError
      <3>2. QED
        BY <1>5, <3>1 DEF DbError, TypeOK, StatsTypeOK
    <2>4. QED
      BY <1>5, <2>2, <2>3, TypeUnchanged DEF DbError, TypeOK
  <1>6. CASE Respond(c)
    <2>1. more' \in [Clients -> BOOLEAN]
      BY <1>6, Zenon DEF Respond, TypeOK, RequestTypeOK
    <2>2. RequestTypeOK'
      BY <1>6, <2>1 DEF Respond, TypeOK, RequestTypeOK, Phases, Statuses
    <2>3. seen' \in [Clients -> Seq(Rows)]
      BY <1>6 DEF Respond, TypeOK, RequestTypeOK, WalkTypeOK
    <2>4. WalkTypeOK'
      BY <1>6, <2>3 DEF Respond, TypeOK, WalkTypeOK
    <2>5. QED
      BY <1>6, <2>2, <2>4, TypeUnchanged DEF Respond, TypeOK
  <1>7. QED
    BY <1>1, <1>2, <1>3, <1>4, <1>5, <1>6 DEF Serve

\* The types of a request, of the table and of the statistics, in every state
\* the server and its surroundings reach.
THEOREM QueryTypeCorrect == Spec => []TypeOK
  <1>1. ASSUME TypeOK, [Next]_vars
        PROVE  TypeOK'
    <2>1. CASE Next
      <3>1. ASSUME NEW n \in 0 .. MaxPageSize, RecordStat(n)
            PROVE  TypeOK'
        <4>1. pending' \in [0 .. MaxPageSize -> Nat]
          BY <1>1, <3>1 DEF RecordStat, TypeOK, StatsTypeOK
        <4>2. stats' \in [records : Nat, rows : Nat, dropped : Nat]
          <5>1. /\ stats \in [records : Nat, rows : Nat, dropped : Nat]
                /\ n \in Nat
            BY <1>1 DEF TypeOK, StatsTypeOK
          <5>2. \/ stats' = [stats EXCEPT !.records = @ + 1, !.rows = @ + n]
                \/ stats' = [stats EXCEPT !.dropped = @ + n]
            BY <3>1 DEF RecordStat
          <5>3. /\ stats.records + 1 \in Nat
                /\ stats.rows + n \in Nat
                /\ stats.dropped + n \in Nat
            BY <5>1
          <5>4. CASE stats' = [stats EXCEPT !.records = @ + 1, !.rows = @ + n]
            <6>1. stats' = [records |-> stats.records + 1,
                            rows |-> stats.rows + n,
                            dropped |-> stats.dropped]
              BY <5>1, <5>4
            <6>2. QED
              BY <5>1, <5>3, <6>1
          <5>5. CASE stats' = [stats EXCEPT !.dropped = @ + n]
            <6>1. stats' = [records |-> stats.records,
                            rows |-> stats.rows,
                            dropped |-> stats.dropped + n]
              BY <5>1, <5>5
            <6>2. QED
              BY <5>1, <5>3, <6>1
          <5>6. QED
            BY <5>2, <5>4, <5>5
        <4>3. StatsTypeOK'
          BY <1>1, <3>1, <4>1, <4>2 DEF RecordStat, TypeOK, StatsTypeOK
        <4>4. QED
          BY <1>1, <3>1, <4>3, TypeUnchanged DEF RecordStat, TypeOK
      <3>2. QED
        BY <1>1, <2>1, <3>1, TypeWorld, TypeClient, TypeServe DEF Next
    <2>2. CASE UNCHANGED vars
      BY <1>1, <2>2, TypeUnchanged DEF vars, TypeOK
    <2>3. QED
      BY <1>1, <2>1, <2>2
  <1>2. QED
    BY <1>1, TypeInit, PTL DEF Spec

-----------------------------------------------------------------------------
(* One client's request, and the steps of others *)

\* The request of client c is as it was.
Same(c) ==
    /\ phase'[c] = phase[c] /\ query'[c] = query[c] /\ page'[c] = page[c]
    /\ size'[c] = size[c] /\ from'[c] = from[c] /\ to'[c] = to[c]
    /\ total'[c] = total[c] /\ rows'[c] = rows[c] /\ found'[c] = found[c]
    /\ status'[c] = status[c] /\ stage'[c] = stage[c]
    /\ more'[c] <=> more[c]

\* A step of client c, or of the server for it.
StepOf(c) ==
    \/ \E q \in Requests : Ask(c, q)
    \/ NextPage(c)
    \/ Serve(c)

\* A request that just arrived: what the handler makes of it.
LEMMA ReceiveAt ==
    ASSUME TypeOK, NEW c \in Clients, NEW q \in Requests, NEW pg \in Nat,
           Receive(c, q, pg)
    PROVE  /\ query'[c] = q /\ page'[c] = pg
           /\ from'[c] = q.start /\ to'[c] = q.end
           /\ rows'[c] = <<>> /\ more'[c] = FALSE
           /\ \/ /\ ParseOK(q)
                 /\ phase'[c] = "parsed" /\ status'[c] = 0 /\ stage'[c] = "none"
              \/ /\ phase'[c] = "answered" /\ status'[c] = 400
                 /\ stage'[c] = "handler"
  <1>1. /\ query'[c] = q /\ page'[c] = pg
        /\ from'[c] = q.start /\ to'[c] = q.end
    BY DEF Receive, TypeOK, RequestTypeOK
  <1>2. rows'[c] = <<>> /\ more'[c] = FALSE
    <2>1. /\ more' = [more EXCEPT ![c] = FALSE]
          /\ rows' = [rows EXCEPT ![c] = <<>>]
      BY Zenon DEF Receive, Fail
    <2>2. QED
      BY <2>1 DEF TypeOK, RequestTypeOK
  <1>3. CASE ParseOK(q)
    <2>1. /\ phase' = [phase EXCEPT ![c] = "parsed"]
          /\ status' = [status EXCEPT ![c] = 0]
          /\ stage' = [stage EXCEPT ![c] = "none"]
      BY <1>3, Zenon DEF Receive
    <2>2. phase'[c] = "parsed" /\ status'[c] = 0 /\ stage'[c] = "none"
      BY <2>1 DEF TypeOK, RequestTypeOK
    <2>3. QED
      BY <1>1, <1>2, <1>3, <2>2, Zenon
  <1>4. CASE ~ParseOK(q)
    <2>1. /\ phase' = [phase EXCEPT ![c] = "answered"]
          /\ status' = [status EXCEPT ![c] = 400]
          /\ stage' = [stage EXCEPT ![c] = "handler"]
      BY <1>4, Zenon DEF Receive, Fail
    <2>2. phase'[c] = "answered" /\ status'[c] = 400 /\ stage'[c] = "handler"
      BY <2>1 DEF TypeOK, RequestTypeOK
    <2>3. QED
      BY <1>1, <1>2, <2>2, Zenon
  <1>5. QED
    BY <1>3, <1>4

\* A step of the surroundings or of the statistics changes no request.
LEMMA QuietFrame ==
    ASSUME UNCHANGED <<requestVars, found>>, NEW d \in Clients
    PROVE  Same(d)
  BY DEF requestVars, Same

\* A request that arrives from client c is not one of client d.
LEMMA ReceiveOthers ==
    ASSUME TypeOK, NEW c \in Clients, NEW d \in Clients \ {c}, NEW q, NEW pg,
           Receive(c, q, pg)
    PROVE  Same(d)
  <1>1. /\ query'[d] = query[d] /\ page'[d] = page[d]
        /\ size'[d] = size[d] /\ from'[d] = from[d]
        /\ to'[d] = to[d] /\ total'[d] = total[d] /\ found'[d] = found[d]
    BY DEF Receive, TypeOK, RequestTypeOK, WalkTypeOK
  <1>2. /\ more' = [more EXCEPT ![c] = FALSE]
        /\ rows' = [rows EXCEPT ![c] = <<>>]
    BY Zenon DEF Receive, Fail
  <1>3. \E ph, st, who : /\ phase' = [phase EXCEPT ![c] = ph]
                         /\ status' = [status EXCEPT ![c] = st]
                         /\ stage' = [stage EXCEPT ![c] = who]
    <2>1. CASE ParseOK(q)
      <3>1. /\ phase' = [phase EXCEPT ![c] = "parsed"]
            /\ status' = [status EXCEPT ![c] = 0]
            /\ stage' = [stage EXCEPT ![c] = "none"]
        BY <2>1, Zenon DEF Receive
      <3>2. QED
        BY <3>1, Zenon
    <2>2. CASE ~ParseOK(q)
      <3>1. /\ phase' = [phase EXCEPT ![c] = "answered"]
            /\ status' = [status EXCEPT ![c] = 400]
            /\ stage' = [stage EXCEPT ![c] = "handler"]
        BY <2>2, Zenon DEF Receive, Fail
      <3>2. QED
        BY <3>1, Zenon
    <2>3. QED
      BY <2>1, <2>2
  <1>4. /\ rows'[d] = rows[d] /\ phase'[d] = phase[d]
        /\ status'[d] = status[d] /\ stage'[d] = stage[d]
    BY <1>2, <1>3 DEF TypeOK, RequestTypeOK
  <1>5. more'[d] <=> more[d]
    BY <1>2, Zenon DEF TypeOK, RequestTypeOK
  <1>6. QED
    BY <1>1, <1>4, <1>5, Zenon DEF Same

\* The server's step for client c changes no request of client d.
LEMMA ServeOthers ==
    ASSUME TypeOK, NEW c \in Clients, NEW d \in Clients \ {c}, Serve(c)
    PROVE  Same(d)
  <1>1. CASE Prepare(c)
    BY <1>1 DEF Prepare, walkVars, Same, TypeOK, RequestTypeOK
  <1>2. ASSUME NEW who, NEW code, Fail(c, who, code),
               UNCHANGED <<query, page, size, from, to, total, found>>
        PROVE  Same(d)
    BY <1>2 DEF Fail, Same, TypeOK, RequestTypeOK
  <1>3. CASE Refuse(c)
    BY <1>2, <1>3 DEF Refuse, walkVars
  <1>4. CASE Count(c)
    BY <1>4 DEF Count, Same, TypeOK, RequestTypeOK
  <1>5. CASE Fetch(c)
    <2>1. PICK cut : rows' = [rows EXCEPT ![c] = cut]
      BY <1>5 DEF Fetch
    <2>2. QED
      BY <1>5, <2>1 DEF Fetch, Same, TypeOK, RequestTypeOK, WalkTypeOK
  <1>6. ASSUME NEW code \in DbCodes, DbError(c, code)
        PROVE  Same(d)
    BY <1>2, <1>6 DEF DbError, walkVars
  <1>7. CASE Respond(c)
    <2>1. more'[d] <=> more[d]
      BY <1>7, Zenon DEF Respond, TypeOK, RequestTypeOK
    <2>2. phase'[d] = phase[d] /\ status'[d] = status[d]
      BY <1>7 DEF Respond, TypeOK, RequestTypeOK
    <2>3. QED
      BY <1>7, <2>1, <2>2, Zenon DEF Respond, Same
  <1>8. QED
    BY <1>1, <1>3, <1>4, <1>5, <1>6, <1>7 DEF Serve

\* The clock never runs backwards.
LEMMA ClockStep ==
    ASSUME TypeOK, [Next]_vars
    PROVE  clock \in Nat /\ clock' \in Nat /\ clock' >= clock
  <1>1. clock \in Nat
    BY DEF TypeOK, StoreTypeOK
  <1>2. CASE Tick
    BY <1>1, <1>2 DEF Tick
  <1>3. ASSUME ~Tick
        PROVE  UNCHANGED clock
    BY <1>3 DEF Next, vars, Ingest, Expire, Ask, NextPage, Serve, Prepare,
                Refuse, Count, Fetch, DbError, Respond, RecordStat
  <1>4. QED
    BY <1>1, <1>2, <1>3

\* A step leaves a request as it is or is a step of it.
LEMMA StepFrame ==
    ASSUME TypeOK, [Next]_vars, NEW d \in Clients
    PROVE  Same(d) \/ StepOf(d)
  <1>1. CASE UNCHANGED vars \/ Tick
    BY <1>1, QuietFrame DEF vars, Tick, walkVars
  <1>2. ASSUME NEW r \in Rows, Ingest(r) \/ Expire(r)
        PROVE  Same(d)
    BY <1>2, QuietFrame DEF Ingest, Expire
  <1>3. ASSUME NEW n \in 0 .. MaxPageSize, RecordStat(n)
        PROVE  Same(d)
    BY <1>3, QuietFrame DEF RecordStat, walkVars
  <1>4. ASSUME NEW c \in Clients \ {d}, NextPage(c)
        PROVE  Same(d)
    BY <1>4, ReceiveOthers DEF NextPage
  <1>5. ASSUME NEW c \in Clients \ {d}, NEW q \in Requests, Ask(c, q)
        PROVE  Same(d)
    BY <1>5, ReceiveOthers DEF Ask
  <1>6. ASSUME NEW c \in Clients \ {d}, Serve(c)
        PROVE  Same(d)
    BY <1>6, ServeOthers
  <1>7. QED
    BY <1>1, <1>2, <1>3, <1>4, <1>5, <1>6 DEF Next, StepOf

-----------------------------------------------------------------------------
(* The checks of a request *)

\* What is known of client c's request: the handler accepted its times at an
\* earlier look at the clock, and the service made sizes and times that the
\* repository accepts.
CheckedAt(c) ==
    /\ phase[c] = "parsed" =>
         /\ TimeRangeOK(from[c], to[c])
         /\ query[c].form # "badParameter"
    /\ phase[c] \in {"prepared", "counted", "fetched"} => RepositoryOK(c)
    /\ stage[c] = "service" => query[c].form \in {"badK8s", "badFilter"}

Checked == \A c \in Clients : CheckedAt(c)

\* A time range that was accepted stays acceptable as the clock runs.
LEMMA CheckedSame ==
    ASSUME TypeOK, NEW c \in Clients, CheckedAt(c), Same(c),
           clock' \in Nat, clock' >= clock
    PROVE  CheckedAt(c)'
  <1>1. from[c] \in SUBSET Int /\ to[c] \in SUBSET Int /\ clock \in Nat
    BY DEF TypeOK, RequestTypeOK, StoreTypeOK
  <1>2. TimeRangeOK(from[c], to[c]) => TimeRangeOK(from[c], to[c])'
    BY <1>1 DEF TimeRangeOK, Same
  <1>3. RepositoryOK(c) => RepositoryOK(c)'
    BY DEF RepositoryOK, Same
  <1>4. QED
    BY <1>2, <1>3 DEF CheckedAt, Same

\* The range the service fills in, or the one it took over, satisfies the
\* repository, and so does the page size.
LEMMA PreparedOK ==
    ASSUME TypeOK, NEW c \in Clients, CheckedAt(c), Prepare(c)
    PROVE  RepositoryOK(c)'
  <1>1. /\ from[c] \in SUBSET Int /\ to[c] \in SUBSET Int /\ clock \in Nat
        /\ size[c] \in 0 .. MaxPageSize
    BY DEF TypeOK, RequestTypeOK, StoreTypeOK
  <1>2. size'[c] \in 1 .. MaxPageSize
    <2>1. size'[c] = IF size[c] = 0 THEN DefaultPageSize ELSE size[c]
      BY DEF Prepare, TypeOK, RequestTypeOK
    <2>2. QED
      BY <1>1, <2>1
  <1>3. \A s \in from'[c], t \in to'[c] : s <= t /\ t - s <= MaxSpan
    <2>1. CASE from[c] = {} /\ to[c] = {}
      <3>1. from'[c] = {clock - Window} /\ to'[c] = {clock}
        BY <2>1 DEF Prepare, TypeOK, RequestTypeOK
      <3>2. clock - Window <= clock /\ clock - (clock - Window) <= MaxSpan
        BY <1>1
      <3>3. \A s \in {clock - Window}, t \in {clock} :
                s <= t /\ t - s <= MaxSpan
        BY <3>2
      <3>4. QED
        BY <3>1, <3>3
    <2>2. CASE ~(from[c] = {} /\ to[c] = {})
      <3>1. from'[c] = from[c] /\ to'[c] = to[c]
        BY <2>2 DEF Prepare, TypeOK, RequestTypeOK
      <3>2. TimeRangeOK(from[c], to[c])
        BY DEF Prepare, ServiceOK
      <3>3. QED
        BY <3>1, <3>2 DEF TimeRangeOK
    <2>3. QED
      BY <2>1, <2>2
  <1>4. from'[c] \in SUBSET Int /\ to'[c] \in SUBSET Int
    BY <1>1, TypeServe DEF Serve, TypeOK, RequestTypeOK
  <1>5. \A s \in from'[c], t \in to'[c] : t - s <= 7 * MaxSpan
    BY <1>3, <1>4
  <1>6. QED
    BY <1>2, <1>3, <1>5 DEF RepositoryOK

\* A step of the request keeps what is known of its checks.
LEMMA CheckedStep ==
    ASSUME TypeOK, NEW c \in Clients, CheckedAt(c), StepOf(c),
           clock' \in Nat, clock' >= clock
    PROVE  CheckedAt(c)'
  <1>1. ASSUME NEW q \in Requests, NEW pg \in Nat, Receive(c, q, pg)
        PROVE  CheckedAt(c)'
    <2>1. q.start \in SUBSET Int /\ q.end \in SUBSET Int
      BY RequestsAssumption DEF RequestsAssumption
    <2>2. ParseOK(q) => TimeRangeOK(q.start, q.end)' /\ q.form # "badParameter"
      <3>1. clock \in Nat
        BY DEF TypeOK, StoreTypeOK
      <3>2. QED
        BY <2>1, <3>1 DEF ParseOK, TimeRangeOK
    <2>3. CASE phase'[c] = "parsed"
      <3>1. /\ ParseOK(q) /\ stage'[c] = "none"
            /\ query'[c] = q /\ from'[c] = q.start /\ to'[c] = q.end
        <4>1. \/ ParseOK(q) /\ stage'[c] = "none"
              \/ phase'[c] = "answered"
          BY <1>1, ReceiveAt, Zenon
        <4>2. query'[c] = q /\ from'[c] = q.start /\ to'[c] = q.end
          BY <1>1 DEF Receive, TypeOK, RequestTypeOK
        <4>3. QED
          BY <2>3, <4>1, <4>2
      <3>2. TimeRangeOK(from[c], to[c])'
        BY <2>2, <3>1 DEF TimeRangeOK
      <3>3. QED
        BY <2>2, <2>3, <3>1, <3>2 DEF CheckedAt
    <2>4. CASE phase'[c] # "parsed"
      <3>1. phase'[c] = "answered" /\ stage'[c] = "handler"
        BY <1>1, <2>4, ReceiveAt
      <3>2. QED
        BY <3>1 DEF CheckedAt
    <2>5. QED
      BY <2>3, <2>4
  <1>2. CASE NextPage(c)
    <2>1. query[c] \in Requests /\ page[c] + 1 \in Nat
      BY DEF TypeOK, RequestTypeOK
    <2>2. QED
      BY <1>1, <1>2, <2>1 DEF NextPage
  <1>3. ASSUME NEW q \in Requests, Ask(c, q)
        PROVE  CheckedAt(c)'
    BY <1>1, <1>3 DEF Ask
  <1>4. CASE Prepare(c)
    <2>1. phase'[c] = "prepared" /\ stage'[c] = stage[c] /\ query'[c] = query[c]
      BY <1>4 DEF Prepare, TypeOK, RequestTypeOK
    <2>2. QED
      BY <1>4, <2>1, PreparedOK DEF CheckedAt
  <1>5. CASE Refuse(c)
    <2>1. /\ phase[c] = "parsed" /\ phase'[c] = "answered"
          /\ query'[c] = query[c] /\ ~ServiceOK(c)
      BY <1>5 DEF Refuse, Fail, TypeOK, RequestTypeOK
    <2>2. query[c].form \in Forms
      BY RequestsAssumption DEF RequestsAssumption, TypeOK, RequestTypeOK
    <2>3. query[c].form \in {"badK8s", "badFilter"}
      BY <2>1, <2>2 DEF CheckedAt, ServiceOK, Forms
    <2>4. QED
      BY <2>1, <2>3 DEF CheckedAt
  <1>6. CASE Count(c)
    BY <1>6 DEF Count, CheckedAt, RepositoryOK, TypeOK, RequestTypeOK
  <1>7. CASE Fetch(c)
    BY <1>7 DEF Fetch, CheckedAt, RepositoryOK, TypeOK, RequestTypeOK
  <1>8. ASSUME NEW code \in DbCodes, DbError(c, code)
        PROVE  CheckedAt(c)'
    BY <1>8 DEF DbError, Fail, CheckedAt, TypeOK, RequestTypeOK
  <1>9. CASE Respond(c)
    BY <1>9 DEF Respond, CheckedAt, TypeOK, RequestTypeOK
  <1>10. QED
    BY <1>2, <1>3, <1>4, <1>5, <1>6, <1>7, <1>8, <1>9 DEF StepOf, Serve

\* Every request is checked on the way from the handler to the repository.
LEMMA CheckedAlways == Spec => [](TypeOK /\ Checked)
  <1>1. Init => Checked
    BY DEF Init, Checked, CheckedAt
  <1>2. ASSUME TypeOK, Checked, [Next]_vars
        PROVE  Checked'
    BY <1>2, ClockStep, StepFrame, CheckedSame, CheckedStep DEF Checked
  <1>3. QED
    BY <1>1, <1>2, QueryTypeCorrect, PTL DEF Spec

\* The handler, the service and the repository agree about a request although
\* the clock moves between their looks at it: RevalidationAgrees.
THEOREM RevalidationCorrect == Spec => []RevalidationAgrees
  <1>1. Checked => RevalidationAgrees
    BY DEF Checked, CheckedAt, RevalidationAgrees
  <1>2. QED
    BY <1>1, CheckedAlways, PTL

-----------------------------------------------------------------------------
(* has_more *)

\* What is known of client c's page: its length when the rows were read, and
\* has_more when they were sent.
PageAt(c) ==
    /\ phase[c] = "fetched" =>
         Len(rows[c]) = PageLength(found[c], page[c], size[c])
    /\ phase[c] = "answered" /\ status[c] = 200 =>
         IF more[c] THEN total[c] > PageEnd(c) /\ found[c] >= PageEnd(c)
                    ELSE total[c] <= PageEnd(c) \/ found[c] < PageEnd(c)

Paged == \A c \in Clients : PageAt(c)

\* A request that is left alone keeps its page.
LEMMA PageSame ==
    ASSUME TypeOK, NEW c \in Clients, PageAt(c), Same(c)
    PROVE  PageAt(c)'
  BY DEF PageAt, PageEnd, Same

\* A full page with a count behind it is one the rows reached; any other is
\* the last at one of the two looks.
LEMMA HasMoreOf ==
    ASSUME NEW n \in Nat, NEW count \in Nat, NEW pg \in Nat,
           NEW sz \in Nat \ {0}
    PROVE  LET len == PageLength(n, pg, sz)
               end == (pg + 1) * sz
           IN  IF len = sz /\ pg * sz + len < count
                 THEN count > end /\ n >= end
                 ELSE count <= end \/ n < end
  <1> DEFINE offset == pg * sz
  <1>1. offset \in Nat /\ (pg + 1) * sz = offset + sz
    BY OffsetType
  <1> HIDE DEF offset
  <1>2. PageLength(n, pg, sz) = IF n <= offset THEN 0
                                ELSE IF n - offset < sz THEN n - offset ELSE sz
    BY DEF PageLength, offset
  <1>3. LET len == PageLength(n, pg, sz)
            end == offset + sz
        IN  IF len = sz /\ offset + len < count
              THEN count > end /\ n >= end
              ELSE count <= end \/ n < end
    BY <1>1, <1>2
  <1>4. QED
    BY <1>1, <1>3 DEF offset

\* A step of the request keeps what is known of its page.
LEMMA PageStep ==
    ASSUME TypeOK, NEW c \in Clients, CheckedAt(c), PageAt(c), StepOf(c)
    PROVE  PageAt(c)'
  <1>1. ASSUME phase'[c] \notin {"fetched", "answered"}
        PROVE  PageAt(c)'
    BY <1>1 DEF PageAt
  <1>2. ASSUME phase'[c] = "answered", status'[c] # 200
        PROVE  PageAt(c)'
    BY <1>2 DEF PageAt
  <1>3. ASSUME NEW q \in Requests, NEW pg \in Nat, Receive(c, q, pg)
        PROVE  PageAt(c)'
    <2>1. \/ phase'[c] = "parsed"
          \/ phase'[c] = "answered" /\ status'[c] = 400
      BY <1>3, ReceiveAt, Zenon
    <2>2. QED
      BY <1>1, <1>2, <2>1
  <1>4. CASE NextPage(c)
    <2>1. query[c] \in Requests /\ page[c] + 1 \in Nat
      BY DEF TypeOK, RequestTypeOK
    <2>2. QED
      BY <1>3, <1>4, <2>1 DEF NextPage
  <1>5. ASSUME NEW q \in Requests, Ask(c, q)
        PROVE  PageAt(c)'
    BY <1>3, <1>5 DEF Ask
  <1>6. CASE Prepare(c) \/ Count(c)
    BY <1>1, <1>6 DEF Prepare, Count, TypeOK, RequestTypeOK
  <1>7. CASE Refuse(c)
    <2>1. phase'[c] = "answered" /\ status'[c] \in {400, 500}
      BY <1>7 DEF Refuse, Fail, TypeOK, RequestTypeOK
    <2>2. QED
      BY <1>2, <2>1
  <1>8. ASSUME NEW code \in DbCodes, DbError(c, code)
        PROVE  PageAt(c)'
    <2>1. phase'[c] = "answered" /\ status'[c] = code
      BY <1>8 DEF DbError, Fail, TypeOK, RequestTypeOK
    <2>2. QED
      BY <1>2, <1>8, <2>1 DEF DbCodes
  <1>9. CASE Fetch(c)
    <2>1. Chosen(c) \in SUBSET Rows /\ page[c] \in Nat /\ size[c] \in Nat
      BY ChosenType DEF TypeOK, RequestTypeOK
    <2>2. PICK s \in Sorted(Chosen(c), query[c]) :
             rows' = [rows EXCEPT ![c] = PageOf(s, Cardinality(Chosen(c)),
                                                page[c], size[c])]
      BY <1>9 DEF Fetch
    <2>3. rows'[c] = PageOf(s, Cardinality(Chosen(c)), page[c], size[c])
      BY <2>2 DEF TypeOK, RequestTypeOK
    <2>4. Len(rows'[c]) = PageLength(Cardinality(Chosen(c)), page[c], size[c])
      BY <2>1, <2>2, <2>3, PageCut DEF IsPage
    <2>5. /\ phase'[c] = "fetched" /\ found'[c] = Cardinality(Chosen(c))
          /\ page'[c] = page[c] /\ size'[c] = size[c]
      BY <1>9 DEF Fetch, TypeOK, RequestTypeOK, WalkTypeOK
    <2>6. QED
      BY <2>4, <2>5 DEF PageAt
  <1>10. CASE Respond(c)
    <2>1. /\ found[c] \in Nat /\ total[c] \in Nat /\ page[c] \in Nat
          /\ size[c] \in Nat \ {0}
      BY <1>10 DEF Respond, CheckedAt, RepositoryOK, TypeOK, RequestTypeOK,
                  WalkTypeOK
    <2>2. Len(rows[c]) = PageLength(found[c], page[c], size[c])
      BY <1>10 DEF Respond, PageAt
    <2>3. more'[c] <=> /\ Len(rows[c]) = size[c]
                       /\ page[c] * size[c] + Len(rows[c]) < total[c]
      BY <1>10, Zenon DEF Respond, TypeOK, RequestTypeOK
    <2>4. IF more'[c] THEN total[c] > PageEnd(c) /\ found[c] >= PageEnd(c)
                      ELSE total[c] <= PageEnd(c) \/ found[c] < PageEnd(c)
      BY <2>1, <2>2, <2>3, HasMoreOf DEF PageEnd
    <2>5. /\ phase'[c] = "answered" /\ page'[c] = page[c]
          /\ size'[c] = size[c] /\ total'[c] = total[c]
          /\ found'[c] = found[c]
      BY <1>10 DEF Respond, TypeOK, RequestTypeOK
    <2>6. QED
      BY <2>4, <2>5 DEF PageAt, PageEnd
  <1>11. QED
    BY <1>4, <1>5, <1>6, <1>7, <1>8, <1>9, <1>10 DEF StepOf, Serve

\* Every page has the length and the has_more of the rows it was cut from.
LEMMA PagedAlways == Spec => []Paged
  <1>1. Init => Paged
    BY DEF Init, Paged, PageAt
  <1>2. ASSUME TypeOK, Checked, Paged, [Next]_vars
        PROVE  Paged'
    BY <1>2, StepFrame, PageSame, PageStep DEF Checked, Paged
  <1>3. QED
    BY <1>1, <1>2, CheckedAlways, PTL DEF Spec

\* has_more is right at one of the two looks at the table that an answer is
\* made of, whatever is written or removed between them: HasMoreHonest.
THEOREM HasMoreCorrect == Spec => []HasMoreHonest
  <1>1. Paged => HasMoreHonest
    BY DEF Paged, PageAt, HasMoreHonest
  <1>2. QED
    BY <1>1, PagedAlways, PTL

-----------------------------------------------------------------------------
(* Times as float64 seconds *)

\* Division leaves a remainder below the divisor.
LEMMA Division ==
    ASSUME NEW t \in Int, NEW g \in Nat \ {0}
    PROVE  /\ t \div g \in Int
           /\ (t \div g) * g <= t
           /\ t < (t \div g) * g + g
  <1>1. g * (t \div g) <= t /\ t <= g * (t \div g) + g - 1
    OBVIOUS
  <1>2. t \div g \in Int
    OBVIOUS
  <1>3. g * (t \div g) \in Int /\ g * (t \div g) = (t \div g) * g
    BY <1>2
  <1>4. QED
    BY <1>1, <1>2, <1>3

\* Rounding moves a time by at most half the distance of two floats.
LEMMA NearestIsNear ==
    ASSUME NEW t \in Int, NEW g \in Nat \ {0}
    PROVE  /\ Nearest(t, g) \in Int
           /\ 2 * (t - Nearest(t, g)) <= g
           /\ 2 * (Nearest(t, g) - t) <= g
  <1> DEFINE below == t \div g
             floor == below * g
  <1>1. below \in Int /\ floor <= t /\ t < floor + g
    BY Division
  <1>2. floor \in Int /\ (below + 1) * g = floor + g
    BY <1>1
  <1>3. \/ Nearest(t, g) = floor /\ 2 * (t - floor) <= g
        \/ Nearest(t, g) = (below + 1) * g /\ 2 * (t - floor) >= g
    BY <1>1, <1>2 DEF Nearest
  <1> HIDE DEF floor, below
  <1>4. QED
    BY <1>1, <1>2, <1>3

\* float64 seconds made of float64 nanoseconds are at most half the distance of
\* two floats of either kind away.
LEMMA FloatIsNear ==
    ASSUME NEW t \in Int
    PROVE  /\ AsFloat(t) \in Int
           /\ 2 * (t - AsFloat(t)) <= NanoGrain + SecondGrain
           /\ 2 * (AsFloat(t) - t) <= NanoGrain + SecondGrain
  <1> DEFINE n == Nearest(t, NanoGrain)
  <1>1. /\ n \in Int
        /\ 2 * (t - n) <= NanoGrain
        /\ 2 * (n - t) <= NanoGrain
    BY NearestIsNear
  <1>2. AsFloat(t) = Nearest(n, SecondGrain)
    BY DEF AsFloat
  <1> HIDE DEF n
  <1>3. /\ Nearest(n, SecondGrain) \in Int
        /\ 2 * (n - Nearest(n, SecondGrain)) <= SecondGrain
        /\ 2 * (Nearest(n, SecondGrain) - n) <= SecondGrain
    BY <1>1, NearestIsNear
  <1>4. QED
    BY <1>1, <1>2, <1>3

\* The WHERE clause tells what is on one side of its bound from what is on the
\* other side of the time up to its precision, whatever the builder.
LEMMA BoundIsNear ==
    ASSUME NEW q, NEW t \in Int, NEW s \in Int
    PROVE  /\ s >= Bound(q, t) => Within(q, t - s)
           /\ s <= Bound(q, t) => Within(q, s - t)
  <1>1. CASE q.builder = "time"
    BY <1>1, FloatIsNear DEF Bound, Within
  <1>2. CASE q.builder # "time"
    <2>1. /\ AsDriverTime(t) \in Int
          /\ AsDriverTime(t) <= t
          /\ t < AsDriverTime(t) + DriverGrain
      BY Division DEF AsDriverTime
    <2>2. QED
      BY <1>2, <2>1 DEF Bound, Within
  <1>3. QED
    BY <1>1, <1>2

-----------------------------------------------------------------------------
(* The rows of a page *)

\* Row r is one that client c's request may be answered with.
RowInScope(c, r) ==
    /\ r.dataset = query[c].dataset
    /\ r \in query[c].match
    /\ \A t \in from[c] : Within(query[c], t - r.stamp)
    /\ \A t \in to[c] : Within(query[c], r.stamp - t)

\* What is known of client c's rows: there are none before they were read, and
\* then each is in scope and there once.
ScopedAt(c) ==
    /\ phase[c] \in {"idle", "parsed", "prepared", "counted"} => rows[c] = <<>>
    /\ Len(rows[c]) <= size[c]
    /\ \A i \in DOMAIN rows[c] :
        /\ RowInScope(c, rows[c][i])
        /\ \A j \in DOMAIN rows[c] : rows[c][j] = rows[c][i] => i = j

Scoped == \A c \in Clients : ScopedAt(c)

\* A request that is left alone keeps its rows.
LEMMA ScopedSame ==
    ASSUME TypeOK, NEW c \in Clients, ScopedAt(c), Same(c)
    PROVE  ScopedAt(c)'
  BY DEF ScopedAt, RowInScope, Same

\* An answer without rows is in scope.
LEMMA NoRowsScoped ==
    ASSUME TypeOK, TypeOK', NEW c \in Clients, rows'[c] = <<>>
    PROVE  ScopedAt(c)'
  <1>1. Len(rows'[c]) = 0 /\ DOMAIN rows'[c] = {}
    OBVIOUS
  <1>2. size'[c] \in Nat
    BY DEF TypeOK, RequestTypeOK
  <1>3. QED
    BY <1>1, <1>2 DEF ScopedAt

\* The WHERE clause selects rows in scope.
LEMMA ChosenInScope ==
    ASSUME TypeOK, NEW c \in Clients, NEW r \in Chosen(c)
    PROVE  RowInScope(c, r)
  <1>1. r.stamp \in Nat
    BY RowsAssumption DEF RowsAssumption, Chosen, Selected, TypeOK, StoreTypeOK
  <1>2. Selects(query[c], from[c], to[c], r)
    BY DEF Chosen, Selected
  <1>3. from[c] \in SUBSET Int /\ to[c] \in SUBSET Int
    BY DEF TypeOK, RequestTypeOK
  <1>4. \A t \in from[c] : Within(query[c], t - r.stamp)
    BY <1>1, <1>2, <1>3, BoundIsNear DEF Selects
  <1>5. \A t \in to[c] : Within(query[c], r.stamp - t)
    BY <1>1, <1>2, <1>3, BoundIsNear DEF Selects
  <1>6. QED
    BY <1>2, <1>4, <1>5 DEF Selects, RowInScope

\* The database returns every row once.
LEMMA SortedOnce ==
    ASSUME NEW S \in SUBSET Rows, NEW q, NEW s \in Sorted(S, q),
           NEW i \in 1 .. Cardinality(S), NEW j \in 1 .. Cardinality(S),
           s[i] = s[j]
    PROVE  i = j
  <1>1. Cardinality(S) \in Nat
    BY RowsCount
  <1>2. i \in Int /\ j \in Int
    BY <1>1
  <1>3. ~(i < j) /\ ~(j < i)
    BY DEF Sorted
  <1>4. QED
    BY <1>2, <1>3

\* A page cut out of them is in scope.
LEMMA FetchScoped ==
    ASSUME TypeOK, NEW c \in Clients, Fetch(c)
    PROVE  ScopedAt(c)'
  <1> DEFINE n == Cardinality(Chosen(c))
             offset == page[c] * size[c]
  <1>1. /\ Chosen(c) \in SUBSET Rows /\ page[c] \in Nat /\ size[c] \in Nat
        /\ offset \in Nat /\ n \in Nat
    BY ChosenType, RowsCount, OffsetType DEF TypeOK, RequestTypeOK
  <1>2. PICK s \in Sorted(Chosen(c), query[c]) :
           rows' = [rows EXCEPT ![c] = PageOf(s, n, page[c], size[c])]
    BY DEF Fetch
  <1>3. rows'[c] = PageOf(s, n, page[c], size[c])
    BY <1>2 DEF TypeOK, RequestTypeOK
  <1>4. /\ rows'[c] \in Seq(Chosen(c))
        /\ Len(rows'[c]) = PageLength(n, page[c], size[c])
        /\ \A i \in DOMAIN rows'[c] : /\ offset + i \in 1 .. n
                                      /\ rows'[c][i] = s[offset + i]
    <2>1. IsPage(PageOf(s, n, page[c], size[c]), s, Chosen(c), page[c], size[c])
      BY <1>1, <1>2, PageCut
    <2>2. QED
      BY <1>3, <2>1 DEF IsPage
  <1>5. /\ phase'[c] = "fetched" /\ size'[c] = size[c] /\ query'[c] = query[c]
        /\ from'[c] = from[c] /\ to'[c] = to[c]
    BY DEF Fetch, TypeOK, RequestTypeOK
  <1> HIDE DEF n, offset
  <1>6. Len(rows'[c]) <= size'[c]
    <2>1. PageLength(n, page[c], size[c]) <= size[c]
      BY <1>1 DEF PageLength, offset
    <2>2. QED
      BY <1>4, <1>5, <2>1
  <1>7. \A i \in DOMAIN rows'[c] : RowInScope(c, rows[c][i])'
    <2> SUFFICES ASSUME NEW i \in DOMAIN rows'[c]
                 PROVE  RowInScope(c, rows[c][i])'
      OBVIOUS
    <2>1. rows'[c][i] \in Chosen(c)
      BY <1>4
    <2>2. RowInScope(c, rows'[c][i])
      BY <2>1, ChosenInScope
    <2>3. QED
      BY <1>5, <2>2 DEF RowInScope
  <1>8. ASSUME NEW i \in DOMAIN rows'[c], NEW j \in DOMAIN rows'[c],
               rows'[c][j] = rows'[c][i]
        PROVE  i = j
    <2>1. /\ offset + i \in 1 .. n /\ offset + j \in 1 .. n
          /\ s[offset + i] = s[offset + j]
      BY <1>4, <1>8
    <2>2. offset + i = offset + j
      BY <1>1, <1>2, <2>1, SortedOnce DEF n
    <2>3. i \in Nat /\ j \in Nat
      BY <1>4
    <2>4. offset \in Nat
      BY <1>1
    <2>5. QED
      BY <2>2, <2>3, <2>4
  <1>9. QED
    BY <1>5, <1>6, <1>7, <1>8 DEF ScopedAt

\* A step of the request keeps what is known of its rows.
LEMMA ScopedStep ==
    ASSUME TypeOK, TypeOK', NEW c \in Clients, ScopedAt(c), StepOf(c)
    PROVE  ScopedAt(c)'
  <1>1. ASSUME NEW q, NEW pg, Receive(c, q, pg)
        PROVE  ScopedAt(c)'
    <2>1. rows' = [rows EXCEPT ![c] = <<>>]
      BY <1>1, Zenon DEF Receive, Fail
    <2>2. QED
      BY <2>1, NoRowsScoped DEF TypeOK, RequestTypeOK
  <1>2. CASE NextPage(c)
    BY <1>1, <1>2 DEF NextPage
  <1>3. ASSUME NEW q \in Requests, Ask(c, q)
        PROVE  ScopedAt(c)'
    BY <1>1, <1>3 DEF Ask
  <1>4. CASE Prepare(c) \/ Count(c)
    <2>1. rows'[c] = rows[c] /\ phase[c] \in {"parsed", "prepared"}
      BY <1>4 DEF Prepare, Count
    <2>2. QED
      BY <2>1, NoRowsScoped DEF ScopedAt
  <1>5. CASE Refuse(c) \/ \E code \in DbCodes : DbError(c, code)
    <2>1. rows'[c] = <<>>
      BY <1>5 DEF Refuse, DbError, Fail, TypeOK, RequestTypeOK
    <2>2. QED
      BY <2>1, NoRowsScoped
  <1>6. CASE Fetch(c)
    BY <1>6, FetchScoped
  <1>7. CASE Respond(c)
    <2>1. /\ phase'[c] = "answered" /\ rows'[c] = rows[c] /\ size'[c] = size[c]
          /\ query'[c] = query[c] /\ from'[c] = from[c] /\ to'[c] = to[c]
      BY <1>7 DEF Respond, TypeOK, RequestTypeOK
    <2>2. QED
      BY <2>1 DEF ScopedAt, RowInScope
  <1>8. QED
    BY <1>2, <1>3, <1>4, <1>5, <1>6, <1>7 DEF StepOf, Serve

\* Every page holds rows in scope, each once.
LEMMA ScopedAlways == Spec => []Scoped
  <1>1. Init => Scoped
    BY DEF Init, Scoped, ScopedAt
  <1>2. ASSUME TypeOK, TypeOK', Scoped, [Next]_vars
        PROVE  Scoped'
    BY <1>2, StepFrame, ScopedSame, ScopedStep DEF Scoped
  <1>3. QED
    BY <1>1, <1>2, QueryTypeCorrect, PTL DEF Spec

\* Data isolation: no page holds a row of another dataset, a row the conditions
\* do not select, one outside the time range by as much as the precision of its
\* times, a row twice, or more rows than the page size: RowsScoped.
THEOREM RowsCorrect == Spec => []RowsScoped
  <1>1. ASSUME TypeOK, Scoped
        PROVE  RowsScoped
    <2> SUFFICES ASSUME NEW c \in Clients
                 PROVE  /\ Len(rows[c]) <= MaxPageSize
                        /\ ScopedAt(c)
      BY DEF RowsScoped, ScopedAt, RowInScope
    <2>1. ScopedAt(c) /\ size[c] \in 0 .. MaxPageSize /\ rows[c] \in Seq(Rows)
      BY <1>1 DEF Scoped, TypeOK, RequestTypeOK
    <2>2. QED
      BY <2>1 DEF ScopedAt
  <1>2. QED
    BY <1>1, ScopedAlways, QueryTypeCorrect, PTL

-----------------------------------------------------------------------------
(* The rows recorded in query_stats *)

\* The rows of the inserts under way are a sum of naturals.
LEMMA UnderWaySum ==
    ASSUME StatsTypeOK
    PROVE  /\ UnderWay = Sum(RowsPending, MaxPageSize)
           /\ RowsPending \in [1 .. MaxPageSize -> Int]
           /\ UnderWay \in Int
  <1>1. UnderWay = Sum(RowsPending, MaxPageSize)
    BY DEF UnderWay, Sum
  <1>2. \A n \in 1 .. MaxPageSize : n * pending[n] \in Int
    BY DEF StatsTypeOK
  <1>3. RowsPending \in [1 .. MaxPageSize -> Int]
    BY <1>2 DEF RowsPending
  <1>4. \A n \in 1 .. MaxPageSize :
            RowsPending[n] \in Int /\ RowsPending[n] = RowsPending[n]
    BY <1>3
  <1>5. Sum(RowsPending, MaxPageSize) \in Int
    BY <1>4, SumSame, Zenon
  <1>6. QED
    BY <1>1, <1>3, <1>5

\* One insert more or less of k rows, and maybe one of none.
LEMMA UnderWayMoves ==
    ASSUME StatsTypeOK, NEW k \in 0 .. MaxPageSize, NEW e \in {1, 0 - 1},
           \A n \in 1 .. MaxPageSize :
               pending'[n] = IF n = k THEN pending[n] + e ELSE pending[n]
    PROVE  UnderWay' = UnderWay + e * k
  <1>1. /\ UnderWay = Sum(RowsPending, MaxPageSize)
        /\ RowsPending \in [1 .. MaxPageSize -> Int]
        /\ UnderWay \in Int
    BY UnderWaySum
  <1>2. UnderWay' = Sum(RowsPending', MaxPageSize)
    BY DEF UnderWay, Sum
  <1>3. CASE k = 0
    <2>1. RowsPending' = RowsPending
      BY <1>3 DEF RowsPending
    <2>2. QED
      BY <1>1, <1>2, <1>3, <2>1
  <1>4. CASE k \in 1 .. MaxPageSize
    <2>1. k * (pending[k] + e) = k * pending[k] + e * k
      BY <1>4 DEF StatsTypeOK
    <2>2. e * k \in Int
      BY <1>4
    <2>3. RowsPending' = [RowsPending EXCEPT ![k] = @ + e * k]
      <3>1. \A n \in 1 .. MaxPageSize :
              n * pending'[n] = IF n = k THEN n * pending[n] + e * k ELSE n * pending[n]
        BY <2>1
      <3> HIDE DEF RowsPending
      <3>2. /\ RowsPending = [n \in 1 .. MaxPageSize |-> n * pending[n]]
            /\ RowsPending' = [n \in 1 .. MaxPageSize |-> n * pending'[n]]
        BY DEF RowsPending
      <3>3. QED
        BY <1>1, <3>1, <3>2
    <2>4. Sum([RowsPending EXCEPT ![k] = @ + e * k], MaxPageSize)
            = Sum(RowsPending, MaxPageSize) + e * k
      BY <1>1, <1>4, <2>2, SumMoves, Zenon
    <2>5. QED
      BY <1>1, <1>2, <2>3, <2>4
  <1>5. QED
    BY <1>3, <1>4

\* Finish starts one insert of the rows returned, and one of none.
LEMMA FinishRecords ==
    ASSUME StatsTypeOK, MetricsEnabled, NEW k \in 0 .. MaxPageSize,
           Finish(<<k, 0>>) \/ (Finish(<<k>>) /\ k = 0)
    PROVE  UnderWay' = UnderWay + k
  <1>1. PICK lengths : /\ lengths = <<k, 0>> \/ (lengths = <<k>> /\ k = 0)
                       /\ Finish(lengths)
    OBVIOUS
  <1> DEFINE times(n) == Cardinality({i \in DOMAIN lengths : lengths[i] = n})
  <1>2. \A n \in 1 .. MaxPageSize : times(n) = IF n = k THEN 1 ELSE 0
    <2> TAKE n \in 1 .. MaxPageSize
    <2>1. {i \in DOMAIN lengths : lengths[i] = n} = IF n = k THEN {1} ELSE {}
      BY <1>1
    <2>2. QED
      BY <2>1, FS_EmptySet, FS_Singleton
  <1>3. pending' = [n \in 0 .. MaxPageSize |-> pending[n] + times(n)]
    BY <1>1 DEF Finish
  <1> HIDE DEF times
  <1>4. \A n \in 1 .. MaxPageSize :
            pending'[n] = IF n = k THEN pending[n] + 1 ELSE pending[n]
    BY <1>2, <1>3 DEF StatsTypeOK
  <1>5. UnderWay' = UnderWay + 1 * k /\ UnderWay \in Int
    BY <1>4, UnderWayMoves, UnderWaySum
  <1>6. QED
    BY <1>5

\* A step that leaves the statistics alone.
LEMMA RecordsSame ==
    ASSUME RowsRecorded, UNCHANGED <<returned, pending, stats>>
    PROVE  RowsRecorded'
  BY DEF RowsRecorded, UnderWay, RowsPending

\* What the repository returns is under way to the table, from where it gets
\* there or is dropped.
LEMMA RecordsStep ==
    ASSUME TypeOK, TypeOK', RowsScoped', RowsRecorded, [Next]_vars
    PROVE  RowsRecorded'
  <1>1. StatsTypeOK /\ UnderWay \in Int
    BY UnderWaySum DEF TypeOK
  <1>2. ASSUME NEW c \in Clients, Fetch(c)
        PROVE  RowsRecorded'
    <2>1. CASE MetricsEnabled
      <3>1. Len(rows'[c]) \in 0 .. MaxPageSize
        BY DEF RowsScoped, TypeOK, RequestTypeOK
      <3>2. UnderWay' = UnderWay + Len(rows'[c])
        BY <1>1, <1>2, <2>1, <3>1, FinishRecords DEF Fetch
      <3>3. returned' = returned + Len(rows'[c]) /\ stats' = stats
        BY <1>2, <2>1 DEF Fetch
      <3>4. QED
        BY <1>1, <3>1, <3>2, <3>3 DEF RowsRecorded, StatsTypeOK
    <2>2. CASE ~MetricsEnabled
      BY <1>2, <2>2, RecordsSame DEF Fetch, Finish
    <2>3. QED
      BY <2>1, <2>2
  <1>3. ASSUME NEW c \in Clients, NEW code \in DbCodes, DbError(c, code)
        PROVE  RowsRecorded'
    <2>1. CASE MetricsEnabled
      <3>1. UnderWay' = UnderWay + 0
        <4>1. PICK k \in 0 .. MaxPageSize : k = 0 /\ Finish(<<k>>)
          BY <1>3 DEF DbError
        <4>2. QED
          BY <1>1, <2>1, <4>1, FinishRecords
      <3>2. QED
        BY <1>1, <1>3, <3>1 DEF RowsRecorded, DbError
    <2>2. CASE ~MetricsEnabled
      BY <1>3, <2>2, RecordsSame DEF DbError, Finish
    <2>3. QED
      BY <2>1, <2>2
  <1>4. ASSUME NEW n \in 0 .. MaxPageSize, RecordStat(n)
        PROVE  RowsRecorded'
    <2>1. pending' = [pending EXCEPT ![n] = pending[n] - 1]
      BY <1>4 DEF RecordStat
    <2>2. \A m \in 1 .. MaxPageSize :
              pending'[m] = IF m = n THEN pending[m] + (0 - 1) ELSE pending[m]
      BY <1>1, <2>1 DEF StatsTypeOK
    <2>3. UnderWay' = UnderWay + (0 - 1) * n
      BY <1>1, <2>2, UnderWayMoves
    <2>4. stats'.rows + stats'.dropped = stats.rows + stats.dropped + n
      <3>1. stats.rows \in Nat /\ stats.dropped \in Nat
        BY <1>1 DEF StatsTypeOK
      <3>2. CASE stats' = [stats EXCEPT !.records = @ + 1, !.rows = @ + n]
        <4>1. stats'.rows = stats.rows + n /\ stats'.dropped = stats.dropped
          BY <1>1, <3>2 DEF StatsTypeOK
        <4>2. QED
          BY <3>1, <4>1
      <3>3. CASE stats' = [stats EXCEPT !.dropped = @ + n]
        <4>1. stats'.rows = stats.rows /\ stats'.dropped = stats.dropped + n
          BY <1>1, <3>3 DEF StatsTypeOK
        <4>2. QED
          BY <3>1, <4>1
      <3>4. QED
        BY <1>4, <3>2, <3>3 DEF RecordStat
    <2>5. returned' = returned /\ stats'.rows \in Nat /\ stats'.dropped \in Nat
      BY <1>4 DEF RecordStat, TypeOK, StatsTypeOK
    <2>6. QED
      BY <1>1, <2>3, <2>4, <2>5 DEF RowsRecorded, StatsTypeOK
  <1>5. ASSUME NEW c \in Clients, Prepare(c) \/ Refuse(c) \/ Count(c) \/ Respond(c)
        PROVE  RowsRecorded'
    BY <1>5, RecordsSame DEF Prepare, Refuse, Count, Respond, statsVars
  <1>6. ASSUME NEW c \in Clients, NextPage(c) \/ \E q \in Requests : Ask(c, q)
        PROVE  RowsRecorded'
    BY <1>6, RecordsSame DEF NextPage, Ask, statsVars
  <1>7. ASSUME NEW r \in Rows, Ingest(r) \/ Expire(r)
        PROVE  RowsRecorded'
    BY <1>7, RecordsSame DEF Ingest, Expire, statsVars
  <1>8. CASE Tick \/ UNCHANGED vars
    BY <1>8, RecordsSame DEF Tick, vars, statsVars
  <1>9. QED
    BY <1>2, <1>3, <1>4, <1>5, <1>6, <1>7, <1>8 DEF Next, Serve

\* The rows that the repository returned are those recorded in query_stats, but
\* for inserts under way or failed, for every page size.
THEOREM RecordsCorrect == Spec => []RowsRecorded
  <1>1. Init => RowsRecorded
    <2> SUFFICES ASSUME Init PROVE RowsRecorded
      OBVIOUS
    <2>1. \A n \in 1 .. MaxPageSize : RowsPending[n] = 0
      BY DEF Init, RowsPending
    <2>2. UnderWay = Sum(RowsPending, MaxPageSize)
      BY DEF UnderWay, Sum
    <2>3. UnderWay = 0
      BY <2>1, <2>2, SumOfZeros
    <2>4. QED
      BY <2>3 DEF Init, RowsRecorded
  <1>2. TypeOK /\ TypeOK' /\ RowsScoped' /\ RowsRecorded /\ [Next]_vars => RowsRecorded'
    BY RecordsStep
  <1>3. QED
    BY <1>1, <1>2, QueryTypeCorrect, RowsCorrect, PTL DEF Spec

-----------------------------------------------------------------------------
(***************************************************************************)
(* What a client that reads a result page by page gets: no row twice and   *)
(* none missed, as far as the table lets it. Both rest on the place of a   *)
(* row in the result, the number of rows before it: a page holds the rows  *)
(* whose places its offset and limit name, a row that is written moves     *)
(* others only behind and one that is removed only forward.                *)
(***************************************************************************)

(* The place of a row in the result *)

\* The rows of S that q asks for.
AskedRows(q, S) == {r \in S : Asked(q, r)}

\* How many rows of S come before r in q's result.
Rank(q, S, r) == Cardinality({x \in AskedRows(q, S) : Before(q, x, r)})

\* The order is strict.
LEMMA BeforeStrict ==
    ASSUME NEW q \in Requests, NEW r \in Rows, NEW s \in Rows,
           Before(q, r, s)
    PROVE  ~Before(q, s, r)
  <1>1. /\ r.stamp \in Nat /\ r.service \in Nat /\ r.ns \in Nat
        /\ s.stamp \in Nat /\ s.service \in Nat /\ s.ns \in Nat
    BY RowsAssumption DEF RowsAssumption
  <1>2. q.builder \in Builders
    BY RequestsAssumption DEF RequestsAssumption
  <1>3. CASE q.builder = "time"
    BY <1>1, <1>3 DEF Before
  <1>4. CASE q.builder = "k8s"
    BY <1>1, <1>4 DEF Before
  <1>5. CASE q.builder = "content"
    BY <1>1, <1>5 DEF Before
  <1>6. QED
    BY <1>2, <1>3, <1>4, <1>5 DEF Builders

\* The database leaves no row out.
LEMMA SortedAll ==
    ASSUME NEW S \in SUBSET Rows, NEW q, NEW s \in Sorted(S, q), NEW r \in S
    PROVE  \E k \in 1 .. Cardinality(S) : s[k] = r
  <1> DEFINE n == Cardinality(S)
             places == 1 .. n
  <1>1. IsFiniteSet(S) /\ n \in Nat
    BY RowsCount
  <1>2. s \in [places -> S]
    BY DEF Sorted
  <1>3. \A i, j \in places : s[i] = s[j] => i = j
    BY SortedOnce
  <1> HIDE DEF n
  <1>4. Cardinality(places) = n
    <2>1. Cardinality(1 .. n) = IF 1 > n THEN 0 ELSE n - 1 + 1
      BY <1>1, FS_Interval
    <2>2. QED
      BY <1>1, <2>1
  <1>5. s \in Injection(places, S)
    BY <1>2, <1>3 DEF Injection, IsInjective
  <1>6. s \in Surjection(places, S)
    BY <1>1, <1>4, <1>5, FS_Injection DEF n
  <1>7. QED
    BY <1>6 DEF Surjection, n

\* When no two rows tie, the row at place k has k - 1 rows before it.
LEMMA RankOfSorted ==
    ASSUME NEW q \in Requests, NEW S \in SUBSET Rows,
           \A r, s \in S : r = s \/ Before(q, r, s) \/ Before(q, s, r),
           NEW s \in Sorted(S, q), NEW k \in 1 .. Cardinality(S)
    PROVE  Cardinality({x \in S : Before(q, x, s[k])}) = k - 1
  <1> DEFINE n == Cardinality(S)
             T == {x \in S : Before(q, x, s[k])}
             f == [i \in 1 .. k - 1 |-> s[i]]
  <1>1. n \in Nat /\ k \in Nat /\ k >= 1 /\ k <= n
    BY RowsCount
  <1>2. /\ s \in [1 .. n -> S]
        /\ \A i, j \in 1 .. n : i < j => s[i] # s[j] /\ ~Before(q, s[j], s[i])
    BY DEF Sorted
  <1>3. \A i \in 1 .. n : s[i] \in S /\ (Before(q, s[i], s[k]) <=> i < k)
    <2> SUFFICES ASSUME NEW i \in 1 .. n
                 PROVE  s[i] \in S /\ (Before(q, s[i], s[k]) <=> i < k)
      OBVIOUS
    <2>1. s[i] \in S /\ s[k] \in S
      BY <1>1, <1>2
    <2>2. CASE i < k
      <3>1. s[i] # s[k] /\ ~Before(q, s[k], s[i])
        BY <1>2, <2>2
      <3>2. QED
        BY <2>1, <2>2, <3>1
    <2>3. CASE i = k
      BY <2>1, <2>3, BeforeStrict
    <2>4. CASE k < i
      BY <1>1, <1>2, <2>1, <2>4
    <2>5. QED
      BY <1>1, <2>2, <2>3, <2>4
  <1>4. \A x \in S : \E i \in 1 .. n : s[i] = x
    BY SortedAll
  <1> HIDE DEF n
  <1>5. f \in [1 .. k - 1 -> T]
    BY <1>1, <1>3
  <1>6. f \in Injection(1 .. k - 1, T)
    <2>1. \A i, j \in 1 .. k - 1 : f[i] = f[j] => i = j
      <3> SUFFICES ASSUME NEW i \in 1 .. k - 1, NEW j \in 1 .. k - 1,
                          s[i] = s[j]
                   PROVE  i = j
        OBVIOUS
      <3>1. i \in 1 .. n /\ j \in 1 .. n
        BY <1>1
      <3>2. QED
        BY <3>1, SortedOnce DEF n
    <2>2. QED
      BY <1>5, <2>1 DEF Injection, IsInjective
  <1>7. f \in Surjection(1 .. k - 1, T)
    <2>1. \A x \in T : \E i \in 1 .. k - 1 : f[i] = x
      <3> SUFFICES ASSUME NEW x \in T
                   PROVE  \E i \in 1 .. k - 1 : f[i] = x
        OBVIOUS
      <3>1. PICK i \in 1 .. n : s[i] = x
        BY <1>4
      <3>2. i < k
        BY <1>3, <3>1
      <3>3. i \in 1 .. k - 1
        BY <1>1, <3>2
      <3>4. QED
        BY <3>1, <3>3
    <2>2. QED
      BY <1>5, <2>1 DEF Surjection
  <1>8. ExistsBijection(1 .. k - 1, T)
    BY <1>6, <1>7 DEF ExistsBijection, Bijection
  <1>9. k - 1 \in Nat
    BY <1>1
  <1> HIDE DEF T
  <1>10. Cardinality(T) = k - 1
    BY <1>8, <1>9, FS_CountingElements
  <1>11. QED
    BY <1>10 DEF T

\* More rows can only move a row further behind.
LEMMA RankGrows ==
    ASSUME NEW q, NEW S \in SUBSET Rows, NEW T \in SUBSET Rows, NEW r,
           AskedRows(q, S) \subseteq AskedRows(q, T)
    PROVE  /\ Rank(q, S, r) \in Nat /\ Rank(q, T, r) \in Nat
           /\ Rank(q, S, r) <= Rank(q, T, r)
  <1> DEFINE A(U) == {x \in AskedRows(q, U) : Before(q, x, r)}
  <1>1. A(S) \in SUBSET Rows /\ A(T) \in SUBSET Rows /\ A(S) \in SUBSET A(T)
    BY DEF AskedRows
  <1>2. Rank(q, S, r) = Cardinality(A(S)) /\ Rank(q, T, r) = Cardinality(A(T))
    BY DEF Rank
  <1> HIDE DEF A
  <1>3. Cardinality(A(S)) <= Cardinality(A(T))
    BY <1>1, RowsCount, FS_Subset
  <1>4. QED
    BY <1>1, <1>2, <1>3, RowsCount

\* The place of a row a page holds: from the first of the page on, and before
\* the first of the next.
LEMMA PagePlaces ==
    ASSUME NEW q \in Requests, TieFree(q), NEW S \in SUBSET Rows,
           NEW s \in Sorted(AskedRows(q, S), q), NEW pg \in Nat, NEW sz \in Nat,
           NEW cut, IsPage(cut, s, AskedRows(q, S), pg, sz)
    PROVE  /\ \A i \in DOMAIN cut :
                /\ pg * sz <= Rank(q, S, cut[i])
                /\ Rank(q, S, cut[i]) < (pg + 1) * sz
           /\ \A r \in AskedRows(q, S) :
                \/ Rank(q, S, r) < pg * sz
                \/ \E i \in DOMAIN cut : cut[i] = r
                \/ /\ (pg + 1) * sz <= Rank(q, S, r)
                   /\ (pg + 1) * sz < Cardinality(AskedRows(q, S))
  <1> DEFINE A == AskedRows(q, S)
             n == Cardinality(A)
             offset == pg * sz
  <1>1. A \in SUBSET Rows /\ n \in Nat
    BY RowsCount DEF AskedRows
  <1>2. offset \in Nat /\ (pg + 1) * sz = offset + sz
    BY OffsetType
  <1>3. \A r, t \in A : r = t \/ Before(q, r, t) \/ Before(q, t, r)
    BY DEF TieFree, AskedRows
  <1>4. \A k \in 1 .. n : Rank(q, S, s[k]) = k - 1
    BY <1>1, <1>3, RankOfSorted DEF Rank
  <1>5. /\ cut \in Seq(A)
        /\ Len(cut) = PageLength(n, pg, sz)
        /\ \A i \in DOMAIN cut : offset + i \in 1 .. n /\ cut[i] = s[offset + i]
    BY DEF IsPage
  <1>6. PageLength(n, pg, sz) = IF n <= offset THEN 0
                                ELSE IF n - offset < sz THEN n - offset ELSE sz
    BY DEF PageLength
  <1>7. \A r \in A : \E k \in 1 .. n : s[k] = r
    BY <1>1, SortedAll
  <1> HIDE DEF n, offset, A
  <1>8. DOMAIN cut = 1 .. PageLength(n, pg, sz)
    BY <1>5
  <1>9. ASSUME NEW i \in DOMAIN cut
        PROVE  /\ offset <= Rank(q, S, cut[i])
               /\ Rank(q, S, cut[i]) < offset + sz
    <2>1. i \in Nat /\ i >= 1 /\ i <= sz
      BY <1>1, <1>2, <1>6, <1>8
    <2>2. offset + i \in 1 .. n /\ cut[i] = s[offset + i]
      BY <1>5
    <2>3. Rank(q, S, cut[i]) = (offset + i) - 1
      BY <1>4, <2>2
    <2>4. QED
      BY <1>2, <2>1, <2>3
  <1>10. ASSUME NEW r \in A
         PROVE  \/ Rank(q, S, r) < offset
                \/ \E i \in DOMAIN cut : cut[i] = r
                \/ offset + sz <= Rank(q, S, r) /\ offset + sz < n
    <2>1. PICK k \in 1 .. n : s[k] = r
      BY <1>7
    <2>2. k \in Nat /\ 1 <= k /\ k <= n /\ Rank(q, S, r) = k - 1
      BY <1>1, <1>4, <2>1
    <2>3. CASE k <= offset
      BY <1>2, <2>2, <2>3
    <2>4. CASE offset < k /\ k <= offset + sz
      <3>1. k - offset \in DOMAIN cut /\ offset + (k - offset) = k
        BY <1>1, <1>2, <1>6, <1>8, <2>2, <2>4
      <3>2. cut[k - offset] = r
        BY <1>5, <2>1, <3>1
      <3>3. QED
        BY <3>1, <3>2
    <2>5. CASE offset + sz < k
      BY <1>1, <1>2, <2>2, <2>5
    <2>6. QED
      BY <1>2, <2>2, <2>3, <2>4, <2>5
  <1>11. QED
    BY <1>2, <1>9, <1>10 DEF A, n, offset

-----------------------------------------------------------------------------
(* A walk, and the steps that leave it alone *)

\* The page size of a request, the default one when the client gave none.
PageRows(q) == IF q.pageSize = 0 THEN DefaultPageSize ELSE q.pageSize

\* What is known of the sizes and times of client c's request: they are the
\* client's own, except for the defaults, so that every page of a walk with a
\* range that does not move is cut out of the same conditions.
OwnAt(c) ==
    /\ phase[c] = "parsed" =>
         /\ size[c] = query[c].pageSize
         /\ from[c] = query[c].start /\ to[c] = query[c].end
    /\ phase[c] \in {"prepared", "counted", "fetched"} =>
         /\ size[c] = PageRows(query[c])
         /\ Pinned(query[c]) =>
              from[c] = query[c].start /\ to[c] = query[c].end
    /\ more[c] => phase[c] = "answered" /\ size[c] = PageRows(query[c])

Own == \A c \in Clients : OwnAt(c)

\* The walk of client c is as it was.
SameWalk(c) ==
    /\ base'[c] = base[c] /\ seen'[c] = seen[c]
    /\ arrived'[c] = arrived[c] /\ left'[c] = left[c] /\ raced'[c] = raced[c]

\* A step of the request keeps what is known of its sizes and times.
LEMMA OwnStep ==
    ASSUME TypeOK, NEW c \in Clients, OwnAt(c), StepOf(c)
    PROVE  OwnAt(c)'
  <1>1. ASSUME NEW q \in Requests, NEW pg \in Nat, Receive(c, q, pg)
        PROVE  OwnAt(c)'
    <2>1. \/ ParseOK(q) /\ phase'[c] = "parsed"
          \/ phase'[c] = "answered"
      BY <1>1, ReceiveAt, Zenon
    <2>2. more'[c] = FALSE
      BY <1>1, ReceiveAt, Zenon
    <2>3. query'[c] = q /\ from'[c] = q.start /\ to'[c] = q.end
      BY <1>1 DEF Receive, TypeOK, RequestTypeOK
    <2>4. ParseOK(q) => size'[c] = q.pageSize
      BY <1>1 DEF Receive, TypeOK, RequestTypeOK
    <2>5. QED
      BY <2>1, <2>2, <2>3, <2>4 DEF OwnAt
  <1>2. CASE NextPage(c)
    <2>1. query[c] \in Requests /\ page[c] + 1 \in Nat
      BY DEF TypeOK, RequestTypeOK
    <2>2. QED
      BY <1>1, <1>2, <2>1 DEF NextPage
  <1>3. ASSUME NEW q \in Requests, Ask(c, q)
        PROVE  OwnAt(c)'
    BY <1>1, <1>3 DEF Ask
  <1>4. CASE Prepare(c)
    <2>1. /\ phase[c] = "parsed" /\ phase'[c] = "prepared"
          /\ query' = query /\ more' = more
          /\ size'[c] = IF size[c] = 0 THEN DefaultPageSize ELSE size[c]
          /\ ~(from[c] = {} /\ to[c] = {}) =>
               from'[c] = from[c] /\ to'[c] = to[c]
      BY <1>4 DEF Prepare, TypeOK, RequestTypeOK
    <2>2. QED
      BY <2>1 DEF OwnAt, PageRows, Pinned
  <1>5. CASE Count(c) \/ Fetch(c)
    <2>1. /\ phase[c] \in {"prepared", "counted"}
          /\ phase'[c] \in {"counted", "fetched"}
          /\ UNCHANGED <<query, size, from, to, more>>
      BY <1>5 DEF Count, Fetch, TypeOK, RequestTypeOK
    <2>2. QED
      BY <2>1 DEF OwnAt
  <1>6. CASE Refuse(c) \/ \E code \in DbCodes : DbError(c, code)
    <2>1. phase'[c] = "answered"
      BY <1>6 DEF Refuse, DbError, Fail, TypeOK, RequestTypeOK
    <2>2. more'[c] = FALSE
      BY <1>6, Zenon DEF Refuse, DbError, Fail, TypeOK, RequestTypeOK
    <2>3. QED
      BY <2>1, <2>2 DEF OwnAt
  <1>7. CASE Respond(c)
    <2>1. /\ phase[c] = "fetched" /\ phase'[c] = "answered"
          /\ query' = query /\ size' = size
      BY <1>7 DEF Respond, TypeOK, RequestTypeOK
    <2>2. QED
      BY <2>1 DEF OwnAt
  <1>8. QED
    BY <1>2, <1>3, <1>4, <1>5, <1>6, <1>7 DEF StepOf, Serve

\* Every request keeps its sizes and times.
LEMMA OwnAlways == Spec => []Own
  <1>1. Init => Own
    BY DEF Init, Own, OwnAt
  <1>2. ASSUME TypeOK, Own, [Next]_vars
        PROVE  Own'
    <2> SUFFICES ASSUME NEW c \in Clients
                 PROVE  OwnAt(c)'
      BY DEF Own
    <2>1. OwnAt(c)
      BY <1>2 DEF Own
    <2>2. CASE Same(c)
      BY <2>1, <2>2 DEF OwnAt, Same
    <2>3. CASE StepOf(c)
      BY <1>2, <2>1, <2>3, OwnStep
    <2>4. QED
      BY <1>2, <2>2, <2>3, StepFrame
  <1>3. QED
    BY <1>1, <1>2, QueryTypeCorrect, PTL DEF Spec

\* A step leaves a walk and the table as they are, or it is a step of the
\* walk, or one that writes or removes a row.
LEMMA WalkFrame ==
    ASSUME TypeOK, [Next]_vars, NEW d \in Clients
    PROVE  \/ Same(d) /\ SameWalk(d) /\ store' = store
           \/ StepOf(d)
           \/ \E r \in Rows : Ingest(r) \/ Expire(r)
  <1> USE DEF SameWalk
  <1>1. CASE UNCHANGED vars \/ Tick
    BY <1>1, QuietFrame DEF vars, Tick, walkVars, storeVars
  <1>2. ASSUME NEW n \in 0 .. MaxPageSize, RecordStat(n)
        PROVE  Same(d) /\ SameWalk(d) /\ store' = store
    BY <1>2, QuietFrame DEF RecordStat, walkVars, storeVars
  <1>3. ASSUME NEW c \in Clients \ {d}, NextPage(c)
        PROVE  Same(d) /\ SameWalk(d) /\ store' = store
    <2>1. /\ UNCHANGED <<storeVars, base, seen, arrived, left>>
          /\ raced' = [raced EXCEPT ![c] = FALSE]
      BY <1>3, Zenon DEF NextPage, Receive
    <2>2. QED
      BY <1>3, <2>1, ReceiveOthers DEF NextPage, storeVars, TypeOK, WalkTypeOK
  <1>4. ASSUME NEW c \in Clients \ {d}, NEW q \in Requests, Ask(c, q)
        PROVE  Same(d) /\ SameWalk(d) /\ store' = store
    <2>1. /\ UNCHANGED storeVars
          /\ base' = [base EXCEPT ![c] = {}]
          /\ seen' = [seen EXCEPT ![c] = <<>>]
          /\ arrived' = [arrived EXCEPT ![c] = FALSE]
          /\ left' = [left EXCEPT ![c] = FALSE]
          /\ raced' = [raced EXCEPT ![c] = FALSE]
      BY <1>4, Zenon DEF Ask, Receive
    <2>2. QED
      BY <1>4, <2>1, ReceiveOthers DEF Ask, storeVars, TypeOK, WalkTypeOK
  <1>5. ASSUME NEW c \in Clients \ {d}, Serve(c)
        PROVE  Same(d) /\ SameWalk(d) /\ store' = store
    <2>1. SameWalk(d) /\ store' = store
      BY <1>5 DEF Serve, Prepare, Refuse, Count, Fetch, DbError, Respond,
                  walkVars, storeVars, TypeOK, WalkTypeOK
    <2>2. QED
      BY <1>5, <2>1, ServeOthers
  <1>6. QED
    BY <1>1, <1>2, <1>3, <1>4, <1>5 DEF Next, StepOf

\* How many rows of the result the walk of client c has turned over: the pages
\* before the one asked for, and that one too once it is answered.
Behind(c) ==
    (IF phase[c] = "answered" THEN page[c] + 1 ELSE page[c]) * PageRows(query[c])

\* A page of a walk is cut out of the rows the client asks for.
LEMMA WalkPage ==
    ASSUME TypeOK, NEW c \in Clients, OwnAt(c), Pinned(query[c]),
           phase[c] \in {"prepared", "counted"}
    PROVE  /\ Chosen(c) = AskedRows(query[c], store)
           /\ Fetch(c) =>
                /\ \E s \in Sorted(Chosen(c), query[c]) :
                       IsPage(rows'[c], s, Chosen(c), page[c], PageRows(query[c]))
                /\ found'[c] = Cardinality(Chosen(c))
  <1>1. Chosen(c) = AskedRows(query[c], store)
    BY DEF OwnAt, Chosen, Selected, AskedRows, Asked
  <1>2. ASSUME Fetch(c)
        PROVE  /\ \E s \in Sorted(Chosen(c), query[c]) :
                      IsPage(rows'[c], s, Chosen(c), page[c], PageRows(query[c]))
               /\ found'[c] = Cardinality(Chosen(c))
    <2>1. /\ Chosen(c) \in SUBSET Rows /\ page[c] \in Nat /\ size[c] \in Nat
          /\ size[c] = PageRows(query[c])
      BY ChosenType DEF TypeOK, RequestTypeOK, OwnAt
    <2>2. PICK s \in Sorted(Chosen(c), query[c]) :
             rows' = [rows EXCEPT ![c] = PageOf(s, Cardinality(Chosen(c)),
                                                page[c], size[c])]
      BY <1>2 DEF Fetch
    <2>3. rows'[c] = PageOf(s, Cardinality(Chosen(c)), page[c], size[c])
      BY <2>2 DEF TypeOK, RequestTypeOK
    <2>4. IsPage(rows'[c], s, Chosen(c), page[c], PageRows(query[c]))
      BY <2>1, <2>3, PageCut
    <2>5. found'[c] = Cardinality(Chosen(c))
      BY <1>2 DEF Fetch, TypeOK, WalkTypeOK
    <2>6. QED
      BY <2>4, <2>5
  <1>3. QED
    BY <1>1, <1>2

\* A row that comes or goes changes no request; one that a walk asks for is
\* noted, and any other moves none of the rows the walk asks for.
LEMMA WalkWorld ==
    ASSUME TypeOK, NEW c \in Clients, NEW r \in Rows, Ingest(r) \/ Expire(r)
    PROVE  /\ Same(c) /\ base'[c] = base[c] /\ seen'[c] = seen[c]
           /\ arrived[c] => arrived'[c]
           /\ left[c] => left'[c]
           /\ raced[c] => raced'[c]
           /\ Walking(c) /\ ~arrived'[c] =>
                AskedRows(query[c], store') \subseteq AskedRows(query[c], store)
           /\ Walking(c) /\ ~left'[c] =>
                AskedRows(query[c], store) \subseteq AskedRows(query[c], store')
           /\ phase[c] = "counted" /\ ~raced'[c] =>
                AskedRows(query[c], store') \subseteq AskedRows(query[c], store)
  <1>1. Same(c) /\ base'[c] = base[c] /\ seen'[c] = seen[c]
    BY QuietFrame DEF Ingest, Expire
  <1>2. CASE Ingest(r)
    <2>1. /\ store' = store \cup {r} /\ left' = left
          /\ arrived'[c] <=> arrived[c] \/ (Walking(c) /\ Asked(query[c], r))
          /\ raced'[c] <=> raced[c] \/ (phase[c] = "counted" /\ Asked(query[c], r))
      BY <1>2, Zenon DEF Ingest, TypeOK, WalkTypeOK
    <2>2. Asked(query[c], r)
            \/ AskedRows(query[c], store') = AskedRows(query[c], store)
      BY <2>1 DEF AskedRows
    <2>3. AskedRows(query[c], store) \subseteq AskedRows(query[c], store')
      BY <2>1 DEF AskedRows
    <2>4. QED
      BY <1>1, <2>1, <2>2, <2>3, Zenon
  <1>3. CASE Expire(r)
    <2>1. /\ store' = store \ {r} /\ arrived' = arrived /\ raced' = raced
          /\ left'[c] <=> left[c] \/ (Walking(c) /\ Asked(query[c], r))
      BY <1>3, Zenon DEF Expire, TypeOK, WalkTypeOK
    <2>2. Asked(query[c], r)
            \/ AskedRows(query[c], store') = AskedRows(query[c], store)
      BY <2>1 DEF AskedRows
    <2>3. AskedRows(query[c], store') \subseteq AskedRows(query[c], store)
      BY <2>1 DEF AskedRows
    <2>4. QED
      BY <1>1, <2>1, <2>2, <2>3, Zenon
  <1>4. QED
    BY <1>2, <1>3

\* A page size is at least one row, and a page ends where the next begins.
LEMMA BehindType ==
    ASSUME TypeOK, NEW c \in Clients
    PROVE  /\ query[c] \in Requests /\ PageRows(query[c]) \in Nat \ {0}
           /\ page[c] \in Nat /\ Behind(c) \in Nat
           /\ (page[c] + 1) * PageRows(query[c])
                = page[c] * PageRows(query[c]) + PageRows(query[c])
  <1>1. query[c] \in Requests /\ page[c] \in Nat
    BY DEF TypeOK, RequestTypeOK
  <1>2. PageRows(query[c]) \in Nat \ {0}
    BY <1>1, RequestsAssumption DEF RequestsAssumption, PageRows
  <1>3. QED
    BY <1>1, <1>2, OffsetType DEF Behind

-----------------------------------------------------------------------------
(* No row twice *)

\* What is known of client c's walk while no row it asks for is written: it
\* has seen no row twice; the rows it has seen are among those turned over,
\* for rows that are removed only move the others forward; and a page holds
\* none of them.
RepeatAt(c) ==
    Pinned(query[c]) /\ TieFree(query[c]) /\ ~arrived[c] =>
        /\ \A i, j \in DOMAIN seen[c] : seen[c][i] = seen[c][j] => i = j
        /\ Walking(c) =>
             \A i \in DOMAIN seen[c] :
                 Rank(query[c], store, seen[c][i]) < Behind(c)
        /\ phase[c] = "fetched" =>
             \A i \in DOMAIN rows[c] :
                 /\ Rank(query[c], store, rows[c][i])
                      < Behind(c) + PageRows(query[c])
                 /\ \A j \in DOMAIN seen[c] : seen[c][j] # rows[c][i]

Unrepeated == \A c \in Clients : RepeatAt(c)

\* What others do, and what comes and goes, repeats no row.
LEMMA RepeatWorld ==
    ASSUME TypeOK, TypeOK', NEW c \in Clients, RepeatAt(c),
           \/ Same(c) /\ SameWalk(c) /\ store' = store
           \/ \E r \in Rows : Ingest(r) \/ Expire(r)
    PROVE  RepeatAt(c)'
  <1>1. CASE Same(c) /\ SameWalk(c) /\ store' = store
    <2>1. Walking(c)' <=> Walking(c)
      BY <1>1 DEF Walking, Same
    <2>2. Behind(c)' = Behind(c)
      BY <1>1 DEF Behind, Same
    <2>3. QED
      BY <1>1, <2>1, <2>2 DEF RepeatAt, Same, SameWalk
  <1>2. ASSUME NEW r \in Rows, Ingest(r) \/ Expire(r)
        PROVE  RepeatAt(c)'
    <2> SUFFICES ASSUME Pinned(query[c]), TypeOK, TieFree(query[c]), ~arrived'[c]
                 PROVE  RepeatAt(c)'
      BY <1>2, WalkWorld DEF RepeatAt, Same
    <2>1. /\ Same(c) /\ seen'[c] = seen[c] /\ ~arrived[c]
          /\ Walking(c) =>
               AskedRows(query[c], store') \subseteq AskedRows(query[c], store)
      BY <1>2, WalkWorld
    <2>2. /\ Walking(c)' <=> Walking(c)
          /\ Behind(c)' = Behind(c)
          /\ phase[c] = "fetched" => Walking(c)
      BY <2>1 DEF Walking, Behind, Same
    <2>3. ASSUME Walking(c), NEW x
          PROVE  /\ Rank(query[c], store, x) \in Nat
                 /\ Rank(query[c], store', x) \in Nat
                 /\ Rank(query[c], store', x) <= Rank(query[c], store, x)
      <3>1. store \in SUBSET Rows /\ store' \in SUBSET Rows
        BY DEF TypeOK, StoreTypeOK
      <3>2. QED
        BY <2>1, <2>3, <3>1, RankGrows
    <2>4. Behind(c) \in Nat /\ PageRows(query[c]) \in Nat
      BY BehindType
    <2>5. QED
      BY <2>1, <2>2, <2>3, <2>4 DEF RepeatAt, Same
  <1>3. QED
    BY <1>1, <1>2

\* A client that asks for something else starts a new walk.
LEMMA AskAnew ==
    ASSUME TypeOK, NEW c \in Clients, NEW q \in Requests, Ask(c, q)
    PROVE  base'[c] = {} /\ seen'[c] = <<>>
  BY DEF Ask, TypeOK, WalkTypeOK

\* A client that asks for the next page goes on with its walk.
LEMMA NextPageKeeps ==
    ASSUME TypeOK, NEW c \in Clients, NextPage(c)
    PROVE  /\ store' = store /\ query'[c] = query[c] /\ page'[c] = page[c] + 1
           /\ phase[c] = "answered" /\ more[c] /\ more'[c] = FALSE
           /\ base' = base /\ seen' = seen /\ arrived' = arrived /\ left' = left
           /\ phase'[c] \in {"parsed", "answered"}
  <1>1. query[c] \in Requests /\ page[c] + 1 \in Nat
    BY DEF TypeOK, RequestTypeOK
  <1>2. /\ store' = store /\ base' = base /\ seen' = seen
        /\ arrived' = arrived /\ left' = left
        /\ phase[c] = "answered" /\ more[c]
        /\ Receive(c, query[c], page[c] + 1)
    BY DEF NextPage, storeVars
  <1>3. query'[c] = query[c] /\ page'[c] = page[c] + 1
    BY <1>2 DEF Receive, TypeOK, RequestTypeOK
  <1>4. more'[c] = FALSE /\ phase'[c] \in {"parsed", "answered"}
    BY <1>1, <1>2, ReceiveAt, Zenon
  <1>5. QED
    BY <1>2, <1>3, <1>4

\* What the arrival of a request leaves of a walk: everything for its next
\* page, nothing for a new one.
LEMMA WalkReceive ==
    ASSUME TypeOK, NEW c \in Clients,
           NextPage(c) \/ \E q \in Requests : Ask(c, q)
    PROVE  /\ store' = store /\ rows'[c] = <<>> /\ more'[c] = FALSE
           /\ \/ phase'[c] = "parsed"
              \/ phase'[c] = "answered" /\ status'[c] = 400
           /\ \/ /\ NextPage(c) /\ phase[c] = "answered" /\ more[c]
                 /\ query'[c] = query[c] /\ page'[c] = page[c] + 1
                 /\ base'[c] = base[c] /\ seen'[c] = seen[c]
                 /\ arrived'[c] = arrived[c] /\ left'[c] = left[c]
              \/ page'[c] = 0 /\ base'[c] = {} /\ seen'[c] = <<>>
  <1>1. ASSUME NEW q \in Requests, NEW pg \in Nat, Receive(c, q, pg)
        PROVE  /\ rows'[c] = <<>> /\ more'[c] = FALSE
               /\ query'[c] = q /\ page'[c] = pg
               /\ \/ phase'[c] = "parsed"
                  \/ phase'[c] = "answered" /\ status'[c] = 400
    <2>1. rows'[c] = <<>> /\ more'[c] = FALSE
      BY <1>1, ReceiveAt, Zenon
    <2>2. query'[c] = q /\ page'[c] = pg
      BY <1>1 DEF Receive, TypeOK, RequestTypeOK
    <2>3. \/ phase'[c] = "parsed"
          \/ phase'[c] = "answered" /\ status'[c] = 400
      BY <1>1, ReceiveAt, Zenon
    <2>4. QED
      BY <2>1, <2>2, <2>3
  <1>2. CASE NextPage(c)
    <2>1. query[c] \in Requests /\ page[c] + 1 \in Nat
      BY DEF TypeOK, RequestTypeOK
    <2>2. /\ store' = store /\ base' = base /\ seen' = seen
          /\ arrived' = arrived /\ left' = left
          /\ phase[c] = "answered" /\ more[c]
          /\ Receive(c, query[c], page[c] + 1)
      BY <1>2 DEF NextPage, storeVars
    <2>3. QED
      BY <1>1, <1>2, <2>1, <2>2, Zenon
  <1>3. ASSUME NEW q \in Requests, Ask(c, q)
        PROVE  /\ store' = store /\ rows'[c] = <<>> /\ more'[c] = FALSE
               /\ \/ phase'[c] = "parsed"
                  \/ phase'[c] = "answered" /\ status'[c] = 400
               /\ page'[c] = 0 /\ base'[c] = {} /\ seen'[c] = <<>>
    <2>1. /\ Receive(c, q, 0) /\ store' = store
          /\ base'[c] = {} /\ seen'[c] = <<>>
      BY <1>3 DEF Ask, storeVars, TypeOK, WalkTypeOK
    <2>2. 0 \in Nat
      OBVIOUS
    <2>3. QED
      BY <1>1, <2>1, <2>2, Zenon
  <1>4. QED
    BY <1>2, <1>3

\* What the server's steps leave of a walk.
LEMMA WalkServe ==
    ASSUME TypeOK, NEW c \in Clients, Serve(c)
    PROVE  /\ store' = store /\ query'[c] = query[c] /\ page'[c] = page[c]
           /\ arrived'[c] = arrived[c] /\ left'[c] = left[c]
           /\ raced'[c] = raced[c]
           /\ ~Count(c) => base'[c] = base[c]
           /\ ~Respond(c) => seen'[c] = seen[c]
  BY DEF Serve, Prepare, Refuse, Count, Fetch, DbError, Fail, Respond, walkVars,
         storeVars, TypeOK, RequestTypeOK, WalkTypeOK

\* An error answer ends a walk.
LEMMA WalkFails ==
    ASSUME TypeOK, NEW c \in Clients,
           Refuse(c) \/ \E code \in DbCodes : DbError(c, code)
    PROVE  phase'[c] = "answered" /\ more'[c] = FALSE /\ status'[c] # 200
  <1>1. phase'[c] = "answered"
    BY DEF Refuse, DbError, Fail, TypeOK, RequestTypeOK
  <1>2. more'[c] = FALSE
    BY Zenon DEF Refuse, DbError, Fail, TypeOK, RequestTypeOK
  <1>3. status'[c] # 200
    BY DEF Refuse, DbError, DbCodes, Fail, TypeOK, RequestTypeOK
  <1>4. QED
    BY <1>1, <1>2, <1>3

\* A page holds no row the walk has turned over.
LEMMA RepeatFetch ==
    ASSUME TypeOK, NEW c \in Clients, OwnAt(c), RepeatAt(c), Fetch(c)
    PROVE  RepeatAt(c)'
  <1>1. /\ store' = store /\ query'[c] = query[c] /\ page'[c] = page[c]
        /\ arrived'[c] = arrived[c] /\ seen'[c] = seen[c]
    BY WalkServe DEF Serve, Fetch, Count, Respond
  <1>2. phase[c] = "counted" /\ phase'[c] = "fetched"
    BY DEF Fetch, TypeOK, RequestTypeOK
  <1>3. Walking(c) /\ Behind(c)' = Behind(c)
    BY <1>1, <1>2 DEF Walking, Behind
  <1> SUFFICES ASSUME Pinned(query[c]), TieFree(query[c]), ~arrived[c]
               PROVE  RepeatAt(c)'
    BY <1>1 DEF RepeatAt
  <1> DEFINE q == query[c]
             sz == PageRows(query[c])
  <1>4. q \in Requests /\ sz \in Nat \ {0} /\ page[c] \in Nat
    BY BehindType
  <1>5. store \in SUBSET Rows
    BY DEF TypeOK, StoreTypeOK
  <1>6. Behind(c) = page[c] * sz /\ (page[c] + 1) * sz = Behind(c) + sz
    BY <1>2, BehindType DEF Behind
  <1>7. PICK s \in Sorted(AskedRows(q, store), q) :
           IsPage(rows'[c], s, AskedRows(q, store), page[c], sz)
    BY <1>2, WalkPage
  <1> HIDE DEF q, sz
  <1>8. \A i \in DOMAIN rows'[c] :
            /\ page[c] * sz <= Rank(q, store, rows'[c][i])
            /\ Rank(q, store, rows'[c][i]) < (page[c] + 1) * sz
    BY <1>4, <1>5, <1>7, PagePlaces DEF q
  <1>9. \A i \in DOMAIN seen[c] : Rank(q, store, seen[c][i]) < Behind(c)
    BY <1>3 DEF RepeatAt, q
  <1>10. ASSUME NEW i \in DOMAIN rows'[c], NEW j \in DOMAIN seen[c]
         PROVE  seen[c][j] # rows'[c][i]
    <2>1. Rank(q, store, rows'[c][i]) \in Nat /\ Behind(c) \in Nat
      BY <1>5, RankGrows, BehindType
    <2>2. Rank(q, store, seen[c][j]) < Rank(q, store, rows'[c][i])
                \/ seen[c][j] # rows'[c][i]
      BY <1>6, <1>8, <1>9, <2>1
    <2>3. QED
      BY <2>1, <2>2
  <1>11. QED
    BY <1>1, <1>2, <1>3, <1>6, <1>8, <1>9, <1>10 DEF RepeatAt, q, sz

\* The page joins what was seen.
LEMMA RepeatRespond ==
    ASSUME TypeOK, NEW c \in Clients, ScopedAt(c), RepeatAt(c), Respond(c)
    PROVE  RepeatAt(c)'
  <1>1. /\ store' = store /\ query'[c] = query[c] /\ page'[c] = page[c]
        /\ arrived'[c] = arrived[c]
    BY WalkServe DEF Serve
  <1>2. /\ phase[c] = "fetched" /\ phase'[c] = "answered"
        /\ seen'[c] = seen[c] \o rows[c]
    BY DEF Respond, TypeOK, RequestTypeOK, WalkTypeOK
  <1>3. Walking(c)
    BY <1>2 DEF Walking
  <1> SUFFICES ASSUME Pinned(query[c]), TieFree(query[c]), ~arrived[c]
               PROVE  RepeatAt(c)'
    BY <1>1 DEF RepeatAt
  <1> DEFINE rank(r) == Rank(query[c], store, r)
             a == seen[c]
             b == rows[c]
             sz == PageRows(query[c])
  <1>4. a \in Seq(Rows) /\ b \in Seq(Rows) /\ store \in SUBSET Rows
    BY DEF TypeOK, StoreTypeOK, RequestTypeOK, WalkTypeOK
  <1>5. Behind(c) \in Nat /\ sz \in Nat \ {0} /\ Behind(c)' = Behind(c) + sz
    BY <1>1, <1>2, BehindType DEF Behind
  <1>6. /\ \A i, j \in DOMAIN a : a[i] = a[j] => i = j
        /\ \A i \in DOMAIN a : rank(a[i]) < Behind(c)
        /\ \A i \in DOMAIN b : /\ rank(b[i]) < Behind(c) + sz
                               /\ \A j \in DOMAIN a : a[j] # b[i]
    BY <1>2, <1>3 DEF RepeatAt
  <1>7. \A i, j \in DOMAIN b : b[i] = b[j] => i = j
    BY DEF ScopedAt
  <1>8. \A r : rank(r) \in Nat
    BY <1>4, RankGrows
  <1> HIDE DEF rank, a, b, sz
  <1>9. /\ DOMAIN (a \o b) = 1 .. Len(a) + Len(b)
        /\ \A i \in DOMAIN (a \o b) :
             \/ i \in DOMAIN a /\ (a \o b)[i] = a[i]
             \/ /\ i > Len(a) /\ i - Len(a) \in DOMAIN b
                /\ (a \o b)[i] = b[i - Len(a)]
    BY <1>4
  <1>10. ASSUME NEW i \in DOMAIN (a \o b), NEW j \in DOMAIN (a \o b),
                (a \o b)[i] = (a \o b)[j]
         PROVE  i = j
    <2>1. i \in Int /\ j \in Int /\ Len(a) \in Nat
      BY <1>4, <1>9
    <2>2. CASE i \in DOMAIN a /\ j \in DOMAIN a
      BY <1>4, <1>6, <1>9, <1>10, <2>1, <2>2
    <2>3. CASE i \notin DOMAIN a /\ j \notin DOMAIN a
      <3>1. i - Len(a) = j - Len(a)
        BY <1>7, <1>9, <1>10, <2>3
      <3>2. QED
        BY <2>1, <3>1
    <2>4. CASE i \in DOMAIN a /\ j \notin DOMAIN a
      BY <1>4, <1>6, <1>9, <1>10, <2>4
    <2>5. CASE i \notin DOMAIN a /\ j \in DOMAIN a
      BY <1>4, <1>6, <1>9, <1>10, <2>5
    <2>6. QED
      BY <2>2, <2>3, <2>4, <2>5
  <1>11. \A i \in DOMAIN (a \o b) : rank((a \o b)[i]) < Behind(c) + sz
    BY <1>5, <1>6, <1>8, <1>9
  <1>12. QED
    BY <1>1, <1>2, <1>5, <1>10, <1>11 DEF RepeatAt, rank, a, b, sz

\* A step of the request repeats no row.
LEMMA RepeatStep ==
    ASSUME TypeOK, NEW c \in Clients, OwnAt(c), ScopedAt(c), RepeatAt(c),
           StepOf(c)
    PROVE  RepeatAt(c)'
  <1>1. CASE NextPage(c) \/ \E q \in Requests : Ask(c, q)
    <2>1. CASE seen'[c] = <<>>
      <3>1. DOMAIN seen'[c] = {}
        BY <2>1
      <3>2. phase'[c] # "fetched"
        BY <1>1, WalkReceive
      <3>3. QED
        BY <3>1, <3>2 DEF RepeatAt
    <2>2. CASE seen'[c] # <<>>
      <3>0. NextPage(c)
        BY <1>1, <2>2, AskAnew
      <3>1. /\ store' = store /\ query'[c] = query[c] /\ page'[c] = page[c] + 1
            /\ phase[c] = "answered" /\ more[c] /\ more'[c] = FALSE
            /\ seen'[c] = seen[c] /\ arrived'[c] = arrived[c]
            /\ phase'[c] \in {"parsed", "answered"}
        BY <3>0, NextPageKeeps
      <3>2. Walking(c) /\ (Walking(c)' => phase'[c] = "parsed")
        BY <3>1 DEF Walking
      <3>3. phase'[c] = "parsed" => Behind(c)' = Behind(c)
        BY <3>1 DEF Behind
      <3>4. QED
        BY <3>1, <3>2, <3>3 DEF RepeatAt
    <2>3. QED
      BY <2>1, <2>2
  <1>2. CASE Prepare(c) \/ Count(c)
    <2>1. /\ store' = store /\ query'[c] = query[c] /\ page'[c] = page[c]
          /\ arrived'[c] = arrived[c] /\ seen'[c] = seen[c]
      BY <1>2, WalkServe DEF Serve, Prepare, Count, Respond
    <2>2. /\ phase[c] \in {"parsed", "prepared"}
          /\ phase'[c] \in {"prepared", "counted"}
      BY <1>2 DEF Prepare, Count, TypeOK, RequestTypeOK
    <2>3. Walking(c) /\ Behind(c)' = Behind(c)
      BY <2>1, <2>2 DEF Walking, Behind
    <2>4. QED
      BY <2>1, <2>2, <2>3 DEF RepeatAt
  <1>3. CASE Refuse(c) \/ \E code \in DbCodes : DbError(c, code)
    <2>1. /\ query'[c] = query[c]
          /\ arrived'[c] = arrived[c] /\ seen'[c] = seen[c]
      BY <1>3, WalkServe DEF Serve, Refuse, DbError, Respond
    <2>2. phase'[c] = "answered" /\ ~Walking(c)'
      BY <1>3, WalkFails DEF Walking
    <2>3. QED
      BY <2>1, <2>2 DEF RepeatAt
  <1>4. QED
    BY <1>1, <1>2, <1>3, RepeatFetch, RepeatRespond DEF StepOf, Serve

\* A row list without repetition is as long as its rows are many.
LEMMA OnceCount ==
    ASSUME NEW s \in Seq(Rows), \A i, j \in DOMAIN s : s[i] = s[j] => i = j
    PROVE  Cardinality({s[i] : i \in DOMAIN s}) = Len(s)
  <1> DEFINE T == {s[i] : i \in DOMAIN s}
             n == Len(s)
             f == [i \in 1 .. n |-> s[i]]
  <1>1. n \in Nat /\ DOMAIN s = 1 .. n
    OBVIOUS
  <1>2. f \in [1 .. n -> T] /\ \A x \in T : \E i \in 1 .. n : f[i] = x
    BY <1>1
  <1>3. \A i, j \in 1 .. n : f[i] = f[j] => i = j
    BY <1>1
  <1> HIDE DEF T, n, f
  <1>4. f \in Bijection(1 .. n, T)
    BY <1>2, <1>3 DEF Bijection, Injection, IsInjective, Surjection
  <1>5. ExistsBijection(1 .. n, T)
    BY <1>4 DEF ExistsBijection
  <1>6. QED
    BY <1>1, <1>5, FS_CountingElements DEF T, n

\* A client never reads a row twice, for any rows, requests and page sizes and
\* whatever the TTL removes, unless a row it asks for is written in the
\* meantime: WalkRepeatsNothing.
THEOREM NoRowTwice == Spec => []WalkRepeatsNothing
  <1>1. Init => Unrepeated
    BY DEF Init, Unrepeated, RepeatAt
  <1>2. ASSUME TypeOK, TypeOK', Own, Scoped, Unrepeated, [Next]_vars
        PROVE  Unrepeated'
    <2> SUFFICES ASSUME NEW c \in Clients
                 PROVE  RepeatAt(c)'
      BY DEF Unrepeated
    <2>1. OwnAt(c) /\ ScopedAt(c) /\ RepeatAt(c)
      BY <1>2 DEF Own, Scoped, Unrepeated
    <2>2. CASE StepOf(c)
      BY <1>2, <2>1, <2>2, RepeatStep
    <2>3. CASE \/ Same(c) /\ SameWalk(c) /\ store' = store
               \/ \E r \in Rows : Ingest(r) \/ Expire(r)
      BY <1>2, <2>1, <2>3, RepeatWorld
    <2>4. QED
      BY <1>2, <2>2, <2>3, WalkFrame
  <1>3. TypeOK /\ Unrepeated => WalkRepeatsNothing
    <2> SUFFICES ASSUME TypeOK, Unrepeated, NEW c \in Clients, Pinned(query[c]),
                        TieFree(query[c]), ~arrived[c]
                 PROVE  Cardinality(SeenRows(c)) = Len(seen[c])
      BY DEF WalkRepeatsNothing
    <2>1. \A i, j \in DOMAIN seen[c] : seen[c][i] = seen[c][j] => i = j
      BY DEF Unrepeated, RepeatAt
    <2>2. seen[c] \in Seq(Rows)
      BY DEF TypeOK, WalkTypeOK
    <2>3. QED
      BY <2>1, <2>2, OnceCount DEF SeenRows
  <1>4. QED
    BY <1>1, <1>2, <1>3, QueryTypeCorrect, OwnAlways, ScopedAlways, PTL DEF Spec

-----------------------------------------------------------------------------
(* No row missed *)

\* What is known of client c's walk while no row it asks for is removed: the
\* rows of its first count are still there, and those it has not seen are not
\* among the ones turned over, for rows that are written only move the others
\* behind.  When none came in between a count and its page, the count is that
\* of the page, so that a page with a row behind it is not the last.
MissAt(c) ==
    Pinned(query[c]) /\ TieFree(query[c]) /\ ~left[c] =>
        /\ Walking(c) =>
             /\ base[c] \subseteq AskedRows(query[c], store)
             /\ \A r \in base[c] \ SeenRows(c) :
                    Behind(c) <= Rank(query[c], store, r)
        /\ phase[c] = "counted" /\ ~raced[c] =>
             total[c] = Cardinality(AskedRows(query[c], store))
        /\ phase[c] = "fetched" =>
             /\ ~raced[c] => total[c] = found[c]
             /\ \A r \in base[c] \ SeenRows(c) :
                    \/ \E i \in DOMAIN rows[c] : rows[c][i] = r
                    \/ /\ Behind(c) + PageRows(query[c])
                            <= Rank(query[c], store, r)
                       /\ Behind(c) + PageRows(query[c]) < found[c]
        /\ phase[c] = "answered" /\ status[c] = 200 /\ ~more[c] /\ ~raced[c] =>
             base[c] \subseteq SeenRows(c)

Unmissed == \A c \in Clients : MissAt(c)

\* What others do, and what comes and goes, makes no walk miss a row.
LEMMA MissWorld ==
    ASSUME TypeOK, TypeOK', NEW c \in Clients, MissAt(c),
           \/ Same(c) /\ SameWalk(c) /\ store' = store
           \/ \E r \in Rows : Ingest(r) \/ Expire(r)
    PROVE  MissAt(c)'
  <1>1. CASE Same(c) /\ SameWalk(c) /\ store' = store
    <2>1. Walking(c)' <=> Walking(c)
      BY <1>1 DEF Walking, Same
    <2>2. Behind(c)' = Behind(c) /\ SeenRows(c)' = SeenRows(c)
      BY <1>1 DEF Behind, SeenRows, Same, SameWalk
    <2>3. QED
      BY <1>1, <2>1, <2>2 DEF MissAt, Same, SameWalk
  <1>2. ASSUME NEW r \in Rows, Ingest(r) \/ Expire(r)
        PROVE  MissAt(c)'
    <2> SUFFICES ASSUME Pinned(query[c]), TieFree(query[c]), ~left'[c]
                 PROVE  MissAt(c)'
      BY <1>2, WalkWorld DEF MissAt, Same
    <2> DEFINE now == AskedRows(query[c], store)
               then == AskedRows(query[c], store')
    <2>1. /\ Same(c) /\ base'[c] = base[c] /\ seen'[c] = seen[c] /\ ~left[c]
          /\ raced[c] => raced'[c]
          /\ Walking(c) => now \subseteq then
          /\ phase[c] = "counted" /\ ~raced'[c] => then \subseteq now
      BY <1>2, WalkWorld
    <2>2. /\ Walking(c)' <=> Walking(c)
          /\ Behind(c)' = Behind(c) /\ SeenRows(c)' = SeenRows(c)
          /\ phase[c] \in {"counted", "fetched"} => Walking(c)
      BY <2>1 DEF Walking, Behind, SeenRows, Same
    <2>3. ASSUME Walking(c), NEW x
          PROVE  /\ Rank(query[c], store, x) \in Nat
                 /\ Rank(query[c], store', x) \in Nat
                 /\ Rank(query[c], store, x) <= Rank(query[c], store', x)
      <3>1. store \in SUBSET Rows /\ store' \in SUBSET Rows
        BY DEF TypeOK, StoreTypeOK
      <3>2. QED
        BY <2>1, <2>3, <3>1, RankGrows
    <2>4. Behind(c) \in Nat /\ PageRows(query[c]) \in Nat
      BY BehindType
    <2>5. phase[c] = "counted" /\ ~raced'[c] => then = now
      BY <2>1, <2>2
    <2> HIDE DEF now, then
    <2>6. Walking(c)' =>
             /\ base'[c] \subseteq then
             /\ \A x \in base'[c] \ SeenRows(c)' :
                    Behind(c)' <= Rank(query[c], store', x)
      BY <2>1, <2>2, <2>3, <2>4 DEF MissAt, now
    <2>7. phase'[c] = "counted" /\ ~raced'[c] => total'[c] = Cardinality(then)
      BY <2>1, <2>5 DEF MissAt, Same, now
    <2>8. phase'[c] = "fetched" =>
             /\ ~raced'[c] => total'[c] = found'[c]
             /\ \A x \in base'[c] \ SeenRows(c)' :
                    \/ \E i \in DOMAIN rows'[c] : rows'[c][i] = x
                    \/ /\ Behind(c)' + PageRows(query'[c])
                            <= Rank(query'[c], store', x)
                       /\ Behind(c)' + PageRows(query'[c]) < found'[c]
      BY <2>1, <2>2, <2>3, <2>4 DEF MissAt, Same
    <2>9. /\ phase'[c] = "answered" /\ status'[c] = 200
          /\ ~more'[c] /\ ~raced'[c]
          => base'[c] \subseteq SeenRows(c)'
      BY <2>1, <2>2 DEF MissAt, Same
    <2>10. QED
      BY <2>1, <2>6, <2>7, <2>8, <2>9 DEF MissAt, Same, now, then
  <1>3. QED
    BY <1>1, <1>2

\* The first count of a walk finds the rows it is to read; a later one leaves
\* them as they are.
LEMMA MissCount ==
    ASSUME TypeOK, NEW c \in Clients, OwnAt(c), MissAt(c), Count(c)
    PROVE  MissAt(c)'
  <1>1. /\ store' = store /\ query'[c] = query[c] /\ page'[c] = page[c]
        /\ left'[c] = left[c] /\ raced'[c] = raced[c] /\ seen'[c] = seen[c]
    BY WalkServe DEF Serve, Count, Respond
  <1>2. /\ phase[c] = "prepared" /\ phase'[c] = "counted"
        /\ total'[c] = Cardinality(Chosen(c))
        /\ base'[c] = IF page[c] = 0 THEN Chosen(c) ELSE base[c]
    BY DEF Count, TypeOK, RequestTypeOK, WalkTypeOK
  <1>3. Walking(c) /\ Behind(c)' = Behind(c) /\ SeenRows(c)' = SeenRows(c)
    BY <1>1, <1>2 DEF Walking, Behind, SeenRows
  <1> SUFFICES ASSUME Pinned(query[c]), TieFree(query[c]), ~left[c]
               PROVE  MissAt(c)'
    BY <1>1 DEF MissAt
  <1>4. Chosen(c) = AskedRows(query[c], store)
    BY <1>2, WalkPage
  <1>5. /\ base'[c] \subseteq AskedRows(query[c], store)
        /\ \A r \in base'[c] \ SeenRows(c) :
               Behind(c) <= Rank(query[c], store, r)
    <2>1. CASE page[c] = 0
      <3>1. Behind(c) = 0
        BY <1>2, <2>1, BehindType DEF Behind
      <3>2. \A r : Rank(query[c], store, r) \in Nat
        BY RankGrows DEF TypeOK, StoreTypeOK
      <3>3. QED
        BY <1>2, <1>4, <2>1, <3>1, <3>2
    <2>2. CASE page[c] # 0
      BY <1>2, <1>3, <2>2 DEF MissAt
    <2>3. QED
      BY <2>1, <2>2
  <1>6. QED
    BY <1>1, <1>2, <1>3, <1>4, <1>5 DEF MissAt

\* A row of the first count that was not seen is on the page, or behind it;
\* and then the page is full and the count larger than its end.
LEMMA MissFetch ==
    ASSUME TypeOK, NEW c \in Clients, OwnAt(c), MissAt(c), Fetch(c)
    PROVE  MissAt(c)'
  <1>1. /\ store' = store /\ query'[c] = query[c] /\ page'[c] = page[c]
        /\ left'[c] = left[c] /\ raced'[c] = raced[c] /\ seen'[c] = seen[c]
        /\ base'[c] = base[c]
    BY WalkServe DEF Serve, Fetch, Count, Respond
  <1>2. /\ phase[c] = "counted" /\ phase'[c] = "fetched"
        /\ total'[c] = total[c]
    BY DEF Fetch, TypeOK, RequestTypeOK
  <1>3. Walking(c) /\ Behind(c)' = Behind(c) /\ SeenRows(c)' = SeenRows(c)
    BY <1>1, <1>2 DEF Walking, Behind, SeenRows
  <1> SUFFICES ASSUME Pinned(query[c]), TieFree(query[c]), ~left[c]
               PROVE  MissAt(c)'
    BY <1>1 DEF MissAt
  <1> DEFINE q == query[c]
             sz == PageRows(query[c])
             asked == AskedRows(query[c], store)
  <1>4. q \in Requests /\ sz \in Nat \ {0} /\ page[c] \in Nat
    BY BehindType
  <1>5. store \in SUBSET Rows
    BY DEF TypeOK, StoreTypeOK
  <1>6. Behind(c) = page[c] * sz /\ (page[c] + 1) * sz = Behind(c) + sz
    BY <1>2, BehindType DEF Behind
  <1>7. found'[c] = Cardinality(asked)
    BY <1>2, WalkPage
  <1>8. PICK s \in Sorted(asked, q) : IsPage(rows'[c], s, asked, page[c], sz)
    BY <1>2, WalkPage
  <1>9. /\ base[c] \subseteq asked
        /\ \A r \in base[c] \ SeenRows(c) : Behind(c) <= Rank(q, store, r)
        /\ ~raced[c] => total[c] = Cardinality(asked)
    BY <1>2, <1>3 DEF MissAt
  <1>10. \A r \in asked :
             \/ Rank(q, store, r) < page[c] * sz
             \/ \E i \in DOMAIN rows'[c] : rows'[c][i] = r
             \/ /\ (page[c] + 1) * sz <= Rank(q, store, r)
                /\ (page[c] + 1) * sz < Cardinality(asked)
    <2> HIDE DEF sz
    <2>1. sz \in Nat
      BY <1>4
    <2>2. QED
      BY <1>4, <1>5, <1>8, <2>1, PagePlaces
  <1> HIDE DEF q, sz, asked
  <1>11. ASSUME NEW r \in base[c] \ SeenRows(c)
         PROVE  \/ \E i \in DOMAIN rows'[c] : rows'[c][i] = r
                \/ /\ Behind(c) + sz <= Rank(q, store, r)
                   /\ Behind(c) + sz < found'[c]
    <2>1. Rank(q, store, r) \in Nat /\ Behind(c) \in Nat
      BY <1>5, RankGrows, BehindType
    <2>2. r \in asked /\ ~(Rank(q, store, r) < page[c] * sz)
      BY <1>6, <1>9, <2>1
    <2>3. QED
      BY <1>6, <1>7, <1>10, <2>2
  <1>12. QED
    BY <1>1, <1>2, <1>3, <1>7, <1>9, <1>11 DEF MissAt, q, sz, asked

\* The rows of two lists, one after the other.
LEMMA RowsOfBoth ==
    ASSUME NEW a \in Seq(Rows), NEW b \in Seq(Rows)
    PROVE  {(a \o b)[i] : i \in DOMAIN (a \o b)}
             = {a[i] : i \in DOMAIN a} \cup {b[i] : i \in DOMAIN b}
  <1> DEFINE ab == a \o b
             A == {a[i] : i \in DOMAIN a}
             B == {b[i] : i \in DOMAIN b}
             AB == {ab[i] : i \in DOMAIN ab}
  <1>1. /\ Len(a) \in Nat /\ Len(b) \in Nat
        /\ DOMAIN a = 1 .. Len(a) /\ DOMAIN b = 1 .. Len(b)
        /\ DOMAIN ab = 1 .. Len(a) + Len(b)
    OBVIOUS
  <1>2. \A i \in DOMAIN ab : \/ i \in DOMAIN a /\ ab[i] = a[i]
                             \/ i - Len(a) \in DOMAIN b /\ ab[i] = b[i - Len(a)]
    BY <1>1
  <1>3. \A i \in DOMAIN a : i \in DOMAIN ab /\ ab[i] = a[i]
    BY <1>1
  <1>4. \A i \in DOMAIN b : i + Len(a) \in DOMAIN ab /\ ab[i + Len(a)] = b[i]
    BY <1>1
  <1> HIDE DEF ab
  <1>5. AB \subseteq A \cup B
    BY <1>2, Zenon
  <1>6. A \subseteq AB
    BY <1>3, Zenon
  <1>7. B \subseteq AB
    BY <1>4, Zenon
  <1> HIDE DEF A, B, AB
  <1>8. AB = A \cup B
    BY <1>5, <1>6, <1>7
  <1>9. QED
    BY <1>8 DEF A, B, AB, ab

\* The page joins what was seen; when the answer says that it is the last, no
\* row of the first count is left.
LEMMA MissRespond ==
    ASSUME TypeOK, NEW c \in Clients, OwnAt(c), PageAt(c), MissAt(c), Respond(c)
    PROVE  MissAt(c)'
  <1>1. /\ store' = store /\ query'[c] = query[c] /\ page'[c] = page[c]
        /\ left'[c] = left[c] /\ raced'[c] = raced[c] /\ base'[c] = base[c]
    BY WalkServe DEF Serve, Count, Respond
  <1>2. /\ phase[c] = "fetched" /\ phase'[c] = "answered"
        /\ seen'[c] = seen[c] \o rows[c]
    BY DEF Respond, TypeOK, RequestTypeOK, WalkTypeOK
  <1>3. Walking(c) /\ (Walking(c)' <=> more'[c])
    BY <1>2 DEF Walking
  <1> SUFFICES ASSUME Pinned(query[c]), TieFree(query[c]), ~left[c]
               PROVE  MissAt(c)'
    BY <1>1 DEF MissAt
  <1> DEFINE sz == PageRows(query[c])
             n == Len(rows[c])
  <1>4. sz \in Nat \ {0} /\ page[c] \in Nat /\ size[c] = sz
    BY <1>2, BehindType DEF OwnAt
  <1>5. /\ Behind(c) = page[c] * sz /\ Behind(c) \in Nat
        /\ Behind(c)' = Behind(c) + sz
    BY <1>1, <1>2, BehindType DEF Behind
  <1>6. SeenRows(c)' = SeenRows(c) \cup {rows[c][i] : i \in DOMAIN rows[c]}
    <2>1. seen[c] \in Seq(Rows) /\ rows[c] \in Seq(Rows)
      BY DEF TypeOK, RequestTypeOK, WalkTypeOK
    <2>2. SeenRows(c)' = {(seen[c] \o rows[c])[i] :
                              i \in DOMAIN (seen[c] \o rows[c])}
      BY <1>2 DEF SeenRows
    <2>3. QED
      BY <2>1, <2>2, RowsOfBoth DEF SeenRows
  <1>7. /\ base[c] \subseteq AskedRows(query[c], store)
        /\ \A r \in base[c] \ SeenRows(c)' :
               /\ Behind(c) + sz <= Rank(query[c], store, r)
               /\ Behind(c) + sz < found[c]
        /\ ~raced[c] => total[c] = found[c]
    BY <1>2, <1>3, <1>6 DEF MissAt
  <1>8. more'[c] <=> n = size[c] /\ page[c] * size[c] + n < total[c]
    BY Zenon DEF Respond, TypeOK, RequestTypeOK
  <1>9. n = PageLength(found[c], page[c], size[c])
    BY <1>2 DEF PageAt
  <1> HIDE DEF sz, n
  <1>10. ASSUME ~more'[c], ~raced[c]
         PROVE  base[c] \subseteq SeenRows(c)'
    <2> SUFFICES ASSUME NEW r \in base[c] \ SeenRows(c)'
                 PROVE  FALSE
      OBVIOUS
    <2>1. Behind(c) + sz < found[c] /\ found[c] \in Nat /\ total[c] = found[c]
      BY <1>7, <1>10 DEF TypeOK, WalkTypeOK
    <2>2. PageLength(found[c], page[c], size[c])
            = IF found[c] <= Behind(c) THEN 0
              ELSE IF found[c] - Behind(c) < sz THEN found[c] - Behind(c) ELSE sz
      BY <1>4, <1>5 DEF PageLength
    <2>3. n = sz
      BY <1>4, <1>5, <1>9, <2>1, <2>2
    <2>4. page[c] * size[c] + n < total[c]
      BY <1>4, <1>5, <2>1, <2>3
    <2>5. QED
      BY <1>4, <1>8, <1>10, <2>3, <2>4, Zenon
  <1>11. QED
    BY <1>1, <1>2, <1>3, <1>5, <1>7, <1>10 DEF MissAt, sz

\* A step of the request makes no walk miss a row.
LEMMA MissStep ==
    ASSUME TypeOK, NEW c \in Clients, OwnAt(c), PageAt(c), MissAt(c), StepOf(c)
    PROVE  MissAt(c)'
  <1>1. CASE NextPage(c) \/ \E q \in Requests : Ask(c, q)
    <2>1. /\ store' = store /\ more'[c] = FALSE
          /\ \/ phase'[c] = "parsed"
             \/ phase'[c] = "answered" /\ status'[c] = 400
      BY <1>1, WalkReceive
    <2>2. Walking(c)' => phase'[c] = "parsed"
      BY <2>1 DEF Walking
    <2>3. CASE base'[c] = {}
      BY <2>1, <2>2, <2>3 DEF MissAt
    <2>4. CASE base'[c] # {}
      <3>0. NextPage(c)
        BY <1>1, <2>4, AskAnew
      <3>1. /\ query'[c] = query[c] /\ page'[c] = page[c] + 1
            /\ phase[c] = "answered" /\ more[c]
            /\ base'[c] = base[c] /\ seen'[c] = seen[c] /\ left'[c] = left[c]
        BY <3>0, NextPageKeeps
      <3>2. Walking(c) /\ SeenRows(c)' = SeenRows(c)
        BY <3>1 DEF Walking, SeenRows
      <3>3. phase'[c] = "parsed" => Behind(c)' = Behind(c)
        BY <3>1 DEF Behind
      <3>4. QED
        BY <2>1, <2>2, <3>1, <3>2, <3>3 DEF MissAt
    <2>5. QED
      BY <2>3, <2>4
  <1>2. CASE Prepare(c)
    <2>1. /\ store' = store /\ query'[c] = query[c] /\ page'[c] = page[c]
          /\ left'[c] = left[c] /\ seen'[c] = seen[c] /\ base'[c] = base[c]
      BY <1>2, WalkServe DEF Serve, Prepare, Count, Respond
    <2>2. phase[c] = "parsed" /\ phase'[c] = "prepared"
      BY <1>2 DEF Prepare, TypeOK, RequestTypeOK
    <2>3. Walking(c) /\ Behind(c)' = Behind(c) /\ SeenRows(c)' = SeenRows(c)
      BY <2>1, <2>2 DEF Walking, Behind, SeenRows
    <2>4. QED
      BY <2>1, <2>2, <2>3 DEF MissAt
  <1>3. CASE Refuse(c) \/ \E code \in DbCodes : DbError(c, code)
    <2>1. phase'[c] = "answered" /\ ~Walking(c)' /\ status'[c] # 200
      BY <1>3, WalkFails DEF Walking
    <2>2. QED
      BY <2>1 DEF MissAt
  <1>4. QED
    BY <1>1, <1>2, <1>3, MissCount, MissFetch, MissRespond DEF StepOf, Serve

\* A client that reads to the last page has every row that its first count
\* found, for any rows, requests and page sizes and whatever is written in the
\* meantime, unless the TTL removes a row it asks for or one came in between
\* the count and the page of the last request: WalkMissesNothing.
THEOREM NoRowMissed == Spec => []WalkMissesNothing
  <1>1. Init => Unmissed
    BY DEF Init, Unmissed, MissAt, Walking
  <1>2. ASSUME TypeOK, TypeOK', Own, Paged, Unmissed, [Next]_vars
        PROVE  Unmissed'
    <2> SUFFICES ASSUME NEW c \in Clients
                 PROVE  MissAt(c)'
      BY DEF Unmissed
    <2>1. OwnAt(c) /\ PageAt(c) /\ MissAt(c)
      BY <1>2 DEF Own, Paged, Unmissed
    <2>2. CASE StepOf(c)
      BY <1>2, <2>1, <2>2, MissStep
    <2>3. CASE \/ Same(c) /\ SameWalk(c) /\ store' = store
               \/ \E r \in Rows : Ingest(r) \/ Expire(r)
      BY <1>2, <2>1, <2>3, MissWorld
    <2>4. QED
      BY <1>2, <2>2, <2>3, WalkFrame
  <1>3. Unmissed => WalkMissesNothing
    BY DEF Unmissed, MissAt, WalkMissesNothing
  <1>4. QED
    BY <1>1, <1>2, <1>3, QueryTypeCorrect, OwnAlways, PagedAlways, PTL DEF Spec

=============================================================================
