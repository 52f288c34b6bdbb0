-------------------------- MODULE ConnectionManager --------------------------
(***************************************************************************)
(* ConnectionManager of pkg/repository/clickhouse/connection.go: a pool of *)
(* sql.DB and a native connection, both opened together, that              *)
(* ReconnectIfNeeded closes and replaces when a check of them fails.  It   *)
(* takes no lock: two reconnects, a Close and the queries that were given  *)
(* the pool before may all be under way at once, and every ping, close and *)
(* assignment is a step of its own.                                        *)
(*                                                                         *)
(* A handle stands for one sql.DB and one native connection made by the    *)
(* same NewConnectionManager.  A closed handle that nobody refers to may   *)
(* be used again for a new pair, which keeps the model finite.             *)
(***************************************************************************)
EXTENDS FiniteSets

CONSTANTS
    Reconnecters,   \* goroutines that call ReconnectIfNeeded time and again
    Closers,        \* goroutines that call Close, once each
    Queries,        \* goroutines that query the database
    Handles,        \* bound on the pairs of connections known at a time
    NoHandle        \* no pair yet

ASSUME HandlesAssumption ==
    /\ Handles # {}
    /\ NoHandle \notin Handles
    /\ Reconnecters \cap Closers = {}

VARIABLES
    db,         \* cm.db
    conn,       \* cm.conn
    openDbs,    \* the pools that are not closed
    openConns,  \* the native connections that are not closed
    at,         \* at[c]: how far a ReconnectIfNeeded or a Close got
    made,       \* made[c]: the pair that c has opened and not yet stored
    using,      \* using[q]: the pool that GetDB gave to a query
    serverUp,   \* the database server answers
    over,       \* the callers whose context ended during their check
    alone       \* history: no two calls of c were ever under way at once

fieldVars == <<db, conn>>
openVars  == <<openDbs, openConns>>
vars == <<fieldVars, openVars, at, made, using, serverUp, over, alone>>

Users == Reconnecters \cup Closers

Returned == {"idle", "ok", "failed"}

Stages == Returned \cup {"checkConn", "checkDb", "closeDb", "closeConn", "open",
                         "pingConn", "pingDb", "storeDb", "storeConn"}

\* NewConnectionManager has succeeded once
Init ==
    /\ db \in Handles
    /\ conn = db
    /\ openDbs = {db} /\ openConns = {db}
    /\ at = [c \in Users |-> "idle"]
    /\ made = [c \in Reconnecters |-> NoHandle]
    /\ using = [q \in Queries |-> NoHandle]
    /\ serverUp = TRUE
    /\ over = {}
    /\ alone = TRUE

Go(c, from, to) == at[c] = from /\ at' = [at EXCEPT ![c] = to]

Begin(c, to) ==
    /\ at' = [at EXCEPT ![c] = to]
    /\ alone' = (alone /\ \A d \in Users \ {c} : at[d] \in Returned)
    /\ UNCHANGED <<fieldVars, openVars, made, using, serverUp, over>>

-----------------------------------------------------------------------------
(* HealthCheck and Close, which ReconnectIfNeeded calls. *)

ReconnectIfNeeded(c) ==
    /\ c \in Reconnecters /\ at[c] \in Returned
    /\ Begin(c, "checkConn")

\* a slip: a closed connection passes for one that answers
CheckServer(c) ==
    /\ Go(c, "checkConn", IF serverUp /\ c \notin over THEN "ok" ELSE "closeDb")
    /\ over' = over \ {c}
    /\ UNCHANGED <<fieldVars, openVars, made, using, serverUp, alone>>

\* A ping fails because there is no answer or because the caller of
\* ReconnectIfNeeded has gone; the code does not tell the two apart.  Nothing but
\* the check asks for the context: its end is forgotten with the ping.
CheckConn(c) ==
    /\ Go(c, "checkConn", IF serverUp /\ c \notin over /\ conn \in openConns
                          THEN "checkDb" ELSE "closeDb")
    /\ over' = over \ {c}
    /\ UNCHANGED <<fieldVars, openVars, made, using, serverUp, alone>>

CheckDb(c) ==
    /\ Go(c, "checkDb", IF serverUp /\ c \notin over /\ db \in openDbs
                        THEN "ok" ELSE "closeDb")
    /\ over' = over \ {c}
    /\ UNCHANGED <<fieldVars, openVars, made, using, serverUp, alone>>

Close(c) ==
    /\ c \in Closers /\ at[c] = "idle"
    /\ Begin(c, "closeDb")

\* a slip: the closed pool is forgotten, and GetDB gives none
CloseDbForget(c) ==
    /\ Go(c, "closeDb", "closeConn")
    /\ openDbs' = openDbs \ {db}
    /\ db' = NoHandle
    /\ UNCHANGED <<conn, openConns, made, using, serverUp, over, alone>>

\* whatever cm.db is by now
CloseDb(c) ==
    /\ Go(c, "closeDb", "closeConn")
    /\ openDbs' = openDbs \ {db}
    /\ UNCHANGED <<fieldVars, openConns, made, using, serverUp, over, alone>>

CloseConn(c) ==
    /\ Go(c, "closeConn", IF c \in Reconnecters THEN "open" ELSE "ok")
    /\ openConns' = openConns \ {conn}
    /\ UNCHANGED <<fieldVars, openDbs, made, using, serverUp, over, alone>>

-----------------------------------------------------------------------------
(* NewConnectionManager. *)

Known == {db, conn} \cup openDbs \cup openConns
            \cup {made[c] : c \in Reconnecters} \cup {using[q] : q \in Queries}

\* all that are unknown are alike: one will do
Unknown == CHOOSE h \in Handles \ Known : TRUE

Open(c) ==
    /\ Go(c, "open", "pingConn")
    /\ Handles \ Known # {}
    /\ made' = [made EXCEPT ![c] = Unknown]
    /\ openConns' = openConns \cup {Unknown}
    /\ UNCHANGED <<fieldVars, openDbs, using, serverUp, over, alone>>

PingConn(c) ==
    /\ at[c] = "pingConn" /\ serverUp
    /\ Go(c, "pingConn", "pingDb")
    /\ openDbs' = openDbs \cup {made[c]}
    /\ UNCHANGED <<fieldVars, openConns, made, using, serverUp, over, alone>>

PingDb(c) ==
    /\ at[c] = "pingDb" /\ serverUp
    /\ Go(c, "pingDb", "storeDb")
    /\ UNCHANGED <<fieldVars, openVars, made, using, serverUp, over, alone>>

\* a slip: only the pool is closed
GiveUpDb(c) ==
    /\ at[c] \in {"pingConn", "pingDb"} /\ ~serverUp
    /\ at' = [at EXCEPT ![c] = "failed"]
    /\ openDbs' = openDbs \ {made[c]}
    /\ made' = [made EXCEPT ![c] = NoHandle]
    /\ UNCHANGED <<fieldVars, openConns, using, serverUp, over, alone>>

\* either ping fails: what was opened is closed again
GiveUp(c) ==
    /\ at[c] \in {"pingConn", "pingDb"} /\ ~serverUp
    /\ at' = [at EXCEPT ![c] = "failed"]
    /\ openDbs' = openDbs \ {made[c]}
    /\ openConns' = openConns \ {made[c]}
    /\ made' = [made EXCEPT ![c] = NoHandle]
    /\ UNCHANGED <<fieldVars, using, serverUp, over, alone>>

-----------------------------------------------------------------------------
(* The two assignments at the end of ReconnectIfNeeded. *)

\* a slip: the pool is not replaced
StoreNoDb(c) ==
    /\ Go(c, "storeDb", "storeConn")
    /\ UNCHANGED <<fieldVars, openVars, made, using, serverUp, over, alone>>

StoreDb(c) ==
    /\ Go(c, "storeDb", "storeConn")
    /\ db' = made[c]
    /\ UNCHANGED <<conn, openVars, made, using, serverUp, over, alone>>

StoreConn(c) ==
    /\ Go(c, "storeConn", "ok")
    /\ conn' = made[c]
    /\ made' = [made EXCEPT ![c] = NoHandle]
    /\ UNCHANGED <<db, openVars, using, serverUp, over, alone>>

-----------------------------------------------------------------------------
\* GetDB; the query itself comes later
GetDB(q) ==
    /\ using[q] = NoHandle
    /\ using' = [using EXCEPT ![q] = db]
    /\ UNCHANGED <<fieldVars, openVars, at, made, serverUp, over, alone>>

\* with an error if the pool is closed by then, or the server does not answer
Answer(q) ==
    /\ using[q] # NoHandle
    /\ using' = [using EXCEPT ![q] = NoHandle]
    /\ UNCHANGED <<fieldVars, openVars, at, made, serverUp, over, alone>>

\* external: the server goes away or comes back
ServerChanges ==
    /\ serverUp' = ~serverUp
    /\ UNCHANGED <<fieldVars, openVars, at, made, using, over, alone>>

\* external: the caller's context is cancelled, or its time is over
ContextEnds(c) ==
    /\ at[c] \in {"checkConn", "checkDb"} /\ c \notin over
    /\ over' = over \cup {c}
    /\ UNCHANGED <<fieldVars, openVars, at, made, using, serverUp, alone>>

Reconnect(c) ==
    \/ ReconnectIfNeeded(c) \/ CheckConn(c) \/ CheckDb(c) \/ CloseDb(c)
    \/ CloseConn(c) \/ Open(c) \/ PingConn(c) \/ PingDb(c) \/ GiveUp(c)
    \/ StoreDb(c) \/ StoreConn(c)

Next ==
    \/ \E c \in Reconnecters : Reconnect(c) \/ ContextEnds(c)
    \/ \E c \in Closers : Close(c) \/ CloseDb(c) \/ CloseConn(c)
    \/ \E q \in Queries : GetDB(q) \/ Answer(q)
    \/ ServerChanges

Spec == Init /\ [][Next]_vars

\* Somebody goes on calling ReconnectIfNeeded, pings have a timeout, and a
\* Close or a query that has begun goes on.
Fairness ==
    /\ \A c \in Reconnecters : WF_vars(Reconnect(c))
    /\ \A c \in Closers : WF_vars(CloseDb(c) \/ CloseConn(c))
    /\ \A q \in Queries : WF_vars(Answer(q))

FairSpec == Spec /\ Fairness

-----------------------------------------------------------------------------
(* Properties. *)

\* Every variable has its type: there is always a pool for GetDB to give and a
\* connection to ping, closed or not; and a pair in the making belongs to a call
\* that is between opening it and storing it.
TypeOK ==
    /\ {db, conn} \subseteq Handles
    /\ openDbs \subseteq Handles /\ openConns \subseteq Handles
    /\ at \in [Users -> Stages]
    /\ made \in [Reconnecters -> Handles \cup {NoHandle}]
    /\ \A c \in Reconnecters :
        made[c] # NoHandle <=>
            at[c] \in {"pingConn", "pingDb", "storeDb", "storeConn"}
    /\ using \in [Queries -> Handles \cup {NoHandle}]
    /\ over \subseteq Reconnecters
    /\ serverUp \in BOOLEAN /\ alone \in BOOLEAN

\* As long as calls of ReconnectIfNeeded and Close have not overlapped no
\* connection is lost open: what is open is stored, or about to be.  And a
\* query and a health check look at two connections of one making.
NothingLeaks ==
    alone =>
        LET inHand == {made[c] : c \in Reconnecters}
        IN  /\ openDbs \subseteq {db} \cup inHand
            /\ openConns \subseteq {conn} \cup inHand
            /\ (\A c \in Users : at[c] \in Returned) => db = conn

\* A reconnect that returns nil, none having overlapped, leaves both
\* connections open.
NilMeansOpen ==
    [][\A c \in Reconnecters :
        alone' /\ at[c] # "ok" /\ at'[c] = "ok"
            => db' \in openDbs' /\ conn' \in openConns']_vars

\* When the server stays, calls that do not overlap bring the connections
\* back time and again, also after reconnects that failed and left closed ones in
\* place, and after callers whose context ended and who closed connections that
\* were well.  Once no more contexts end during a check, the connections stay open
\* and no query is left with a closed pool.  (Two callers that overlap can go on
\* closing each other's new connections.)
Recovers ==
    <>[](serverUp /\ alone /\ \A c \in Closers : at[c] = "idle")
        => /\ []<>(db \in openDbs /\ conn \in openConns)
           /\ <>[](over = {}) =>
                /\ <>[](db \in openDbs /\ conn \in openConns)
                /\ \A q \in Queries : <>[](using[q] \in openDbs \cup {NoHandle})

=============================================================================
