---------------------------- MODULE ConnectionPool ----------------------------
(***************************************************************************)
(* ConnectionPoolManager of pkg/optimization/connection_pool.go: a pool of *)
(* database connections, a goroutine that pings the database on a ticker,  *)
(* and the calls of Warmup, UpdateConfig and Close that other goroutines   *)
(* make on it.                                                             *)
(*                                                                         *)
(* UpdateConfig stops the checking goroutine and starts another with the   *)
(* new interval.  All of them close the same channel healthCheckDone when  *)
(* they end, and the second close of a channel is a panic, which ends the  *)
(* process: crashed.  Two calls of UpdateConfig exclude each other with    *)
(* mu; Close takes no lock.                                                *)
(*                                                                         *)
(* Of sql.DB (external) the model keeps what this code depends on: at most *)
(* maxOpen connections are in use, a request beyond that waits, a waiting  *)
(* request ends when its context does or when the pool is closed, and a    *)
(* ping needs a connection like everybody else.                            *)
(***************************************************************************)
EXTENDS Integers, Sequences, FiniteSets

CONSTANTS
    Updaters,     \* the callers of UpdateConfig, one call each
    NoUpdater,    \* nobody holds the lock
    Closers,      \* the callers of Close, one call each
    Warmers,      \* the callers of Warmup, one call each
    Configs,      \* the configurations; a frequency below one, for which
                  \* time.NewTicker panics, is left out
    WarmupSizes   \* the connectionCounts Warmup may be given

ASSUME PoolAssumption ==
    /\ Configs # {}
    /\ \A g \in Configs : g.open \in Nat \ {0} /\ g.freq \in Nat \ {0}
    /\ WarmupSizes \subseteq Nat
    /\ NoUpdater \notin Updaters
    /\ IsFiniteSet(Updaters) /\ IsFiniteSet(Warmers)

VARIABLES
    config,      \* cpm.config: open is MaxOpenConns, freq HealthCheckFreq
    interval,    \* cpm.healthCheckInterval
    mu,          \* the UpdateConfig that holds cpm.mu, or NoUpdater
    updating,    \* updating[u]: how far that UpdateConfig got
    checkers,    \* the health check goroutines in the order of their start
    cancels,     \* the goroutine that cpm.cancelHealthCheck stops
    doneClosed,  \* healthCheckDone is closed
    healthy,     \* cpm.connectionHealth
    closing,     \* closing[c]: how far that Close got
    warming,     \* warming[w]: how far that Warmup got
    left,        \* left[w]: the connections it has yet to ask for
    held,        \* held[w]: len(connections)
    maxOpen,     \* the limit that sql.DB got from SetMaxOpenConns
    dbOpen,      \* sql.DB is not closed
    serverUp,    \* the database server answers
    crashed      \* a goroutine panicked

configVars == <<config, interval, mu, updating>>
checkVars  == <<checkers, cancels, doneClosed, healthy>>
warmVars   == <<warming, left, held>>
dbVars     == <<maxOpen, dbOpen>>
vars == <<configVars, checkVars, closing, warmVars, dbVars, serverUp, crashed>>

\* a goroutine that startHealthCheck starts; it has no ticker yet
NewChecker == [at |-> "starting", cancelled |-> FALSE, tick |-> 0]

Generations == 1 .. Len(checkers)

Init ==
    /\ config \in Configs
    /\ interval = config.freq
    /\ mu = NoUpdater
    /\ updating = [u \in Updaters |-> "idle"]
    /\ checkers = <<NewChecker>>
    /\ cancels = 1
    /\ doneClosed = FALSE
    /\ healthy = TRUE
    /\ closing = [c \in Closers |-> "idle"]
    /\ warming = [w \in Warmers |-> "idle"]
    /\ left = [w \in Warmers |-> 0]
    /\ held = [w \in Warmers |-> 0]
    /\ maxOpen = config.open
    /\ dbOpen = TRUE
    /\ serverUp \in BOOLEAN
    /\ crashed = FALSE

-----------------------------------------------------------------------------
(* The connections of sql.DB. *)

Pinging == {g \in Generations : checkers[g].at = "pinging"}

\* those in connections, the local of Warmup, by their place in it
Held == UNION {{w} \X (1 .. held[w]) : w \in Warmers}

InUse == Cardinality(Held) + Cardinality(Pinging)

Available == dbOpen /\ InUse < maxOpen

Larger(a, b) == IF a > b THEN a ELSE b
Smaller(a, b) == IF a < b THEN a ELSE b

\* a slip: without the floor of five connections
SizeWithoutFloor(inUse, waits, open) ==
    LET least == IF waits THEN inUse + 2 ELSE Larger(inUse, 2)
        most  == IF waits THEN Smaller(open * 2, 100)
                          ELSE Larger(least + 2, open \div 2)
    IN  [min |-> Larger(least, 2), max |-> most]

\* GetOptimalPoolSize; waits: stats.WaitCount is positive
OptimalPoolSize(inUse, waits, open) ==
    LET least == IF waits THEN inUse + 2 ELSE Larger(inUse, 2)
        most  == IF waits THEN Smaller(open * 2, 100)
                          ELSE Larger(least + 2, open \div 2)
    IN  [min |-> Larger(least, 2), max |-> Larger(most, 5)]

-----------------------------------------------------------------------------
(* The goroutine of startHealthCheck. *)

Checker(g, from) == g \in Generations /\ checkers[g].at = from

ToCheck(g, to) == checkers' = [checkers EXCEPT ![g].at = to]

NewTicker(g) ==
    /\ Checker(g, "starting")
    /\ checkers' = [checkers EXCEPT ![g].at = "waiting", ![g].tick = interval]
    /\ UNCHANGED <<configVars, cancels, doneClosed, healthy, closing, warmVars,
                   dbVars, serverUp, crashed>>

\* the ticker fires; performHealthCheck gets a connection from the pool
PingStarts(g) ==
    /\ Checker(g, "waiting")
    /\ Available
    /\ ToCheck(g, "pinging")
    /\ UNCHANGED <<configVars, cancels, doneClosed, healthy, closing, warmVars,
                   dbVars, serverUp, crashed>>

\* it gets none in five seconds, or the pool is closed
PingRefused(g) ==
    /\ Checker(g, "waiting")
    /\ ~Available
    /\ ToCheck(g, "failed")
    /\ UNCHANGED <<configVars, cancels, doneClosed, healthy, closing, warmVars,
                   dbVars, serverUp, crashed>>

\* the outcome of a ping is the state of the server at one moment
PingEnds(g) ==
    /\ Checker(g, "pinging")
    /\ ToCheck(g, IF serverUp THEN "answered" ELSE "failed")
    /\ UNCHANGED <<configVars, cancels, doneClosed, healthy, closing, warmVars,
                   dbVars, serverUp, crashed>>

\* a slip: only failures are recorded
RecordFailure(g) ==
    /\ Checker(g, "answered") \/ Checker(g, "failed")
    /\ mu = NoUpdater
    /\ healthy' = (healthy /\ checkers[g].at = "answered")
    /\ ToCheck(g, "waiting")
    /\ UNCHANGED <<configVars, cancels, doneClosed, closing, warmVars, dbVars,
                   serverUp, crashed>>

Record(g) ==
    /\ Checker(g, "answered") \/ Checker(g, "failed")
    /\ mu = NoUpdater
    /\ healthy' = (checkers[g].at = "answered")
    /\ ToCheck(g, "waiting")
    /\ UNCHANGED <<configVars, cancels, doneClosed, closing, warmVars, dbVars,
                   serverUp, crashed>>

\* a slip: the context is a field that the next goroutine overwrites
EndsByField(g) ==
    /\ Checker(g, "waiting")
    /\ checkers[cancels].cancelled
    /\ ToCheck(g, "ended")
    /\ doneClosed' = TRUE
    /\ crashed' = doneClosed
    /\ UNCHANGED <<configVars, cancels, healthy, closing, warmVars, dbVars,
                   serverUp>>

\* ctx.Done: the deferred close of healthCheckDone
CheckerEnds(g) ==
    /\ Checker(g, "waiting")
    /\ checkers[g].cancelled
    /\ ToCheck(g, "ended")
    /\ doneClosed' = TRUE
    /\ crashed' = doneClosed
    /\ UNCHANGED <<configVars, cancels, healthy, closing, warmVars, dbVars,
                   serverUp>>

-----------------------------------------------------------------------------
(* UpdateConfig. *)

\* takes mu; configureConnectionPool
ApplyConfig(u) ==
    /\ updating[u] = "idle"
    /\ mu = NoUpdater
    /\ \E g \in Configs : config' = g /\ maxOpen' = g.open
    /\ mu' = u
    /\ updating' = [updating EXCEPT ![u] = "applied"]
    /\ UNCHANGED <<interval, checkVars, closing, warmVars, dbOpen, serverUp,
                   crashed>>

KeepChecker(u) ==
    /\ updating[u] = "applied"
    /\ config.freq = interval
    /\ mu' = NoUpdater
    /\ updating' = [updating EXCEPT ![u] = "done"]
    /\ UNCHANGED <<config, interval, checkVars, closing, warmVars, dbVars,
                   serverUp, crashed>>

\* a slip: the old goroutine is not stopped
ForgetChecker(u) ==
    /\ updating[u] = "applied"
    /\ config.freq # interval
    /\ interval' = config.freq
    /\ updating' = [updating EXCEPT ![u] = "stopped"]
    /\ UNCHANGED <<config, mu, checkVars, closing, warmVars, dbVars, serverUp,
                   crashed>>

StopChecker(u) ==
    /\ updating[u] = "applied"
    /\ config.freq # interval
    /\ interval' = config.freq
    /\ checkers' = [checkers EXCEPT ![cancels].cancelled = TRUE]
    /\ updating' = [updating EXCEPT ![u] = "stopped"]
    /\ UNCHANGED <<config, mu, cancels, doneClosed, healthy, closing, warmVars,
                   dbVars, serverUp, crashed>>

StartChecker(u) ==
    /\ updating[u] = "stopped"
    /\ checkers' = Append(checkers, NewChecker)
    /\ cancels' = Len(checkers')
    /\ mu' = NoUpdater
    /\ updating' = [updating EXCEPT ![u] = "done"]
    /\ UNCHANGED <<config, interval, doneClosed, healthy, closing, warmVars,
                   dbVars, serverUp, crashed>>

-----------------------------------------------------------------------------
(* Close. *)

CancelCheck(c) ==
    /\ closing[c] = "idle"
    /\ checkers' = [checkers EXCEPT ![cancels].cancelled = TRUE]
    /\ closing' = [closing EXCEPT ![c] = "waiting"]
    /\ UNCHANGED <<configVars, cancels, doneClosed, healthy, warmVars, dbVars,
                   serverUp, crashed>>

\* a slip: a select with a default branch
SeeDoneOrNot(c) ==
    /\ closing[c] = "waiting"
    /\ closing' = [closing EXCEPT ![c] = "stopped"]
    /\ UNCHANGED <<configVars, checkVars, warmVars, dbVars, serverUp, crashed>>

SeeDone(c) ==
    /\ closing[c] = "waiting"
    /\ doneClosed
    /\ closing' = [closing EXCEPT ![c] = "stopped"]
    /\ UNCHANGED <<configVars, checkVars, warmVars, dbVars, serverUp, crashed>>

\* time.After(5 * time.Second)
StopWaiting(c) ==
    /\ closing[c] = "waiting"
    /\ closing' = [closing EXCEPT ![c] = "late"]
    /\ UNCHANGED <<configVars, checkVars, warmVars, dbVars, serverUp, crashed>>

CloseDB(c) ==
    /\ closing[c] \in {"stopped", "late"}
    /\ dbOpen' = FALSE
    /\ closing' = [closing EXCEPT ![c] = "done"]
    /\ UNCHANGED <<configVars, checkVars, warmVars, maxOpen, serverUp, crashed>>

-----------------------------------------------------------------------------
(* Warmup. *)

\* the stages of a Warmup before its context is over: the context has a
\* deadline, or it has none
Asking == {"asking", "patient"}

Warmup(w) ==
    /\ warming[w] = "idle"
    /\ \E n \in WarmupSizes : left' = [left EXCEPT ![w] = n]
    /\ \E stage \in Asking : warming' = [warming EXCEPT ![w] = stage]
    /\ UNCHANGED <<configVars, checkVars, closing, held, dbVars, serverUp, crashed>>

\* an idle connection serves even when the server is gone
Obtain(w) ==
    /\ warming[w] \in Asking /\ left[w] > 0
    /\ Available
    /\ held' = [held EXCEPT ![w] = @ + 1]
    /\ left' = [left EXCEPT ![w] = @ - 1]
    /\ UNCHANGED <<configVars, checkVars, closing, warming, dbVars, serverUp,
                   crashed>>

\* a slip: the connections are asked for without the caller's context
MissUnlessOverdue(w) ==
    /\ warming[w] \in Asking \cup {"overdue"} /\ left[w] > 0
    /\ ~dbOpen \/ (Available /\ ~serverUp)
    /\ left' = [left EXCEPT ![w] = @ - 1]
    /\ UNCHANGED <<configVars, checkVars, closing, warming, held, dbVars,
                   serverUp, crashed>>

\* a slip: the loop runs once more
MissOnceMore(w) ==
    /\ warming[w] \in Asking \cup {"overdue"} /\ left[w] >= 0
    /\ warming[w] = "overdue" \/ ~dbOpen \/ (Available /\ ~serverUp)
    /\ left' = [left EXCEPT ![w] = @ - 1]
    /\ UNCHANGED <<configVars, checkVars, closing, warming, held, dbVars,
                   serverUp, crashed>>

\* the context is over, the pool closed or the server gone; the loop goes on
Miss(w) ==
    /\ warming[w] \in Asking \cup {"overdue"} /\ left[w] > 0
    /\ warming[w] = "overdue" \/ ~dbOpen \/ (Available /\ ~serverUp)
    /\ left' = [left EXCEPT ![w] = @ - 1]
    /\ UNCHANGED <<configVars, checkVars, closing, warming, held, dbVars,
                   serverUp, crashed>>

\* the loop that closes the connections, in one step: each is free to be
\* taken again, and nobody waits for several at once
GiveBack(w) ==
    /\ warming[w] \in Asking \cup {"overdue"} /\ left[w] = 0
    /\ held' = [held EXCEPT ![w] = 0]
    /\ warming' = [warming EXCEPT ![w] = "done"]
    /\ UNCHANGED <<configVars, checkVars, closing, left, dbVars, serverUp, crashed>>

\* external: the caller's context ends, at its deadline or because it is cancelled
Expire(w) ==
    /\ warming[w] \in Asking
    /\ warming' = [warming EXCEPT ![w] = "overdue"]
    /\ UNCHANGED <<configVars, checkVars, closing, left, held, dbVars, serverUp,
                   crashed>>

\* external: the server goes away or comes back
ServerChanges ==
    /\ serverUp' = ~serverUp
    /\ UNCHANGED <<configVars, checkVars, closing, warmVars, dbVars, crashed>>

-----------------------------------------------------------------------------
Check(g) ==
    \/ NewTicker(g) \/ PingStarts(g) \/ PingRefused(g) \/ PingEnds(g)
    \/ Record(g) \/ CheckerEnds(g)

UpdateConfig(u) ==
    \/ ApplyConfig(u) \/ KeepChecker(u) \/ StopChecker(u) \/ StartChecker(u)

Close(c) == CancelCheck(c) \/ SeeDone(c) \/ StopWaiting(c) \/ CloseDB(c)

Warm(w) ==
    \/ Warmup(w) \/ Obtain(w) \/ Miss(w) \/ GiveBack(w) \/ Expire(w)

\* a panic ends the process
Next ==
    /\ ~crashed
    /\ \/ \E g \in Generations : Check(g)
       \/ \E u \in Updaters : UpdateConfig(u)
       \/ \E c \in Closers : Close(c)
       \/ \E w \in Warmers : Warm(w)
       \/ ServerChanges

Spec == Init /\ [][Next]_vars

MaxGeneration == Cardinality(Updaters) + 1

Runs(A) == ~crashed /\ A

(***************************************************************************)
(* Goroutines are scheduled, tickers fire, the ping has a timeout, and a   *)
(* deadline comes; a context without one need not end.  With a tick and    *)
(* ctx.Done both ready the select of the checker takes either at random,   *)
(* which strong fairness states; sql.DB serves those who wait for a        *)
(* connection in their order, so that a connection which is given back     *)
(* time and again reaches a Warmup that waits.  Nobody has to call         *)
(* anything.                                                               *)
(***************************************************************************)
Fairness ==
    /\ \A g \in 1 .. MaxGeneration :
        /\ WF_vars(Runs(NewTicker(g) \/ PingStarts(g) \/ PingRefused(g)
                        \/ PingEnds(g) \/ Record(g)))
        /\ SF_vars(Runs(CheckerEnds(g)))
    /\ \A u \in Updaters :
        WF_vars(Runs(KeepChecker(u) \/ StopChecker(u) \/ StartChecker(u)))
    /\ \A c \in Closers : WF_vars(Runs(SeeDone(c) \/ StopWaiting(c) \/ CloseDB(c)))
    /\ \A w \in Warmers :
        /\ SF_vars(Runs(Obtain(w) \/ Miss(w)))
        /\ WF_vars(Runs(GiveBack(w)))
        /\ WF_vars(Runs(warming[w] = "asking" /\ Expire(w)))

FairSpec == Spec /\ Fairness

-----------------------------------------------------------------------------
(* Properties. *)

\* Every variable has its type.
TypeOK ==
    /\ config \in Configs
    /\ interval \in {g.freq : g \in Configs}
    /\ mu \in Updaters \cup {NoUpdater}
    /\ updating \in [Updaters -> {"idle", "applied", "stopped", "done"}]
    /\ checkers \in Seq([at : {"starting", "waiting", "pinging", "answered",
                               "failed", "ended"},
                         cancelled : BOOLEAN, tick : Nat])
    /\ cancels \in Generations
    /\ doneClosed \in BOOLEAN /\ healthy \in BOOLEAN
    /\ closing \in [Closers -> {"idle", "waiting", "stopped", "late", "done"}]
    /\ warming \in [Warmers -> Asking \cup {"idle", "overdue", "done"}]
    /\ left \in [Warmers -> Nat] /\ held \in [Warmers -> Nat]
    /\ maxOpen \in Nat \ {0}
    /\ dbOpen \in BOOLEAN /\ serverUp \in BOOLEAN /\ crashed \in BOOLEAN

\* However calls of UpdateConfig and Close interleave, at most one goroutine
\* goes on checking: all but the last are told to stop, and the last is the one
\* that cancelHealthCheck stops, so that a later Close or UpdateConfig still can.
\* (After a Close the last may be going on: an UpdateConfig has started it since.
\* Without one the Close has stopped it.)  When no update is under way the last
\* one ticks at the configured interval, although it reads the interval without
\* the lock (connection_pool.go line 85).
OneChecker ==
    /\ cancels = Len(checkers)
    /\ \A g \in Generations : g < Len(checkers) => checkers[g].cancelled
    /\ Len(checkers) = 1 /\ (\E c \in Closers : closing[c] # "idle")
        => checkers[1].cancelled
    /\ mu = NoUpdater =>
        checkers[Len(checkers)].tick \in {0, interval} /\ interval = config.freq

\* Close has seen healthCheckDone closed: without a restart of the checks the
\* goroutine is over, and nobody pings a pool that is being closed.  Without
\* a restart the channel is not closed twice either.
CloseOrderly ==
    Len(checkers) = 1 =>
        /\ ~crashed
        /\ (\E c \in Closers : closing[c] = "stopped") => checkers[1].at = "ended"

\* GetOptimalPoolSize never proposes a minimum above its maximum, whatever
\* warmups and pings have in use and whether somebody waited, unless the pool
\* was made smaller than what is in use.  (Or more than 98 connections are: the
\* maximum is capped at 100 and the minimum is not.)
PoolSizesOrdered ==
    InUse <= Smaller(config.open, 98) =>
        \A waits \in BOOLEAN :
            LET size == OptimalPoolSize(InUse, waits, config.open)
            IN  size.min <= size.max

\* IsHealthy follows the server: when the server stays as it is, the pool is not
\* closed and warmups do not keep the whole of it, the recorded health becomes
\* right and stays so, whatever results of older pings, of stopped checkers and of
\* an exhausted pool are recorded on the way.
HealthFollows ==
    \A b \in BOOLEAN :
        <>[](/\ serverUp = b /\ ~crashed /\ Cardinality(Held) < maxOpen
             /\ \A c \in Closers : closing[c] = "idle")
            => <>[](healthy = b)

\* A Warmup whose context has a deadline returns, also when it waits for a
\* connection that it holds itself.  One whose context has none may wait for
\* ever, but only for want of connections that warmups hold: when it hangs, they
\* have the whole pool.
WarmupsReturn ==
    \A w \in Warmers :
        <>[](warming[w] \in Asking \cup {"overdue"} /\ ~crashed)
            => <>[](warming[w] = "patient" /\ Cardinality(Held) >= maxOpen)

\* A goroutine that is told to stop ends.
CancelledChecksEnd ==
    \A g \in 1 .. MaxGeneration :
        (g \in Generations /\ checkers[g].cancelled)
            ~> (crashed \/ \E h \in Generations : h = g /\ checkers[h].at = "ended")

=============================================================================
