------------------------ MODULE ConnectionPoolProofs ------------------------
(* Proofs about ConnectionPool, for every value of its constants. *)
EXTENDS ConnectionPool, FiniteSetTheorems, SequenceTheorems, TLAPS

USE PoolAssumption DEF PoolAssumption

\* What a health check goroutine keeps.
CheckerRecords ==
    [at : {"starting", "waiting", "pinging", "answered", "failed", "ended"},
     cancelled : BOOLEAN, tick : Nat]

\* The variables of which checks and updates are made have their types.
CheckTypeOK ==
    /\ config \in Configs
    /\ interval \in {g.freq : g \in Configs}
    /\ mu \in Updaters \cup {NoUpdater}
    /\ updating \in [Updaters -> {"idle", "applied", "stopped", "done"}]
    /\ checkers \in Seq(CheckerRecords)
    /\ cancels \in Generations
    /\ doneClosed \in BOOLEAN /\ healthy \in BOOLEAN

\* The others have theirs.
CallTypeOK ==
    /\ closing \in [Closers -> {"idle", "waiting", "stopped", "late", "done"}]
    /\ warming \in [Warmers -> Asking \cup {"idle", "overdue", "done"}]
    /\ left \in [Warmers -> Nat] /\ held \in [Warmers -> Nat]
    /\ maxOpen \in Nat \ {0}
    /\ dbOpen \in BOOLEAN /\ serverUp \in BOOLEAN /\ crashed \in BOOLEAN

\* The two parts of the type invariant.
LEMMA TypeParts == TypeOK <=> CheckTypeOK /\ CallTypeOK
  BY DEF TypeOK, CheckTypeOK, CallTypeOK, CheckerRecords

\* A step that changes one goroutine leaves the others as they are.
LEMMA OneChanges ==
    ASSUME checkers \in Seq(CheckerRecords), NEW g \in Generations,
           NEW e \in CheckerRecords,
           checkers' = [checkers EXCEPT ![g] = e]
    PROVE  /\ checkers' \in Seq(CheckerRecords)
           /\ Len(checkers') = Len(checkers)
           /\ Generations' = Generations
           /\ \A h \in Generations :
                checkers'[h] = IF h = g THEN e ELSE checkers[h]
  BY DEF Generations

\* A goroutine that moves on keeps its interval and whether it was cancelled.
LEMMA CheckerMoves ==
    ASSUME CheckTypeOK, NEW g, NEW from, Checker(g, from),
           NEW to \in {"waiting", "pinging", "answered", "failed", "ended"},
           ToCheck(g, to)
    PROVE  /\ checkers' \in Seq(CheckerRecords)
           /\ Len(checkers') = Len(checkers)
           /\ Generations' = Generations
           /\ g \in Generations /\ checkers[g].at = from
           /\ \A h \in Generations :
                /\ checkers'[h].cancelled = checkers[h].cancelled
                /\ checkers'[h].tick = checkers[h].tick
                /\ checkers'[h].at = IF h = g THEN to ELSE checkers[h].at
  <1> DEFINE e == [checkers[g] EXCEPT !.at = to]
  <1>1. g \in Generations /\ checkers[g].at = from
    BY DEF Checker
  <1>2. checkers[g] \in CheckerRecords
    BY <1>1, ElementOfSeq DEF CheckTypeOK, Generations
  <1>3. /\ e \in CheckerRecords /\ e.at = to
        /\ e.cancelled = checkers[g].cancelled /\ e.tick = checkers[g].tick
    BY <1>2 DEF CheckerRecords
  <1>4. checkers' = [checkers EXCEPT ![g] = e]
    BY DEF ToCheck
  <1> HIDE DEF e
  <1>5. /\ checkers' \in Seq(CheckerRecords)
        /\ Len(checkers') = Len(checkers)
        /\ Generations' = Generations
        /\ \A h \in Generations :
             checkers'[h] = IF h = g THEN e ELSE checkers[h]
    BY <1>1, <1>3, <1>4, OneChanges DEF CheckTypeOK
  <1>6. QED
    BY <1>1, <1>3, <1>5

\* The goroutine that cancelHealthCheck stops is cancelled, the others stay
\* as they are.
LEMMA CancelEffect ==
    ASSUME CheckTypeOK,
           checkers' = [checkers EXCEPT ![cancels].cancelled = TRUE]
    PROVE  /\ checkers' \in Seq(CheckerRecords)
           /\ Len(checkers') = Len(checkers)
           /\ Generations' = Generations
           /\ \A h \in Generations :
                /\ checkers'[h].at = checkers[h].at
                /\ checkers'[h].tick = checkers[h].tick
                /\ checkers[h].cancelled => checkers'[h].cancelled
           /\ checkers'[cancels].cancelled
  <1> DEFINE e == [checkers[cancels] EXCEPT !.cancelled = TRUE]
  <1>1. cancels \in Generations
    BY DEF CheckTypeOK
  <1>2. checkers[cancels] \in CheckerRecords
    BY <1>1, ElementOfSeq DEF CheckTypeOK, Generations
  <1>3. /\ e \in CheckerRecords /\ e.cancelled
        /\ e.at = checkers[cancels].at /\ e.tick = checkers[cancels].tick
    BY <1>2 DEF CheckerRecords
  <1>4. checkers' = [checkers EXCEPT ![cancels] = e]
    OBVIOUS
  <1> HIDE DEF e
  <1>5. /\ checkers' \in Seq(CheckerRecords)
        /\ Len(checkers') = Len(checkers)
        /\ Generations' = Generations
        /\ \A h \in Generations :
             checkers'[h] = IF h = cancels THEN e ELSE checkers[h]
    BY <1>1, <1>3, <1>4, OneChanges DEF CheckTypeOK
  <1>6. QED
    BY <1>1, <1>3, <1>5

\* A goroutine is started after the others, and it is the one to cancel.
LEMMA StartEffect ==
    ASSUME CheckTypeOK, NEW u \in Updaters, StartChecker(u)
    PROVE  /\ checkers' \in Seq(CheckerRecords)
           /\ Len(checkers') = Len(checkers) + 1
           /\ Generations' = Generations \cup {Len(checkers) + 1}
           /\ \A h \in Generations : checkers'[h] = checkers[h]
           /\ checkers'[Len(checkers) + 1] = NewChecker
           /\ cancels' = Len(checkers')
  <1>1. NewChecker \in CheckerRecords
    BY DEF NewChecker, CheckerRecords
  <1>2. checkers' = Append(checkers, NewChecker) /\ cancels' = Len(checkers')
    BY DEF StartChecker
  <1>3. checkers \in Seq(CheckerRecords) /\ Len(checkers) \in Nat
    BY DEF CheckTypeOK
  <1>4. /\ checkers' \in Seq(CheckerRecords)
        /\ Len(checkers') = Len(checkers) + 1
        /\ \A h \in 1 .. Len(checkers) : checkers'[h] = checkers[h]
        /\ checkers'[Len(checkers) + 1] = NewChecker
    BY <1>1, <1>2, <1>3, AppendProperties
  <1>5. Generations' = Generations \cup {Len(checkers) + 1}
    BY <1>3, <1>4 DEF Generations
  <1>6. QED
    BY <1>2, <1>4, <1>5 DEF Generations

-----------------------------------------------------------------------------
(* Types. *)

LEMMA InitType == Init => TypeOK
  <1> SUFFICES ASSUME Init PROVE CheckTypeOK /\ CallTypeOK
    BY TypeParts
  <1>1. config \in Configs /\ config.open \in Nat \ {0} /\ config.freq \in Nat \ {0}
    BY DEF Init
  <1>2. NewChecker \in CheckerRecords
    BY DEF NewChecker, CheckerRecords
  <1>3. checkers \in Seq(CheckerRecords) /\ cancels \in Generations
    BY <1>2 DEF Init, Generations
  <1>4. CheckTypeOK
    BY <1>1, <1>3 DEF Init, CheckTypeOK
  <1>5. CallTypeOK
    BY <1>1 DEF Init, CallTypeOK
  <1>6. QED
    BY <1>4, <1>5

\* What a checking goroutine does keeps the types.
LEMMA CheckKeepsType ==
    ASSUME TypeOK, NEW g \in Generations, Check(g)
    PROVE  TypeOK'
  <1> CheckTypeOK /\ CallTypeOK
    BY TypeParts
  <1> SUFFICES CheckTypeOK' /\ CallTypeOK'
    BY TypeParts DEF TypeOK, CheckTypeOK, CallTypeOK, CheckerRecords
  <1>1. CASE NewTicker(g)
    <2> DEFINE e == [checkers[g] EXCEPT !.at = "waiting", !.tick = interval]
    <2>1. checkers[g] \in CheckerRecords /\ interval \in Nat
      BY ElementOfSeq DEF CheckTypeOK, Generations
    <2>2. e \in CheckerRecords
      BY <2>1 DEF CheckerRecords
    <2>3. checkers' = [checkers EXCEPT ![g] = e]
      BY <1>1 DEF NewTicker
    <2> HIDE DEF e
    <2>4. checkers' \in Seq(CheckerRecords) /\ Generations' = Generations
      BY <2>2, <2>3, OneChanges DEF CheckTypeOK
    <2>5. QED
      BY <1>1, <2>4 DEF NewTicker, CheckTypeOK, CallTypeOK, configVars, warmVars, dbVars
  <1>2. CASE PingStarts(g)
    <2>1. checkers' \in Seq(CheckerRecords) /\ Generations' = Generations
      BY <1>2, CheckerMoves DEF PingStarts
    <2>2. QED
      BY <1>2, <2>1 DEF PingStarts, CheckTypeOK, CallTypeOK, configVars, warmVars, dbVars
  <1>3. CASE PingRefused(g)
    <2>1. checkers' \in Seq(CheckerRecords) /\ Generations' = Generations
      BY <1>3, CheckerMoves DEF PingRefused
    <2>2. QED
      BY <1>3, <2>1 DEF PingRefused, CheckTypeOK, CallTypeOK, configVars, warmVars, dbVars
  <1>4. CASE PingEnds(g)
    <2>1. checkers' \in Seq(CheckerRecords) /\ Generations' = Generations
      BY <1>4, CheckerMoves DEF PingEnds
    <2>2. QED
      BY <1>4, <2>1 DEF PingEnds, CheckTypeOK, CallTypeOK, configVars, warmVars, dbVars
  <1>5. CASE Record(g)
    <2>1. checkers' \in Seq(CheckerRecords) /\ Generations' = Generations
      BY <1>5, CheckerMoves DEF Record
    <2>2. healthy' \in BOOLEAN
      BY <1>5 DEF Record
    <2>3. QED
      BY <1>5, <2>1, <2>2 DEF Record, CheckTypeOK, CallTypeOK, configVars, warmVars, dbVars
  <1>6. CASE CheckerEnds(g)
    <2>1. checkers' \in Seq(CheckerRecords) /\ Generations' = Generations
      BY <1>6, CheckerMoves DEF CheckerEnds
    <2>2. doneClosed' \in BOOLEAN /\ crashed' \in BOOLEAN
      BY <1>6, Zenon DEF CheckerEnds, CheckTypeOK
    <2>3. QED
      BY <1>6, <2>1, <2>2 DEF CheckerEnds, CheckTypeOK, CallTypeOK, configVars, warmVars, dbVars
  <1>7. QED
    BY <1>1, <1>2, <1>3, <1>4, <1>5, <1>6 DEF Check

\* What UpdateConfig does keeps the types.
LEMMA UpdateKeepsType ==
    ASSUME TypeOK, NEW u \in Updaters, UpdateConfig(u)
    PROVE  TypeOK'
  <1> CheckTypeOK /\ CallTypeOK
    BY TypeParts
  <1> SUFFICES CheckTypeOK' /\ CallTypeOK'
    BY TypeParts DEF TypeOK, CheckTypeOK, CallTypeOK, CheckerRecords
  <1>1. CASE ApplyConfig(u)
    <2>1. config' \in Configs /\ maxOpen' \in Nat \ {0}
      BY <1>1 DEF ApplyConfig
    <2>2. CheckTypeOK'
      BY <1>1, <2>1 DEF ApplyConfig, CheckTypeOK, checkVars, Generations
    <2>3. CallTypeOK'
      BY <1>1, <2>1 DEF ApplyConfig, CallTypeOK, warmVars
    <2>4. QED
      BY <2>2, <2>3
  <1>2. CASE KeepChecker(u)
    BY <1>2 DEF KeepChecker, CheckTypeOK, CallTypeOK, checkVars, warmVars, dbVars, Generations
  <1>3. CASE StopChecker(u)
    <2>1. checkers' \in Seq(CheckerRecords) /\ Generations' = Generations
      BY <1>3, CancelEffect DEF StopChecker
    <2>2. CheckTypeOK'
      BY <1>3, <2>1 DEF StopChecker, CheckTypeOK
    <2>3. CallTypeOK'
      BY <1>3 DEF StopChecker, CallTypeOK, warmVars, dbVars
    <2>4. QED
      BY <2>2, <2>3
  <1>4. CASE StartChecker(u)
    <2>1. /\ checkers' \in Seq(CheckerRecords)
          /\ Len(checkers) \in Nat
          /\ cancels' = Len(checkers') /\ Len(checkers') = Len(checkers) + 1
      BY <1>4, StartEffect DEF CheckTypeOK
    <2>2. cancels' \in Generations'
      BY <2>1 DEF Generations
    <2>3. CheckTypeOK'
      BY <1>4, <2>1, <2>2 DEF StartChecker, CheckTypeOK
    <2>4. CallTypeOK'
      BY <1>4 DEF StartChecker, CallTypeOK, warmVars, dbVars
    <2>5. QED
      BY <2>3, <2>4
  <1>5. QED
    BY <1>1, <1>2, <1>3, <1>4 DEF UpdateConfig

\* What Close does keeps the types.
LEMMA CloseKeepsType ==
    ASSUME TypeOK, NEW c \in Closers, Close(c)
    PROVE  TypeOK'
  <1> CheckTypeOK /\ CallTypeOK
    BY TypeParts
  <1> SUFFICES CheckTypeOK' /\ CallTypeOK'
    BY TypeParts DEF TypeOK, CheckTypeOK, CallTypeOK, CheckerRecords
  <1>1. CASE CancelCheck(c)
    <2>1. checkers' \in Seq(CheckerRecords) /\ Generations' = Generations
      BY <1>1, CancelEffect DEF CancelCheck
    <2>2. CheckTypeOK'
      BY <1>1, <2>1 DEF CancelCheck, CheckTypeOK, configVars
    <2>3. CallTypeOK'
      BY <1>1 DEF CancelCheck, CallTypeOK, warmVars, dbVars
    <2>4. QED
      BY <2>2, <2>3
  <1>2. CASE SeeDone(c) \/ StopWaiting(c) \/ CloseDB(c)
    <2>1. UNCHANGED <<configVars, checkVars>>
      BY <1>2 DEF SeeDone, StopWaiting, CloseDB
    <2>2. CheckTypeOK'
      BY <2>1 DEF CheckTypeOK, configVars, checkVars, Generations
    <2>3. CallTypeOK'
      BY <1>2 DEF SeeDone, StopWaiting, CloseDB, CallTypeOK, warmVars, dbVars
    <2>4. QED
      BY <2>2, <2>3
  <1>3. QED
    BY <1>1, <1>2 DEF Close

\* What Warmup does keeps the types.
LEMMA WarmKeepsType ==
    ASSUME TypeOK, NEW w \in Warmers, Warm(w)
    PROVE  TypeOK'
  <1> CheckTypeOK /\ CallTypeOK
    BY TypeParts
  <1> SUFFICES CheckTypeOK' /\ CallTypeOK'
    BY TypeParts DEF TypeOK, CheckTypeOK, CallTypeOK, CheckerRecords
  <1>1. UNCHANGED <<configVars, checkVars>>
    BY DEF Warm, Warmup, Obtain, Miss, GiveBack, Expire
  <1>2. CheckTypeOK'
    BY <1>1 DEF CheckTypeOK, configVars, checkVars, Generations
  <1>3. left' \in [Warmers -> Nat] /\ held' \in [Warmers -> Nat]
    BY DEF Warm, Warmup, Obtain, Miss, GiveBack, Expire, CallTypeOK, warmVars
  <1>4. warming' \in [Warmers -> Asking \cup {"idle", "overdue", "done"}]
    BY DEF Warm, Warmup, Obtain, Miss, GiveBack, Expire, CallTypeOK
  <1>5. UNCHANGED <<closing, dbVars, serverUp, crashed>>
    BY DEF Warm, Warmup, Obtain, Miss, GiveBack, Expire
  <1>6. CallTypeOK'
    BY <1>3, <1>4, <1>5 DEF CallTypeOK, dbVars
  <1>7. QED
    BY <1>2, <1>6

LEMMA StepType == TypeOK /\ [Next]_vars => TypeOK'
  <1> SUFFICES ASSUME TypeOK, [Next]_vars PROVE TypeOK'
    OBVIOUS
  <1>1. ASSUME NEW g \in Generations, Check(g) PROVE TypeOK'
    BY <1>1, CheckKeepsType
  <1>2. ASSUME NEW u \in Updaters, UpdateConfig(u) PROVE TypeOK'
    BY <1>2, UpdateKeepsType
  <1>3. ASSUME NEW c \in Closers, Close(c) PROVE TypeOK'
    BY <1>3, CloseKeepsType
  <1>4. ASSUME NEW w \in Warmers, Warm(w) PROVE TypeOK'
    BY <1>4, WarmKeepsType
  <1>5. CASE ServerChanges
    BY <1>5 DEF ServerChanges, TypeOK, configVars, checkVars, warmVars, dbVars, Generations
  <1>6. CASE UNCHANGED vars
    BY <1>6 DEF vars, TypeOK, configVars, checkVars, warmVars, dbVars, Generations
  <1>7. QED
    BY <1>1, <1>2, <1>3, <1>4, <1>5, <1>6 DEF Next

\* Every variable of the pool manager keeps its type.
THEOREM PoolTypeCorrect == Spec => []TypeOK
  <1>1. TypeOK /\ [Next]_vars => TypeOK'
    BY StepType
  <1>2. QED
    BY InitType, <1>1, PTL DEF Spec

-----------------------------------------------------------------------------
(* One checker.  cancelHealthCheck stops the goroutine started last, and    *)
(* the lock tells which update may have stopped it without having started   *)
(* the next one, or changed the configuration but not yet the interval.     *)

LockInv ==
    \A u \in Updaters : mu = u <=> updating[u] \in {"applied", "stopped"}

CancelInv ==
    /\ cancels = Len(checkers)
    /\ \A g \in Generations : g # cancels => checkers[g].cancelled
    /\ \A u \in Updaters : updating[u] = "stopped" => checkers[cancels].cancelled
    /\ Len(checkers) = 1 /\ (\E c \in Closers : closing[c] # "idle")
         => checkers[cancels].cancelled

IntervalInv ==
    /\ (\A u \in Updaters : updating[u] # "applied") => interval = config.freq
    /\ (\A u \in Updaters : updating[u] # "stopped")
         => checkers[cancels].tick \in {0, interval}

CheckerInv == LockInv /\ CancelInv /\ IntervalInv

LEMMA InitChecker == Init => CheckerInv
  <1> SUFFICES ASSUME Init PROVE CheckerInv
    OBVIOUS
  <1>1. /\ checkers = <<NewChecker>> /\ Len(checkers) = 1 /\ cancels = 1
        /\ checkers[1].tick = 0
    BY DEF Init, NewChecker
  <1>2. LockInv
    BY DEF Init, LockInv
  <1>3. CancelInv
    BY <1>1 DEF Init, CancelInv, Generations
  <1>4. IntervalInv
    BY <1>1 DEF Init, IntervalInv
  <1>5. QED
    BY <1>2, <1>3, <1>4 DEF CheckerInv

\* What a checking goroutine does: it cancels nobody, and takes its interval
\* at most once.
LEMMA CheckKeepsChecker ==
    ASSUME CheckTypeOK, CheckerInv, NEW g \in Generations, Check(g)
    PROVE  CheckerInv'
  <1>1. UNCHANGED <<configVars, cancels, closing>>
    BY DEF Check, NewTicker, PingStarts, PingRefused, PingEnds, Record, CheckerEnds
  <1>2. /\ Generations' = Generations /\ Len(checkers') = Len(checkers)
        /\ \A h \in Generations :
             /\ checkers'[h].cancelled = checkers[h].cancelled
             /\ checkers'[h].tick \in {checkers[h].tick, interval}
    <2>1. CASE NewTicker(g)
      <3> DEFINE e == [checkers[g] EXCEPT !.at = "waiting", !.tick = interval]
      <3>1. checkers[g] \in CheckerRecords /\ interval \in Nat
        BY ElementOfSeq DEF CheckTypeOK, Generations
      <3>2. e \in CheckerRecords /\ e.cancelled = checkers[g].cancelled /\ e.tick = interval
        BY <3>1 DEF CheckerRecords
      <3>3. checkers' = [checkers EXCEPT ![g] = e]
        BY <2>1 DEF NewTicker
      <3> HIDE DEF e
      <3>4. /\ Generations' = Generations /\ Len(checkers') = Len(checkers)
            /\ \A h \in Generations :
                 checkers'[h] = IF h = g THEN e ELSE checkers[h]
        BY <3>2, <3>3, OneChanges DEF CheckTypeOK
      <3>5. QED
        BY <3>2, <3>4
    <2>2. CASE PingStarts(g)
      BY <2>2, CheckerMoves DEF PingStarts
    <2>3. CASE PingRefused(g)
      BY <2>3, CheckerMoves DEF PingRefused
    <2>4. CASE PingEnds(g)
      BY <2>4, CheckerMoves DEF PingEnds
    <2>5. CASE Record(g)
      BY <2>5, CheckerMoves DEF Record
    <2>6. CASE CheckerEnds(g)
      BY <2>6, CheckerMoves DEF CheckerEnds
    <2>7. QED
      BY <2>1, <2>2, <2>3, <2>4, <2>5, <2>6 DEF Check
  <1>3. cancels \in Generations
    BY DEF CheckTypeOK
  <1>4. LockInv'
    BY <1>1 DEF CheckerInv, LockInv, configVars
  <1>5. CancelInv'
    BY <1>1, <1>2, <1>3 DEF CheckerInv, CancelInv, configVars
  <1>6. IntervalInv'
    BY <1>1, <1>2, <1>3 DEF CheckerInv, IntervalInv, configVars
  <1>7. QED
    BY <1>4, <1>5, <1>6 DEF CheckerInv

\* What UpdateConfig does, under the lock.
LEMMA UpdateKeepsChecker ==
    ASSUME CheckTypeOK, CheckerInv, NEW u \in Updaters, UpdateConfig(u)
    PROVE  CheckerInv'
  <1>1. updating \in [Updaters -> {"idle", "applied", "stopped", "done"}]
    BY DEF CheckTypeOK
  <1>2. cancels \in Generations /\ closing' = closing
    BY DEF CheckTypeOK, UpdateConfig, ApplyConfig, KeepChecker, StopChecker, StartChecker
  <1>3. CASE ApplyConfig(u)
    <2>1. \A v \in Updaters : updating[v] \notin {"applied", "stopped"}
      BY <1>3 DEF ApplyConfig, CheckerInv, LockInv
    <2>2. /\ mu' = u /\ updating' = [updating EXCEPT ![u] = "applied"]
          /\ UNCHANGED <<interval, checkVars>>
      BY <1>3 DEF ApplyConfig
    <2>3. LockInv'
      BY <1>1, <2>1, <2>2 DEF LockInv
    <2>4. CancelInv'
      BY <1>1, <1>2, <2>1, <2>2 DEF CheckerInv, CancelInv, checkVars, Generations
    <2>5. IntervalInv'
      BY <1>1, <2>1, <2>2 DEF CheckerInv, IntervalInv, checkVars
    <2>6. QED
      BY <2>3, <2>4, <2>5 DEF CheckerInv
  <1>4. CASE KeepChecker(u)
    <2>1. updating[u] = "applied" /\ mu = u
      BY <1>4 DEF KeepChecker, CheckerInv, LockInv
    <2>2. \A v \in Updaters \ {u} : updating[v] \notin {"applied", "stopped"}
      BY <2>1 DEF CheckerInv, LockInv
    <2>3. /\ mu' = NoUpdater /\ updating' = [updating EXCEPT ![u] = "done"]
          /\ config.freq = interval
          /\ UNCHANGED <<config, interval, checkVars>>
      BY <1>4 DEF KeepChecker
    <2>4. LockInv'
      BY <1>1, <2>2, <2>3 DEF LockInv
    <2>5. CancelInv'
      BY <1>1, <1>2, <2>2, <2>3 DEF CheckerInv, CancelInv, checkVars, Generations
    <2>6. IntervalInv'
      BY <1>1, <2>1, <2>2, <2>3 DEF CheckerInv, IntervalInv, checkVars
    <2>7. QED
      BY <2>4, <2>5, <2>6 DEF CheckerInv
  <1>5. CASE StopChecker(u)
    <2>1. updating[u] = "applied" /\ mu = u
      BY <1>5 DEF StopChecker, CheckerInv, LockInv
    <2>2. \A v \in Updaters \ {u} : updating[v] \notin {"applied", "stopped"}
      BY <2>1 DEF CheckerInv, LockInv
    <2>3. /\ updating' = [updating EXCEPT ![u] = "stopped"]
          /\ interval' = config.freq
          /\ UNCHANGED <<config, mu, cancels>>
      BY <1>5 DEF StopChecker
    <2>4. /\ Generations' = Generations /\ Len(checkers') = Len(checkers)
          /\ \A h \in Generations : checkers[h].cancelled => checkers'[h].cancelled
          /\ checkers'[cancels].cancelled
      BY <1>5, CancelEffect DEF StopChecker
    <2>5. LockInv'
      BY <1>1, <2>1, <2>2, <2>3 DEF LockInv
    <2>6. CancelInv'
      BY <1>1, <1>2, <2>2, <2>3, <2>4 DEF CheckerInv, CancelInv
    <2>7. IntervalInv'
      BY <1>1, <2>3 DEF IntervalInv
    <2>8. QED
      BY <2>5, <2>6, <2>7 DEF CheckerInv
  <1>6. CASE StartChecker(u)
    <2>1. updating[u] = "stopped" /\ mu = u
      BY <1>6 DEF StartChecker, CheckerInv, LockInv
    <2>2. \A v \in Updaters \ {u} : updating[v] \notin {"applied", "stopped"}
      BY <2>1 DEF CheckerInv, LockInv
    <2>3. /\ mu' = NoUpdater /\ updating' = [updating EXCEPT ![u] = "done"]
          /\ UNCHANGED <<config, interval>>
      BY <1>6 DEF StartChecker
    <2>4. /\ Len(checkers) \in Nat /\ Len(checkers') = Len(checkers) + 1
          /\ Generations' = Generations \cup {Len(checkers) + 1}
          /\ \A h \in Generations : checkers'[h] = checkers[h]
          /\ checkers'[Len(checkers) + 1] = NewChecker
          /\ cancels' = Len(checkers')
      BY <1>6, StartEffect DEF CheckTypeOK
    <2>5. \A g \in Generations : checkers[g].cancelled
      BY <2>1 DEF CheckerInv, CancelInv
    <2>6. LockInv'
      BY <1>1, <2>2, <2>3 DEF LockInv
    <2>7. \A v \in Updaters : updating'[v] \notin {"applied", "stopped"}
      BY <1>1, <2>2, <2>3
    <2>8. CancelInv'
      <3>1. Len(checkers') # 1
        BY <1>2, <2>4 DEF Generations
      <3>2. QED
        BY <2>4, <2>5, <2>7, <3>1 DEF CancelInv
    <2>9. checkers'[cancels'].tick = 0
      BY <2>4 DEF NewChecker
    <2>10. interval' = config'.freq
      <3>1. \A v \in Updaters : updating[v] # "applied"
        BY <2>1, <2>2
      <3>2. QED
        BY <2>3, <3>1 DEF CheckerInv, IntervalInv
    <2>11. IntervalInv'
      BY <2>9, <2>10 DEF IntervalInv
    <2>12. QED
      BY <2>6, <2>8, <2>11 DEF CheckerInv
  <1>7. QED
    BY <1>3, <1>4, <1>5, <1>6 DEF UpdateConfig

\* Close cancels the last goroutine, and the rest leaves the checks alone.
LEMMA CloseKeepsChecker ==
    ASSUME CheckTypeOK, CheckerInv, NEW c \in Closers, Close(c)
    PROVE  CheckerInv'
  <1>1. CASE CancelCheck(c)
    <2>1. UNCHANGED <<configVars, cancels>>
      BY <1>1 DEF CancelCheck
    <2>2. /\ Generations' = Generations /\ Len(checkers') = Len(checkers)
          /\ \A h \in Generations :
               /\ checkers'[h].tick = checkers[h].tick
               /\ checkers[h].cancelled => checkers'[h].cancelled
          /\ checkers'[cancels].cancelled
      BY <1>1, CancelEffect DEF CancelCheck
    <2>3. cancels \in Generations
      BY DEF CheckTypeOK
    <2>4. LockInv'
      BY <2>1 DEF CheckerInv, LockInv, configVars
    <2>5. CancelInv'
      BY <2>1, <2>2, <2>3 DEF CheckerInv, CancelInv, configVars
    <2>6. IntervalInv'
      BY <2>1, <2>2, <2>3 DEF CheckerInv, IntervalInv, configVars
    <2>7. QED
      BY <2>4, <2>5, <2>6 DEF CheckerInv
  <1>2. CASE SeeDone(c) \/ StopWaiting(c) \/ CloseDB(c)
    <2>1. UNCHANGED <<configVars, checkVars>> /\ closing[c] # "idle"
      BY <1>2 DEF SeeDone, StopWaiting, CloseDB
    <2>2. \A d \in Closers : closing'[d] # "idle" => \E e \in Closers : closing[e] # "idle"
      BY <2>1
    <2>3. QED
      BY <2>1, <2>2 DEF CheckerInv, LockInv, CancelInv, IntervalInv, configVars, checkVars,
                  Generations
  <1>3. QED
    BY <1>1, <1>2 DEF Close

LEMMA StepChecker == TypeOK /\ CheckerInv /\ [Next]_vars => CheckerInv'
  <1> SUFFICES ASSUME TypeOK, CheckerInv, [Next]_vars PROVE CheckerInv'
    OBVIOUS
  <1> CheckTypeOK
    BY TypeParts
  <1>1. ASSUME NEW g \in Generations, Check(g) PROVE CheckerInv'
    BY <1>1, CheckKeepsChecker
  <1>2. ASSUME NEW u \in Updaters, UpdateConfig(u) PROVE CheckerInv'
    BY <1>2, UpdateKeepsChecker
  <1>3. ASSUME NEW c \in Closers, Close(c) PROVE CheckerInv'
    BY <1>3, CloseKeepsChecker
  <1>4. CASE UNCHANGED <<configVars, checkVars, closing>>
    BY <1>4 DEF CheckerInv, LockInv, CancelInv, IntervalInv, configVars, checkVars,
                Generations
  <1>5. ASSUME NEW w \in Warmers, Warm(w) PROVE UNCHANGED <<configVars, checkVars, closing>>
    BY <1>5 DEF Warm, Warmup, Obtain, Miss, GiveBack, Expire
  <1>6. CASE ServerChanges
    BY <1>4, <1>6 DEF ServerChanges
  <1>7. CASE UNCHANGED vars
    BY <1>4, <1>7 DEF vars
  <1>8. QED
    BY <1>1, <1>2, <1>3, <1>4, <1>5, <1>6, <1>7 DEF Next

\* At most one goroutine goes on checking, however updates and closes
\* interleave, and it is the one that cancelHealthCheck stops; a Close without a
\* restart has stopped it; between updates it ticks at the configured interval.
THEOREM OneCheckerCorrect == Spec => []OneChecker
  <1>1. TypeOK /\ CheckerInv => OneChecker
    <2> SUFFICES ASSUME TypeOK, CheckerInv PROVE OneChecker
      OBVIOUS
    <2>1. cancels = Len(checkers) /\ Len(checkers) \in Nat
      BY DEF CheckerInv, CancelInv, TypeOK
    <2>2. \A g \in Generations : g < Len(checkers) => checkers[g].cancelled
      BY <2>1 DEF CheckerInv, CancelInv
    <2>3. ASSUME mu = NoUpdater
          PROVE  checkers[Len(checkers)].tick \in {0, interval} /\ interval = config.freq
      <3>1. \A u \in Updaters : updating[u] \notin {"applied", "stopped"}
        BY <2>3 DEF CheckerInv, LockInv
      <3>2. QED
        BY <2>1, <3>1 DEF CheckerInv, IntervalInv
    <2>4. Len(checkers) = 1 /\ (\E c \in Closers : closing[c] # "idle")
            => checkers[1].cancelled
      BY <2>1 DEF CheckerInv, CancelInv
    <2>5. QED
      BY <2>1, <2>2, <2>3, <2>4 DEF OneChecker
  <1>2. QED
    BY InitType, StepType, InitChecker, StepChecker, <1>1, PTL DEF Spec

-----------------------------------------------------------------------------
(* The channel healthCheckDone.  A goroutine that ends closes it and stays  *)
(* ended; a process that crashed has two that ended.                        *)

Ended == {g \in Generations : checkers[g].at = "ended"}

DoneInv ==
    /\ doneClosed => Ended # {}
    /\ (\E c \in Closers : closing[c] = "stopped") => doneClosed
    /\ crashed => \E g, h \in Ended : g # h

LEMMA InitDone == Init => DoneInv
  <1> SUFFICES ASSUME Init PROVE DoneInv
    OBVIOUS
  <1>1. Generations = {1} /\ checkers[1].at = "starting"
    BY DEF Init, Generations, NewChecker
  <1>2. Ended = {}
    BY <1>1 DEF Ended
  <1>3. QED
    BY <1>2 DEF DoneInv, Init

\* A step after which the ended goroutines and the channel are the same, and
\* no Close has gone on.
LEMMA SameDone ==
    ASSUME DoneInv, Ended' = Ended, UNCHANGED <<doneClosed, crashed>>,
           \A c \in Closers : closing'[c] = "stopped" => closing[c] = "stopped"
    PROVE  DoneInv'
  BY DEF DoneInv

\* What a checking goroutine does: it ends at most once.
LEMMA CheckKeepsDone ==
    ASSUME TypeOK, DoneInv, ~crashed, NEW g \in Generations, Check(g)
    PROVE  DoneInv'
  <1> CheckTypeOK
    BY TypeParts
  <1>1. closing' = closing
    BY DEF Check, NewTicker, PingStarts, PingRefused, PingEnds, Record, CheckerEnds
  <1>2. CASE NewTicker(g)
    <2> DEFINE e == [checkers[g] EXCEPT !.at = "waiting", !.tick = interval]
    <2>1. checkers[g] \in CheckerRecords /\ interval \in Nat
      BY ElementOfSeq DEF CheckTypeOK, Generations
    <2>2. e \in CheckerRecords /\ e.at = "waiting"
      BY <2>1 DEF CheckerRecords
    <2>3. checkers' = [checkers EXCEPT ![g] = e] /\ checkers[g].at = "starting"
      BY <1>2 DEF NewTicker, Checker
    <2> HIDE DEF e
    <2>4. /\ Generations' = Generations
          /\ \A h \in Generations :
               checkers'[h] = IF h = g THEN e ELSE checkers[h]
      BY <2>2, <2>3, OneChanges DEF CheckTypeOK
    <2>5. Ended' = Ended
      BY <2>2, <2>3, <2>4 DEF Ended
    <2>6. UNCHANGED <<doneClosed, crashed>>
      BY <1>2 DEF NewTicker
    <2>7. QED
      BY <1>1, <2>5, <2>6, SameDone
  <1>3. ASSUME PingStarts(g) \/ PingRefused(g) \/ PingEnds(g) \/ Record(g)
        PROVE  DoneInv'
    <2>1. PICK from \in {"waiting", "pinging", "answered", "failed"},
               to \in {"waiting", "pinging", "answered", "failed"} :
                 Checker(g, from) /\ ToCheck(g, to)
      BY <1>3 DEF PingStarts, PingRefused, PingEnds, Record
    <2>2. /\ Generations' = Generations /\ checkers[g].at = from
          /\ \A h \in Generations :
               checkers'[h].at = IF h = g THEN to ELSE checkers[h].at
      BY <2>1, CheckerMoves
    <2>3. Ended' = Ended
      BY <2>2 DEF Ended
    <2>4. UNCHANGED <<doneClosed, crashed>>
      BY <1>3 DEF PingStarts, PingRefused, PingEnds, Record
    <2>5. QED
      BY <1>1, <2>3, <2>4, SameDone
  <1>4. CASE CheckerEnds(g)
    <2>1. Checker(g, "waiting") /\ ToCheck(g, "ended")
      BY <1>4 DEF CheckerEnds
    <2>2. /\ Generations' = Generations /\ checkers[g].at = "waiting"
          /\ \A h \in Generations :
               checkers'[h].at = IF h = g THEN "ended" ELSE checkers[h].at
      BY <2>1, CheckerMoves
    <2>3. Ended' = Ended \cup {g} /\ g \notin Ended
      BY <2>2 DEF Ended
    <2>4. doneClosed' = TRUE /\ (crashed' <=> doneClosed)
      BY <1>4, Zenon DEF CheckerEnds
    <2>5. crashed' => \E a, b \in Ended' : a # b
      <3>1. ASSUME crashed' PROVE \E a, b \in Ended' : a # b
        <4>1. PICK h \in Ended : TRUE
          BY <2>4, <3>1 DEF DoneInv
        <4>2. h \in Ended' /\ g \in Ended' /\ h # g
          BY <2>3, <4>1
        <4>3. QED
          BY <4>2
      <3>2. QED
        BY <3>1
    <2>6. QED
      BY <1>1, <2>3, <2>4, <2>5 DEF DoneInv
  <1>5. QED
    BY <1>2, <1>3, <1>4 DEF Check

\* A new goroutine has not ended, and a cancelled one not yet.
LEMMA UpdateKeepsDone ==
    ASSUME TypeOK, DoneInv, NEW u \in Updaters, UpdateConfig(u)
    PROVE  DoneInv'
  <1> CheckTypeOK
    BY TypeParts
  <1>1. UNCHANGED <<doneClosed, crashed, closing>>
    BY DEF UpdateConfig, ApplyConfig, KeepChecker, StopChecker, StartChecker, checkVars
  <1>2. Ended' = Ended
    <2>1. CASE ApplyConfig(u) \/ KeepChecker(u)
      BY <2>1 DEF ApplyConfig, KeepChecker, checkVars, Ended, Generations
    <2>2. CASE StopChecker(u)
      BY <2>2, CancelEffect DEF StopChecker, Ended
    <2>3. CASE StartChecker(u)
      <3>1. /\ Generations' = Generations \cup {Len(checkers) + 1}
            /\ \A h \in Generations : checkers'[h] = checkers[h]
            /\ checkers'[Len(checkers) + 1] = NewChecker
        BY <2>3, StartEffect
      <3>2. NewChecker.at # "ended"
        BY DEF NewChecker
      <3>3. QED
        BY <3>1, <3>2 DEF Ended
    <2>4. QED
      BY <2>1, <2>2, <2>3 DEF UpdateConfig
  <1>3. QED
    BY <1>1, <1>2, SameDone

\* A Close that goes on because of the channel has seen it closed.
LEMMA CloseKeepsDone ==
    ASSUME TypeOK, DoneInv, NEW c \in Closers, Close(c)
    PROVE  DoneInv'
  <1> CheckTypeOK /\ CallTypeOK
    BY TypeParts
  <1>1. UNCHANGED <<doneClosed, crashed>>
    BY DEF Close, CancelCheck, SeeDone, StopWaiting, CloseDB, checkVars
  <1>2. Ended' = Ended
    <2>1. CASE CancelCheck(c)
      BY <2>1, CancelEffect DEF CancelCheck, Ended
    <2>2. CASE SeeDone(c) \/ StopWaiting(c) \/ CloseDB(c)
      BY <2>2 DEF SeeDone, StopWaiting, CloseDB, checkVars, Ended, Generations
    <2>3. QED
      BY <2>1, <2>2 DEF Close
  <1>3. CASE SeeDone(c)
    BY <1>1, <1>2, <1>3 DEF SeeDone, DoneInv
  <1>4. CASE CancelCheck(c) \/ StopWaiting(c) \/ CloseDB(c)
    <2>1. \A d \in Closers : closing'[d] = "stopped" => closing[d] = "stopped"
      BY <1>4 DEF CancelCheck, StopWaiting, CloseDB, CallTypeOK
    <2>2. QED
      BY <1>1, <1>2, <2>1, SameDone
  <1>5. QED
    BY <1>3, <1>4 DEF Close

LEMMA StepDone == TypeOK /\ DoneInv /\ [Next]_vars => DoneInv'
  <1> SUFFICES ASSUME TypeOK, DoneInv, [Next]_vars PROVE DoneInv'
    OBVIOUS
  <1>1. ASSUME ~crashed, NEW g \in Generations, Check(g) PROVE DoneInv'
    BY <1>1, CheckKeepsDone
  <1>2. ASSUME NEW u \in Updaters, UpdateConfig(u) PROVE DoneInv'
    BY <1>2, UpdateKeepsDone
  <1>3. ASSUME NEW c \in Closers, Close(c) PROVE DoneInv'
    BY <1>3, CloseKeepsDone
  <1>4. CASE UNCHANGED <<checkVars, closing, crashed>>
    <2>1. Ended' = Ended
      BY <1>4 DEF Ended, Generations, checkVars
    <2>2. QED
      BY <1>4, <2>1, SameDone DEF checkVars
  <1>5. ASSUME NEW w \in Warmers, Warm(w) PROVE UNCHANGED <<checkVars, closing, crashed>>
    BY <1>5 DEF Warm, Warmup, Obtain, Miss, GiveBack, Expire
  <1>6. CASE ServerChanges
    BY <1>4, <1>6 DEF ServerChanges
  <1>7. CASE UNCHANGED vars
    BY <1>4, <1>7 DEF vars
  <1>8. QED
    BY <1>1, <1>2, <1>3, <1>4, <1>5, <1>6, <1>7 DEF Next

\* Without a restart of the checks nothing panics, and a Close that has seen
\* the channel closed finds the goroutine over.
THEOREM CloseOrderlyCorrect == Spec => []CloseOrderly
  <1>1. TypeOK /\ DoneInv => CloseOrderly
    <2> SUFFICES ASSUME TypeOK, DoneInv, Len(checkers) = 1
                 PROVE  /\ ~crashed
                        /\ (\E c \in Closers : closing[c] = "stopped")
                             => checkers[1].at = "ended"
      BY DEF CloseOrderly
    <2>1. Generations = {1}
      BY DEF Generations
    <2>2. Ended \subseteq {1} /\ (1 \in Ended => checkers[1].at = "ended")
      BY <2>1 DEF Ended
    <2>3. QED
      BY <2>2 DEF DoneInv
  <1>2. QED
    BY InitType, StepType, InitDone, StepDone, <1>1, PTL DEF Spec

-----------------------------------------------------------------------------
\* GetOptimalPoolSize: with at most 98 connections in use, and no more than the
\* pool may have, the minimum is at most the maximum.
LEMMA SizesOrdered ==
    ASSUME NEW n \in Nat, NEW open \in Nat \ {0}, NEW waits \in BOOLEAN,
           n <= open, n <= 98
    PROVE  OptimalPoolSize(n, waits, open).min <= OptimalPoolSize(n, waits, open).max
  <1>1. CASE waits
    <2>1. OptimalPoolSize(n, waits, open)
            = [min |-> Larger(n + 2, 2), max |-> Larger(Smaller(open * 2, 100), 5)]
      BY <1>1 DEF OptimalPoolSize
    <2>2. n + 2 <= Larger(Smaller(open * 2, 100), 5)
      BY DEF Larger, Smaller
    <2>3. QED
      BY <2>1, <2>2 DEF Larger, Smaller
  <1>2. CASE ~waits
    <2> DEFINE least == Larger(n, 2)
               most  == Larger(least + 2, open \div 2)
    <2>1. OptimalPoolSize(n, waits, open)
            = [min |-> Larger(least, 2), max |-> Larger(most, 5)]
      BY <1>2 DEF OptimalPoolSize
    <2>2. least \in Nat /\ 2 <= least /\ open \div 2 \in Int
      BY DEF Larger
    <2>3. most \in Int /\ least <= most
      <3> HIDE DEF least
      <3> QED BY <2>2 DEF Larger
    <2>4. Larger(least, 2) <= Larger(most, 5)
      <3> HIDE DEF least, most
      <3> QED BY <2>2, <2>3 DEF Larger
    <2>5. QED
      BY <2>1, <2>4
  <1>3. QED
    BY <1>1, <1>2

\* Warmups and pings are finitely many, and each warmup holds finitely many
\* connections.
LEMMA InUseType ==
    ASSUME TypeOK
    PROVE  InUse \in Nat
  <1> DEFINE of(w) == {w} \X (1 .. held[w])
  <1>1. \A w \in Warmers : IsFiniteSet(of(w))
    <2> TAKE w \in Warmers
    <2>1. held[w] \in Nat
      BY DEF TypeOK
    <2>2. IsFiniteSet(1 .. held[w])
      BY <2>1, FS_Interval
    <2>3. IsFiniteSet({w})
      BY FS_Singleton
    <2>4. QED
      BY <2>2, <2>3, FS_Product, Zenon
  <1> DEFINE parts == {of(w) : w \in Warmers}
  <1>2. IsFiniteSet(parts)
    <2>1. IsFiniteSet(Warmers)
      BY PoolAssumption DEF PoolAssumption
    <2> HIDE DEF of
    <2>2. [w \in Warmers |-> of(w)] \in Surjection(Warmers, parts)
      BY DEF Surjection
    <2>3. QED
      BY <2>1, <2>2, FS_Surjection
  <1>3. \A p \in parts : IsFiniteSet(p)
    BY <1>1
  <1>4. IsFiniteSet(Held)
    <2>1. IsFiniteSet(UNION parts)
      <3> HIDE DEF parts
      <3>1. QED
        BY <1>2, <1>3, FS_UNION
    <2>2. QED
      BY <2>1 DEF Held
  <1>5. IsFiniteSet(Pinging)
    <2>1. Len(checkers) \in Nat
      BY DEF TypeOK
    <2>2. IsFiniteSet(1 .. Len(checkers)) /\ Pinging \subseteq 1 .. Len(checkers)
      BY <2>1, FS_Interval DEF Pinging, Generations
    <2>3. QED
      BY <2>2, FS_Subset
  <1>6. QED
    BY <1>4, <1>5, FS_CardinalityType DEF InUse

\* The sizes are ordered in every state: GetOptimalPoolSize proposes a minimum
\* above its maximum only when more connections are in use than the pool may
\* have, or more than 98.
THEOREM PoolSizesCorrect == Spec => []PoolSizesOrdered
  <1>1. TypeOK => PoolSizesOrdered
    <2> SUFFICES ASSUME TypeOK, InUse <= Smaller(config.open, 98),
                        NEW waits \in BOOLEAN
                 PROVE  OptimalPoolSize(InUse, waits, config.open).min
                          <= OptimalPoolSize(InUse, waits, config.open).max
      BY DEF PoolSizesOrdered
    <2>1. config.open \in Nat \ {0} /\ InUse \in Nat
      BY InUseType DEF TypeOK
    <2>2. InUse <= config.open /\ InUse <= 98
      BY <2>1 DEF Smaller
    <2>3. QED
      BY <2>1, <2>2, SizesOrdered
  <1>2. QED
    BY <1>1, PoolTypeCorrect, PTL

=============================================================================
