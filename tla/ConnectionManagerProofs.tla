----------------------- MODULE ConnectionManagerProofs -----------------------
(***************************************************************************)
(* Proofs about ConnectionManager, for every value of its constants: as    *)
(* long as calls have not overlapped, what is open is known at every stage *)
(* of the one call that is under way (Kept).                               *)
(***************************************************************************)
EXTENDS ConnectionManager, TLAPS

USE HandlesAssumption DEF HandlesAssumption

\* A pair is in the making.
Making == {"pingConn", "pingDb", "storeDb", "storeConn"}

-----------------------------------------------------------------------------
(* Types *)

\* A step that moves a user and leaves the pairs in the making keeps the types,
\* unless it ends or begins a making.
LEMMA TypeMove ==
    ASSUME TypeOK, NEW c \in Users, NEW to \in Stages,
           at' = [at EXCEPT ![c] = to],
           UNCHANGED <<made, using, serverUp>>,
           {db', conn'} \subseteq Handles,
           openDbs' \subseteq Handles, openConns' \subseteq Handles,
           over' \subseteq Reconnecters, alone' \in BOOLEAN,
           c \in Reconnecters => (to \in Making <=> at[c] \in Making)
    PROVE  TypeOK'
  BY DEF TypeOK, Making, Users

\* A user that makes a pair has it.
LEMMA MadeHandle ==
    ASSUME TypeOK, NEW c \in Reconnecters, at[c] \in Making
    PROVE  made[c] \in Handles
  BY DEF TypeOK, Making

\* The stages that are named in the actions are stages.
LEMMA StageNames ==
    /\ Returned \subseteq Stages /\ Returned \cap Making = {}
    /\ {"checkConn", "checkDb", "closeDb", "closeConn", "open"} \subseteq Stages
    /\ {"checkConn", "checkDb", "closeDb", "closeConn", "open"} \cap Making = {}
    /\ {"ok", "failed", "idle"} = Returned /\ Making \subseteq Stages
  BY DEF Stages, Returned, Making

\* A health check, its begin or that of a Close, and the closing keep the types.
LEMMA TypeChecks ==
    ASSUME TypeOK, NEW c \in Users,
           \/ ReconnectIfNeeded(c) \/ CheckConn(c) \/ CheckDb(c)
           \/ Close(c) \/ CloseDb(c) \/ CloseConn(c)
    PROVE  TypeOK'
  <1>1. CASE ReconnectIfNeeded(c) \/ Close(c)
    <2>1. PICK to \in {"checkConn", "closeDb"} : Begin(c, to)
      BY <1>1 DEF ReconnectIfNeeded, Close
    <2>2. at[c] \in Returned
      BY <1>1, StageNames DEF ReconnectIfNeeded, Close
    <2>3. alone' \in BOOLEAN /\ over' = over
      BY <2>1 DEF Begin
    <2>4. QED
      BY <2>1, <2>2, <2>3, TypeMove, StageNames
         DEF Begin, TypeOK, fieldVars, openVars
  <1>2. CASE CheckConn(c) \/ CheckDb(c)
    <2>1. PICK to \in {"ok", "checkDb", "closeDb"} : at' = [at EXCEPT ![c] = to]
      BY <1>2 DEF CheckConn, CheckDb, Go
    <2>2. at[c] \in {"checkConn", "checkDb"}
      BY <1>2 DEF CheckConn, CheckDb, Go
    <2>3. /\ UNCHANGED <<db, conn, openDbs, openConns, made, using, serverUp, alone>>
          /\ over' \subseteq over
      BY <1>2 DEF CheckConn, CheckDb, fieldVars, openVars
    <2>4. QED
      BY <2>1, <2>2, <2>3, TypeMove, StageNames DEF TypeOK
  <1>3. CASE CloseDb(c) \/ CloseConn(c)
    <2>1. PICK to \in {"ok", "closeConn", "open"} : at' = [at EXCEPT ![c] = to]
      BY <1>3 DEF CloseDb, CloseConn, Go
    <2>2. at[c] \in {"closeDb", "closeConn"}
      BY <1>3 DEF CloseDb, CloseConn, Go
    <2>3. /\ UNCHANGED <<db, conn, made, using, serverUp, over, alone>>
          /\ openDbs' \subseteq openDbs /\ openConns' \subseteq openConns
      BY <1>3 DEF CloseDb, CloseConn, fieldVars
    <2>4. QED
      BY <2>1, <2>2, <2>3, TypeMove, StageNames DEF TypeOK
  <1>4. QED
    BY <1>1, <1>2, <1>3

\* The making and the storing of a pair keep the types.
LEMMA TypeMaking ==
    ASSUME TypeOK, NEW c \in Reconnecters,
           \/ Open(c) \/ PingConn(c) \/ PingDb(c) \/ GiveUp(c)
           \/ StoreDb(c) \/ StoreConn(c)
    PROVE  TypeOK'
  <1>u. c \in Users
    BY DEF Users
  <1>1. CASE Open(c)
    <2>1. Unknown \in Handles
      BY <1>1 DEF Open, Unknown
    <2>2. QED
      BY <1>1, <2>1, <1>u, StageNames DEF Open, Go, TypeOK, Making, fieldVars
  <1>2. CASE PingConn(c) \/ PingDb(c) \/ StoreDb(c)
    <2>1. PICK to \in {"pingDb", "storeDb", "storeConn"} : at' = [at EXCEPT ![c] = to]
      BY <1>2 DEF PingConn, PingDb, StoreDb, Go
    <2>2. at[c] \in Making
      BY <1>2 DEF PingConn, PingDb, StoreDb, Go, Making
    <2>3. made[c] \in Handles
      BY <2>2, MadeHandle
    <2>4. /\ UNCHANGED <<made, using, serverUp, over, alone, conn, openConns>>
          /\ db' \in {db, made[c]} /\ openDbs' \subseteq openDbs \cup {made[c]}
      BY <1>2 DEF PingConn, PingDb, StoreDb, fieldVars, openVars
    <2>5. to \in Making /\ to \in Stages
      BY <2>1 DEF Making, Stages
    <2>6. QED
      BY <1>u, <2>1, <2>2, <2>3, <2>4, <2>5, TypeMove DEF TypeOK
  <1>3. CASE GiveUp(c)
    BY <1>3, <1>u, StageNames DEF GiveUp, TypeOK, Making, fieldVars
  <1>4. CASE StoreConn(c)
    <2>1. made[c] \in Handles
      BY <1>4, MadeHandle DEF StoreConn, Go, Making
    <2>2. QED
      BY <1>4, <2>1, <1>u, StageNames DEF StoreConn, Go, TypeOK, Making, openVars
  <1>5. QED
    BY <1>1, <1>2, <1>3, <1>4

\* Every step keeps the types.
LEMMA TypeStep == TypeOK /\ [Next]_vars => TypeOK'
  <1> SUFFICES ASSUME TypeOK, [Next]_vars PROVE TypeOK'
    OBVIOUS
  <1>1. ASSUME NEW c \in Reconnecters, Reconnect(c) PROVE TypeOK'
    BY <1>1, TypeChecks, TypeMaking DEF Reconnect, Users
  <1>c. ASSUME NEW c \in Reconnecters, ContextEnds(c) PROVE TypeOK'
    BY <1>c DEF ContextEnds, TypeOK, fieldVars, openVars
  <1>2. ASSUME NEW c \in Closers, Close(c) \/ CloseDb(c) \/ CloseConn(c) PROVE TypeOK'
    BY <1>2, TypeChecks DEF Users
  <1>3. ASSUME NEW q \in Queries, GetDB(q) \/ Answer(q) PROVE TypeOK'
    BY <1>3 DEF GetDB, Answer, TypeOK, fieldVars, openVars
  <1>4. CASE ServerChanges
    BY <1>4 DEF ServerChanges, TypeOK, fieldVars, openVars
  <1>5. CASE UNCHANGED vars
    BY <1>5 DEF vars, TypeOK, fieldVars, openVars
  <1>6. QED
    BY <1>1, <1>2, <1>3, <1>4, <1>5, <1>c DEF Next

\* NewConnectionManager leaves everything typed.
LEMMA TypeInit == Init => TypeOK
  <1> SUFFICES ASSUME Init PROVE TypeOK
    OBVIOUS
  <1>1. /\ {db, conn} \subseteq Handles
        /\ openDbs \subseteq Handles /\ openConns \subseteq Handles
        /\ over = {} /\ serverUp \in BOOLEAN /\ alone \in BOOLEAN
    BY DEF Init
  <1>2. at \in [Users -> Stages] /\ made \in [Reconnecters -> Handles \cup {NoHandle}]
    BY DEF Init, Stages, Returned
  <1>3. using \in [Queries -> Handles \cup {NoHandle}]
    BY DEF Init
  <1>4. \A c \in Reconnecters : made[c] = NoHandle /\ at[c] = "idle"
    BY DEF Init, Users
  <1>5. QED
    BY <1>1, <1>2, <1>3, <1>4 DEF TypeOK

\* Every variable of the connection manager keeps its type.
THEOREM ManagerTypeCorrect == Spec => []TypeOK
  BY TypeInit, TypeStep, PTL DEF Spec

-----------------------------------------------------------------------------
(* What a call that is alone keeps *)

\* Nobody is at work: what is open is stored, and of one making.
Quiet == openDbs \subseteq {db} /\ openConns \subseteq {conn} /\ db = conn

\* What is open while the call of c, alone, is at each of its stages.
StageOK(c) ==
    /\ at[c] \in {"checkConn", "closeDb"} => Quiet
    /\ at[c] = "checkDb" => Quiet /\ conn \in openConns
    /\ at[c] = "closeConn" => Quiet /\ openDbs = {}
    /\ at[c] = "open" => Quiet /\ openDbs = {} /\ openConns = {}
    /\ at[c] = "pingConn" => openDbs = {} /\ openConns = {made[c]} /\ db = conn
    /\ at[c] = "pingDb" => openDbs = {made[c]} /\ openConns = {made[c]} /\ db = conn
    /\ at[c] = "storeDb" => openDbs = {made[c]} /\ openConns = {made[c]}
    /\ at[c] = "storeConn" => openDbs = {made[c]} /\ openConns = {made[c]} /\ db = made[c]

\* At most one call is under way.
OneAtWork == \A c, d \in Users : at[c] \notin Returned /\ at[d] \notin Returned => c = d

\* A Close makes no pair.
ClosersClose == \A c \in Closers : at[c] \in Returned \cup {"closeDb", "closeConn"}

Kept ==
    /\ ClosersClose
    /\ alone => /\ OneAtWork
                /\ (\A c \in Users : at[c] \in Returned) => Quiet
                /\ \A c \in Users : StageOK(c)

\* The call of c, which is alone, moves: it only has to keep what its next stage
\* says.
LEMMA KeptMove ==
    ASSUME TypeOK, NEW c \in Users, NEW to \in Stages,
           at' = [at EXCEPT ![c] = to], ClosersClose',
           alone' => /\ \A d \in Users \ {c} : at[d] \in Returned
                     /\ to \in Returned => Quiet'
                     /\ StageOK(c)'
    PROVE  Kept'
  <1> SUFFICES ASSUME alone'
               PROVE  /\ OneAtWork'
                      /\ (\A d \in Users : at'[d] \in Returned) => Quiet'
                      /\ \A d \in Users : StageOK(d)'
    BY DEF Kept
  <1>1. at'[c] = to /\ \A d \in Users \ {c} : at'[d] = at[d] /\ at'[d] \in Returned
    BY DEF TypeOK
  <1>2. OneAtWork'
    BY <1>1 DEF OneAtWork
  <1>3. ASSUME NEW d \in Users PROVE StageOK(d)'
    <2>1. CASE d = c
      BY <2>1
    <2>2. CASE d # c
      <3>1. at'[d] \in {"idle", "ok", "failed"}
        BY <1>1, <2>2 DEF Returned
      <3>2. QED
        BY <3>1 DEF StageOK
    <2>3. QED
      BY <2>1, <2>2
  <1>4. QED
    BY <1>1, <1>2, <1>3

\* While a call is under way and none has overlapped, the others have returned.
LEMMA OthersReturned ==
    ASSUME Kept, alone, NEW c \in Users, at[c] \notin Returned
    PROVE  StageOK(c) /\ \A d \in Users \ {c} : at[d] \in Returned
  BY DEF Kept, OneAtWork

\* A user that is no closer, or goes to a stage of Close, leaves closers as they are.
LEMMA ClosersMove ==
    ASSUME TypeOK, Kept, NEW c \in Users, NEW to,
           at' = [at EXCEPT ![c] = to],
           c \in Reconnecters \/ to \in Returned \cup {"closeDb", "closeConn"}
    PROVE  ClosersClose'
  BY DEF Kept, ClosersClose, TypeOK, Users

\* A call that begins alone finds everything quiet.
LEMMA KeptBegin ==
    ASSUME TypeOK, Kept, NEW c \in Users, ReconnectIfNeeded(c) \/ Close(c)
    PROVE  Kept'
  <1>1. PICK to \in {"checkConn", "closeDb"} :
            Begin(c, to) /\ (c \in Reconnecters \/ to = "closeDb")
    BY DEF ReconnectIfNeeded, Close
  <1>2. at[c] \in Returned /\ to \in Stages
    BY <1>1, StageNames DEF ReconnectIfNeeded, Close
  <1>3. ClosersClose'
    BY <1>1, ClosersMove DEF Begin
  <1>4. ASSUME alone'
        PROVE  /\ \A d \in Users \ {c} : at[d] \in Returned
               /\ Quiet' /\ StageOK(c)'
    <2>1. alone /\ \A d \in Users \ {c} : at[d] \in Returned
      BY <1>1, <1>4 DEF Begin
    <2>2. Quiet'
      BY <1>1, <1>2, <2>1 DEF Kept, Begin, Quiet, fieldVars, openVars
    <2>3. at'[c] = to
      BY <1>1 DEF Begin, TypeOK
    <2>4. QED
      BY <2>1, <2>2, <2>3 DEF StageOK
  <1>5. QED
    BY <1>1, <1>2, <1>3, <1>4, KeptMove DEF Begin

\* A health check, and the closing of what is stored, keep it.
LEMMA KeptChecks ==
    ASSUME TypeOK, Kept, NEW c \in Users,
           (c \in Reconnecters /\ (CheckConn(c) \/ CheckDb(c)))
             \/ CloseDb(c) \/ CloseConn(c)
    PROVE  Kept'
  <1>1. PICK to \in {"ok", "checkDb", "closeDb", "closeConn", "open"} :
            /\ at' = [at EXCEPT ![c] = to]
            /\ c \in Reconnecters \/ to \in {"ok", "closeConn"}
    BY DEF CheckConn, CheckDb, CloseDb, CloseConn, Go
  <1>2. to \in Stages /\ at'[c] = to /\ at[c] \notin Returned
        /\ alone' = alone /\ made' = made
    BY <1>1, StageNames DEF CheckConn, CheckDb, CloseDb, CloseConn, Go, TypeOK, Returned
  <1>3. ClosersClose'
    BY <1>1, ClosersMove, StageNames
  <1>4. ASSUME alone
        PROVE  /\ \A d \in Users \ {c} : at[d] \in Returned
               /\ to \in Returned => Quiet'
               /\ StageOK(c)'
    <2>1. StageOK(c) /\ \A d \in Users \ {c} : at[d] \in Returned
      BY <1>2, <1>4, OthersReturned
    <2>2. CASE CheckConn(c)
      BY <1>2, <2>1, <2>2, StageNames
         DEF CheckConn, Go, StageOK, Quiet, fieldVars, openVars, TypeOK
    <2>3. CASE CheckDb(c)
      BY <1>2, <2>1, <2>3 DEF CheckDb, Go, StageOK, Quiet, fieldVars, openVars, TypeOK
    <2>4. CASE CloseDb(c)
      BY <1>2, <2>1, <2>4 DEF CloseDb, Go, StageOK, Quiet, fieldVars, TypeOK, Returned
    <2>5. CASE CloseConn(c)
      BY <1>2, <2>1, <2>5 DEF CloseConn, Go, StageOK, Quiet, fieldVars, TypeOK
    <2>6. QED
      BY <2>1, <2>2, <2>3, <2>4, <2>5
  <1>5. QED
    BY <1>1, <1>2, <1>3, <1>4, KeptMove

\* The making of a pair, its storing, and the closing of what was opened keep it.
LEMMA KeptMaking ==
    ASSUME TypeOK, Kept, NEW c \in Reconnecters,
           \/ Open(c) \/ PingConn(c) \/ PingDb(c) \/ GiveUp(c)
           \/ StoreDb(c) \/ StoreConn(c)
    PROVE  Kept'
  <1>u. c \in Users
    BY DEF Users
  <1>1. PICK to \in {"pingConn", "pingDb", "failed", "storeDb", "storeConn", "ok"} :
            at' = [at EXCEPT ![c] = to]
    BY DEF Open, PingConn, PingDb, GiveUp, StoreDb, StoreConn, Go
  <1>2. to \in Stages /\ at'[c] = to /\ alone' = alone
    BY <1>1, <1>u DEF Open, PingConn, PingDb, GiveUp, StoreDb, StoreConn, TypeOK, Stages,
                      Returned
  <1>3. at[c] \notin Returned
    BY DEF Open, PingConn, PingDb, GiveUp, StoreDb, StoreConn, Go, Returned
  <1>4. ClosersClose'
    BY <1>1, <1>u, ClosersMove
  <1>5. ASSUME alone
        PROVE  /\ \A d \in Users \ {c} : at[d] \in Returned
               /\ to \in Returned => Quiet'
               /\ StageOK(c)'
    <2>1. StageOK(c) /\ \A d \in Users \ {c} : at[d] \in Returned
      BY <1>u, <1>3, <1>5, OthersReturned
    <2>2. CASE Open(c)
      BY <1>2, <2>1, <2>2 DEF Open, Go, StageOK, Quiet, fieldVars, TypeOK, Returned
    <2>3. CASE PingConn(c)
      <3>1. /\ to = "pingDb" /\ made' = made /\ openConns' = openConns
            /\ openDbs' = openDbs \cup {made[c]} /\ db' = db /\ conn' = conn
        BY <1>2, <1>u, <2>3 DEF PingConn, Go, fieldVars, TypeOK
      <3>2. openDbs = {} /\ openConns = {made[c]} /\ db = conn
        BY <2>1, <2>3 DEF PingConn, StageOK
      <3>3. StageOK(c)'
        BY <1>2, <3>1, <3>2 DEF StageOK
      <3>4. QED
        BY <2>1, <3>1, <3>3 DEF Returned
    <2>4. CASE PingDb(c)
      BY <1>2, <2>1, <2>4 DEF PingDb, Go, StageOK, fieldVars, openVars, TypeOK, Returned
    <2>5. CASE GiveUp(c)
      <3>1. /\ to = "failed" /\ openDbs' = openDbs \ {made[c]}
            /\ openConns' = openConns \ {made[c]} /\ db' = db /\ conn' = conn
        BY <1>2, <1>u, <2>5 DEF GiveUp, fieldVars, TypeOK
      <3>2. openDbs \subseteq {made[c]} /\ openConns \subseteq {made[c]} /\ db = conn
        BY <2>1, <2>5 DEF GiveUp, StageOK
      <3>3. Quiet'
        BY <3>1, <3>2 DEF Quiet
      <3>4. StageOK(c)'
        BY <1>2, <3>1 DEF StageOK
      <3>5. QED
        BY <2>1, <3>3, <3>4
    <2>6. CASE StoreDb(c)
      BY <1>2, <2>1, <2>6 DEF StoreDb, Go, StageOK, openVars, TypeOK, Returned
    <2>7. CASE StoreConn(c)
      <3>1. /\ to = "ok" /\ openDbs' = openDbs /\ openConns' = openConns
            /\ db' = db /\ conn' = made[c]
        BY <1>2, <1>u, <2>7 DEF StoreConn, Go, openVars, TypeOK
      <3>2. openDbs = {made[c]} /\ openConns = {made[c]} /\ db = made[c]
        BY <2>1, <2>7 DEF StoreConn, Go, StageOK
      <3>3. Quiet'
        BY <3>1, <3>2 DEF Quiet
      <3>4. StageOK(c)'
        BY <1>2, <3>1 DEF StageOK
      <3>5. QED
        BY <2>1, <3>3, <3>4
    <2>8. QED
      BY <2>1, <2>2, <2>3, <2>4, <2>5, <2>6, <2>7
  <1>6. QED
    BY <1>u, <1>1, <1>2, <1>4, <1>5, KeptMove

\* What is no step of a call leaves it alone.
LEMMA KeptSame ==
    ASSUME Kept, UNCHANGED <<fieldVars, openVars, at, made, alone>>
    PROVE  Kept'
  <1>1. /\ ClosersClose' = ClosersClose /\ OneAtWork' = OneAtWork /\ Quiet' = Quiet
        /\ \A c \in Users : StageOK(c)' = StageOK(c)
    BY DEF ClosersClose, OneAtWork, Quiet, StageOK, fieldVars, openVars
  <1>2. QED
    BY <1>1 DEF Kept

\* Every step keeps it.
LEMMA KeptStep == TypeOK /\ Kept /\ [Next]_vars => Kept'
  <1> SUFFICES ASSUME TypeOK, Kept, [Next]_vars PROVE Kept'
    OBVIOUS
  <1>1. ASSUME NEW c \in Reconnecters, Reconnect(c) PROVE Kept'
    <2>1. c \in Users
      BY DEF Users
    <2>2. QED
      BY <1>1, <2>1, KeptBegin, KeptChecks, KeptMaking DEF Reconnect
  <1>2. ASSUME NEW c \in Closers, Close(c) \/ CloseDb(c) \/ CloseConn(c) PROVE Kept'
    <2>1. c \in Users
      BY DEF Users
    <2>2. QED
      BY <1>2, <2>1, KeptBegin, KeptChecks
  <1>3. ASSUME NEW q \in Queries, GetDB(q) \/ Answer(q) PROVE Kept'
    BY <1>3, KeptSame DEF GetDB, Answer
  <1>c. ASSUME NEW c \in Reconnecters, ContextEnds(c) PROVE Kept'
    BY <1>c, KeptSame DEF ContextEnds
  <1>4. CASE ServerChanges
    BY <1>4, KeptSame DEF ServerChanges
  <1>5. CASE UNCHANGED vars
    BY <1>5, KeptSame DEF vars
  <1>6. QED
    BY <1>1, <1>2, <1>3, <1>4, <1>5, <1>c DEF Next

\* At first nobody is at work.
LEMMA KeptInit == Init => Kept
  <1> SUFFICES ASSUME Init PROVE Kept
    OBVIOUS
  <1>1. \A c \in Users : at[c] = "idle"
    BY DEF Init
  <1>2. Quiet
    BY DEF Init, Quiet
  <1>3. QED
    BY <1>1, <1>2 DEF Kept, ClosersClose, OneAtWork, StageOK, Returned, Users

\* The inductive invariant always holds.
LEMMA KeptAlways == Spec => [](TypeOK /\ Kept)
  BY TypeInit, TypeStep, KeptInit, KeptStep, PTL DEF Spec

-----------------------------------------------------------------------------
(* The properties *)

\* As long as no two calls have overlapped, what is open is stored or in the
\* hand of the call that opened it, and the two stored ones are of one making.
THEOREM NothingLeaksCorrect == Spec => []NothingLeaks
  <1>1. TypeOK /\ Kept => NothingLeaks
    <2> SUFFICES ASSUME TypeOK, Kept, alone
                 PROVE  LET inHand == {made[c] : c \in Reconnecters}
                        IN  /\ openDbs \subseteq {db} \cup inHand
                            /\ openConns \subseteq {conn} \cup inHand
                            /\ (\A c \in Users : at[c] \in Returned) => db = conn
      BY DEF NothingLeaks
    <2>1. CASE \A c \in Users : at[c] \in Returned
      BY <2>1 DEF Kept, Quiet
    <2>2. ASSUME NEW c \in Users, at[c] \notin Returned
          PROVE  /\ openDbs \subseteq {db} \cup {made[r] : r \in Reconnecters}
                 /\ openConns \subseteq {conn} \cup {made[r] : r \in Reconnecters}
      <3>1. StageOK(c)
        BY DEF Kept
      <3>2. at[c] \in {"checkConn", "checkDb", "closeDb", "closeConn", "open"} \cup Making
        BY <2>2 DEF TypeOK, Stages, Making
      <3>3. CASE at[c] \in {"checkConn", "checkDb", "closeDb", "closeConn", "open"}
        BY <3>1, <3>3 DEF StageOK, Quiet
      <3>4. CASE at[c] \in Making
        <4>1. c \in Reconnecters
          BY <3>4 DEF Kept, ClosersClose, Users, Making, Returned
        <4>2. QED
          BY <3>1, <3>4, <4>1 DEF StageOK, Making
      <3>5. QED
        BY <3>2, <3>3, <3>4
    <2>3. QED
      BY <2>1, <2>2
  <1>2. QED
    BY <1>1, KeptAlways, PTL

\* A reconnect that returns nil, none having overlapped, leaves both
\* connections open.
THEOREM NilMeansOpenCorrect == Spec => NilMeansOpen
  <1> DEFINE Opens ==
        \A c \in Reconnecters :
            alone' /\ at[c] # "ok" /\ at'[c] = "ok" => db' \in openDbs' /\ conn' \in openConns'
  <1>1. TypeOK /\ Kept /\ [Next]_vars => [Opens]_vars
    <2> SUFFICES ASSUME TypeOK, Kept, [Next]_vars, NEW c \in Reconnecters,
                        alone', at[c] # "ok", at'[c] = "ok"
                 PROVE  db' \in openDbs' /\ conn' \in openConns'
      OBVIOUS
    <2>u. c \in Users
      BY DEF Users
    <2>1. ASSUME NEW d \in Users, d # c, NEW to, at' = [at EXCEPT ![d] = to]
          PROVE  FALSE
      BY <2>u, <2>1 DEF TypeOK
    <2>2. ASSUME NEW d \in Users, d # c, Reconnect(d) \/ Close(d) \/ CloseDb(d) \/ CloseConn(d)
          PROVE  FALSE
      <3>1. \E to : at' = [at EXCEPT ![d] = to]
        BY <2>2 DEF Reconnect, Close, CloseDb, CloseConn, ReconnectIfNeeded, Begin, CheckConn,
                    CheckDb, Open, PingConn, PingDb, GiveUp, StoreDb, StoreConn, Go
      <3>2. QED
        BY <2>1, <2>2, <3>1
    <2>3. CASE Reconnect(c)
      <3>1. CheckConn(c) \/ CheckDb(c) \/ StoreConn(c)
            \/ \E to \in {"checkConn", "closeConn", "open", "pingConn", "pingDb", "failed",
                          "storeDb", "storeConn"} : at' = [at EXCEPT ![c] = to]
        BY <2>3 DEF Reconnect, ReconnectIfNeeded, Begin, CloseDb, CloseConn, Open, PingConn,
                    PingDb, GiveUp, StoreDb, Go
      <3>2. CheckDb(c) \/ StoreConn(c)
        BY <2>u, <3>1 DEF CheckConn, Go, TypeOK
      <3>3. alone /\ at[c] \notin Returned
        BY <3>2 DEF CheckDb, StoreConn, Go, Returned
      <3>4. StageOK(c)
        BY <2>u, <3>3, OthersReturned
      <3>5. CASE CheckDb(c)
        BY <2>u, <3>4, <3>5 DEF CheckDb, Go, StageOK, fieldVars, openVars, TypeOK
      <3>6. CASE StoreConn(c)
        BY <3>4, <3>6 DEF StoreConn, Go, StageOK, openVars
      <3>7. QED
        BY <3>2, <3>5, <3>6
    <2>4. CASE UNCHANGED at
      BY <2>4
    <2>5. QED
      BY <2>2, <2>3, <2>4, HandlesAssumption
         DEF Next, ContextEnds, GetDB, Answer, ServerChanges, vars, Users
  <1>2. QED
    BY <1>1, KeptAlways, PTL DEF Spec, NilMeansOpen
=============================================================================
