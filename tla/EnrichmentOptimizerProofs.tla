---------------------- MODULE EnrichmentOptimizerProofs ---------------------
(* Proofs about EnrichmentOptimizer, for every value of its constants. *)
EXTENDS EnrichmentOptimizer, SumsAndLists, FiniteSetTheorems,
        FunctionTheorems, SequenceTheorems, TLAPS

USE ConfigsAssumption, UpdatesAssumption DEF UpdatesAssumption

-----------------------------------------------------------------------------
(* Types *)

\* The lists a call may be made with.
LEMMA InputType ==
    /\ MaxLength \in Nat
    /\ \A s \in Inputs : s \in UIDList /\ Len(s) <= MaxLength
  BY InputsAssumption DEF InputsAssumption, UIDList

\* The pods of a list are pods.
LEMMA PodsType ==
    ASSUME NEW s \in UIDList
    PROVE  /\ UIDs(s) \in SUBSET (Pods \cup {NoUID})
           /\ PodsOf(s) \in SUBSET Pods
           /\ IsFiniteSet(UIDs(s))
  <1>1. \A i \in DOMAIN s : s[i] \in Pods \cup {NoUID}
    BY DEF UIDList
  <1>2. UIDs(s) \in SUBSET (Pods \cup {NoUID}) /\ PodsOf(s) \in SUBSET Pods
    BY <1>1 DEF UIDs, PodsOf
  <1>3. IsFiniteSet(UIDs(s))
    <2>1. DOMAIN s = 1 .. Len(s) /\ Len(s) \in Nat
      BY DEF UIDList
    <2>2. s \in [DOMAIN s -> UIDs(s)]
      BY <2>1 DEF UIDs, UIDList
    <2>3. s \in Surjection(DOMAIN s, UIDs(s))
      BY <2>2 DEF Surjection, UIDs
    <2>4. IsFiniteSet(DOMAIN s)
      BY <2>1, FS_Interval
    <2>5. QED
      BY <2>3, <2>4, FS_Surjection
  <1>4. QED
    BY <1>2, <1>3

\* The part of a list from m to n, if that is within the list, is a list.
LEMMA PartType ==
    ASSUME NEW s \in UIDList, NEW m \in Nat \ {0}, NEW n \in Int,
           n <= Len(s)
    PROVE  SubSeq(s, m, n) \in UIDList
  <1>1. CASE m <= n
    <2>1. m \in 1 .. Len(s) + 1 /\ n \in m - 1 .. Len(s)
      BY <1>1 DEF UIDList
    <2>2. QED
      BY <2>1, SubSeqProperties DEF UIDList
  <1>2. CASE n < m
    <2>1. SubSeq(s, m, n) = <<>>
      BY <1>2, SubSeqEmpty DEF UIDList
    <2>2. QED
      BY <2>1 DEF UIDList
  <1>3. QED
    BY <1>1, <1>2

\* The batches of a list are lists.
LEMMA BatchesType ==
    ASSUME NEW s \in UIDList, NEW size \in Nat \ {0}
    PROVE  CreateBatches(s, size) \in Seq(UIDList)
  <1> DEFINE n == (Len(s) + size - 1) \div size
             end(k) == IF k * size < Len(s) THEN k * size ELSE Len(s)
  <1>1. Len(s) \in Nat
    BY DEF UIDList
  <1>2. n \in Nat
    BY <1>1
  <1>3. ASSUME NEW k \in 1 .. n
        PROVE  SubSeq(s, (k - 1) * size + 1, end(k)) \in UIDList
    <2>1. (k - 1) * size \in Nat /\ k * size \in Nat
      BY <1>2
    <2>2. end(k) \in Int /\ end(k) <= Len(s)
      BY <1>1, <2>1
    <2>3. (k - 1) * size + 1 \in Nat \ {0}
      BY <2>1
    <2>4. QED
      BY <2>2, <2>3, PartType
  <1>4. CreateBatches(s, size) =
          [k \in 1 .. n |-> SubSeq(s, (k - 1) * size + 1, end(k))]
    BY DEF CreateBatches
  <1>5. CreateBatches(s, size) \in [1 .. n -> UIDList]
    BY <1>3, <1>4
  <1>6. QED
    BY <1>2, <1>5

\* The shares of a list of which every pod is on its own are lists.
LEMMA SinglesType ==
    ASSUME NEW s \in UIDList
    PROVE  Singles(s) \in Seq(UIDList)
  <1>1. Len(s) \in Nat /\ DOMAIN s = 1 .. Len(s)
    BY DEF UIDList
  <1>2. \A i \in 1 .. Len(s) : <<s[i]>> \in UIDList
    BY DEF UIDList
  <1>3. Singles(s) = [i \in 1 .. Len(s) |-> <<s[i]>>]
    BY <1>1 DEF Singles
  <1>4. QED
    BY <1>1, <1>2, <1>3

\* The results of calls.
Results == [meta : SUBSET Pods, failed : SUBSET (Pods \cup {NoUID}), count : Nat]

\* eo.parallelLimiter is one of the channels there are.
LEMMA LimiterType ==
    ASSUME ConfigTypeOK
    PROVE  /\ Limiter \in Nat \ {0}
           /\ DOMAIN limits = 1 .. Limiter
           /\ DOMAIN slots = 1 .. Limiter
  BY DEF ConfigTypeOK, Limiter

\* What a channel holds and what it has room for are numbers.
LEMMA ChannelType ==
    ASSUME ConfigTypeOK, NEW ch \in 1 .. Limiter
    PROVE  slots[ch] \in Nat /\ limits[ch] \in Nat \ {0}
  <1>1. limits \in Seq(Nat \ {0}) /\ slots \in Seq(Nat)
    BY DEF ConfigTypeOK
  <1>2. ch \in 1 .. Len(limits) /\ ch \in 1 .. Len(slots)
    BY DEF ConfigTypeOK, Limiter
  <1>3. QED
    BY <1>1, <1>2, ElementOfSeq

\* A step of one goroutine leaves the others where they are.
LEMMA ToEffect ==
    ASSUME NEW c \in Calls, NEW i \in Shares, NEW s \in Steps,
           WorkTypeOK, To(c, i, s)
    PROVE  /\ step' \in [Calls -> [Shares -> Steps]]
           /\ \A d \in Calls : \A j \in Shares :
                step'[d][j] = IF d = c /\ j = i THEN s ELSE step[d][j]
  BY DEF WorkTypeOK, To

\* A goroutine that reads eo.parallelLimiter gets the last channel.
LEMMA AimEffect ==
    ASSUME NEW c \in Calls, NEW i \in Shares, ConfigTypeOK, WorkTypeOK,
           chan' = [chan EXCEPT ![c][i] = Limiter]
    PROVE  /\ chan' \in [Calls -> [Shares -> Nat]]
           /\ \A d \in Calls : \A j \in Shares :
                chan'[d][j] = IF d = c /\ j = i THEN Limiter ELSE chan[d][j]
  <1>1. Limiter \in Nat
    BY LimiterType
  <1>2. QED
    BY <1>1 DEF WorkTypeOK

\* What is added to a result is of its type.
LEMMA CollectType ==
    ASSUME NEW c \in Calls, NEW i \in DOMAIN jobs[c],
           NEW found \in SUBSET PodsOf(jobs[c][i]),
           CallTypeOK, Collect(c, i, found)
    PROVE  result' \in [Calls -> Results]
  <1> DEFINE share == jobs[c][i]
             lone  == IF path[c] = "batch" THEN {} ELSE UIDs(share) \cap {NoUID}
             new   == [meta   |-> result[c].meta \cup found,
                       failed |-> result[c].failed
                                    \cup (PodsOf(share) \ found) \cup lone,
                       count  |-> result[c].count + Cardinality(found)]
  <1>1. share \in UIDList
    BY DEF CallTypeOK
  <1>2. PodsOf(share) \in SUBSET Pods /\ PodsOf(share) \subseteq UIDs(share)
    BY <1>1, PodsType DEF PodsOf
  <1>3. Cardinality(found) \in Nat
    BY <1>1, <1>2, PodsType, FS_Subset, FS_CardinalityType
  <1>4. result[c] \in Results /\ result \in [Calls -> Results]
    BY DEF CallTypeOK, Results
  <1>5. result[c].meta \cup found \in SUBSET Pods
    BY <1>2, <1>4 DEF Results
  <1>6. result[c].failed \cup (PodsOf(share) \ found) \cup lone
          \in SUBSET (Pods \cup {NoUID})
    BY <1>2, <1>4 DEF Results
  <1>7. result[c].count + Cardinality(found) \in Nat
    BY <1>3, <1>4 DEF Results
  <1>8. new \in Results
    BY <1>5, <1>6, <1>7 DEF Results
  <1>9. result' = [result EXCEPT ![c] = new]
    BY DEF Collect
  <1>10. QED
    BY <1>4, <1>8, <1>9

\* The initial state has its types.
LEMMA TypeInit == Init => TypeOK
  <1> SUFFICES ASSUME Init
               PROVE  TypeOK
    OBVIOUS
  <1>1. ConfigTypeOK
    <2>1. config.limit \in Nat \ {0}
      BY DEF Init, ConfigsAssumption
    <2>2. limits \in Seq(Nat \ {0}) /\ limits # <<>>
      BY <2>1 DEF Init
    <2>3. slots \in Seq(Nat) /\ Len(slots) = Len(limits)
      BY DEF Init
    <2>4. updates \in 0 .. MaxUpdates
      BY DEF Init
    <2>5. config \in Configs /\ updating \in BOOLEAN /\ crossed \in BOOLEAN
      BY DEF Init
    <2>6. QED
      BY <2>2, <2>3, <2>4, <2>5 DEF ConfigTypeOK
  <1>2. CallTypeOK
    <2>1. <<>> \in UIDList /\ <<>> \in Seq(UIDList)
      BY DEF UIDList
    <2>2. QED
      BY <2>1 DEF Init, CallTypeOK, Phases, Paths
  <1>3. WorkTypeOK
    BY DEF Init, WorkTypeOK, Steps
  <1>4. QED
    BY <1>1, <1>2, <1>3 DEF TypeOK

\* What the locals of calls and goroutines have to do with each other: a
\* goroutine that uses a channel uses one there is; a call has goroutines only
\* once it went to work, and no more than it has shares.
ShapeOK ==
    /\ \A c \in Calls : \A i \in Shares :
         step[c][i] \in {"waiting", "calling", "releasing"} => chan[c][i] \in 1 .. Limiter
    /\ \A c \in Calls : phase[c] \notin {"working", "done"} =>
         \A i \in Shares : step[c][i] = "none"
    /\ \A c \in Calls : \A i \in Shares :
         step[c][i] # "none" => i \in DOMAIN jobs[c]

\* The configuration keeps its types.
LEMMA ConfigTypeStep ==
    ASSUME TypeOK, ShapeOK, [Next]_vars
    PROVE  ConfigTypeOK'
  <1>1. ConfigTypeOK /\ WorkTypeOK
    BY DEF TypeOK
  <1>2. ASSUME UNCHANGED <<configVars, crossed>>
        PROVE  ConfigTypeOK'
    BY <1>1, <1>2 DEF configVars, ConfigTypeOK
  <1>3. ASSUME NEW g \in Configs, UpdateConfig(g)
        PROVE  ConfigTypeOK'
    BY <1>1, <1>3 DEF ConfigTypeOK, UpdateConfig
  <1>4. ASSUME ReplaceLimiter
        PROVE  ConfigTypeOK'
    <2>1. config \in Configs /\ config.limit \in Nat \ {0}
      BY <1>1 DEF ConfigTypeOK, ConfigsAssumption
    <2>2. CASE config.limit = limits[Limiter]
      BY <1>1, <1>4, <2>2 DEF ConfigTypeOK, ReplaceLimiter
    <2>3. CASE config.limit # limits[Limiter]
      <3>1. /\ limits' = Append(limits, config.limit)
            /\ slots' = Append(slots, 0)
            /\ crossed' = (crossed \/ Using # {})
            /\ updating' = FALSE
            /\ UNCHANGED <<config, updates>>
        BY <1>4, <2>3 DEF ReplaceLimiter
      <3>2. limits' \in Seq(Nat \ {0}) /\ limits' # <<>>
        BY <1>1, <2>1, <3>1 DEF ConfigTypeOK
      <3>3. slots' \in Seq(Nat) /\ Len(slots') = Len(limits')
        BY <1>1, <2>1, <3>1 DEF ConfigTypeOK
      <3>4. crossed' \in BOOLEAN
        BY <1>1, <3>1 DEF ConfigTypeOK
      <3>5. QED
        BY <1>1, <3>1, <3>2, <3>3, <3>4 DEF ConfigTypeOK
    <2>4. QED
      BY <2>2, <2>3
  <1>5. ASSUME NEW c \in Calls, NEW i \in Shares, Admit(c, i) \/ Release(c, i)
        PROVE  ConfigTypeOK'
    <2> DEFINE ch == chan[c][i]
    <2>1. step[c][i] \in {"waiting", "releasing"}
      BY <1>5 DEF Admit, Release
    <2>2. ch \in 1 .. Limiter
      BY <2>1 DEF ShapeOK
    <2>3. ch \in 1 .. Len(slots) /\ slots[ch] \in Nat
      BY <1>1, <2>2, LimiterType DEF ConfigTypeOK
    <2>4. /\ UNCHANGED <<config, limits, updates, updating, crossed>>
          /\ \/ slots' = [slots EXCEPT ![ch] = slots[ch] + 1]
             \/ slots[ch] > 0 /\ slots' = [slots EXCEPT ![ch] = slots[ch] - 1]
      BY <1>5 DEF Admit, Release
    <2>5. \E n \in Nat : slots' = [slots EXCEPT ![ch] = n]
      <3>1. CASE slots' = [slots EXCEPT ![ch] = slots[ch] + 1]
        <4>1. slots[ch] + 1 \in Nat
          BY <2>3
        <4>2. QED
          BY <3>1, <4>1, Zenon
      <3>2. CASE slots[ch] > 0 /\ slots' = [slots EXCEPT ![ch] = slots[ch] - 1]
        <4>1. slots[ch] - 1 \in Nat
          BY <2>3, <3>2
        <4>2. QED
          BY <3>2, <4>1, Zenon
      <3>3. QED
        BY <2>4, <3>1, <3>2
    <2>6. slots \in Seq(Nat)
      BY <1>1 DEF ConfigTypeOK
    <2>7. slots' \in Seq(Nat) /\ Len(slots') = Len(slots)
      BY <2>3, <2>5, <2>6, ExceptSeq
    <2>8. QED
      BY <1>1, <2>4, <2>7 DEF ConfigTypeOK
  <1>6. ASSUME NEW c \in Calls,
               (\E s \in Inputs : OptimizeEnrichment(c, s)) \/ Decide(c)
        PROVE  UNCHANGED <<configVars, crossed>>
    BY <1>6 DEF OptimizeEnrichment, Decide, AskBatching, AskSize, Split, Spin,
                Spread, Begin, Return
  <1>7. ASSUME NEW c \in Calls, NEW i \in Shares,
               BatchCall(c, i) \/ SequentialCall(c, i) \/ Queue(c, i)
                 \/ ParallelCall(c, i)
        PROVE  UNCHANGED <<configVars, crossed>>
    BY <1>7 DEF BatchCall, SequentialCall, Queue, ParallelCall
  <1>8. CASE UNCHANGED vars
    BY <1>2, <1>8 DEF vars
  <1>9. QED
    BY <1>2, <1>3, <1>4, <1>5, <1>6, <1>7, <1>8 DEF Next, Work

\* Calls keep their types.
LEMMA CallTypeStep ==
    ASSUME TypeOK, ShapeOK, [Next]_vars
    PROVE  CallTypeOK'
  <1>1. CallTypeOK
    BY DEF TypeOK
  <1>2. ASSUME UNCHANGED callVars
        PROVE  CallTypeOK'
    BY <1>1, <1>2 DEF callVars, CallTypeOK
  <1>3. ASSUME NEW c \in Calls, NEW s \in Inputs, OptimizeEnrichment(c, s)
        PROVE  CallTypeOK'
    <2>1. s \in UIDList /\ Len(s) \in Nat
      BY InputType DEF UIDList
    <2>2. input' = [input EXCEPT ![c] = s] /\ UNCHANGED jobs
      BY <1>3 DEF OptimizeEnrichment
    <2>3. PICK hit \in SUBSET PodsOf(s) :
            IF hit = UIDs(s) /\ ~Repeats(s)
              THEN /\ phase' = [phase EXCEPT ![c] = "done"]
                   /\ path' = [path EXCEPT ![c] = "cache"]
                   /\ result' = [result EXCEPT ![c] =
                                   [@ EXCEPT !.meta = hit, !.count = Len(s)]]
              ELSE /\ phase' = [phase EXCEPT ![c] = "batching"]
                   /\ UNCHANGED <<path, result>>
      BY <1>3 DEF OptimizeEnrichment
    <2>4. phase' \in [Calls -> Phases] /\ path' \in [Calls -> Paths]
      BY <1>1, <2>3 DEF CallTypeOK, Phases, Paths
    <2>5. hit \in SUBSET Pods
      BY <2>1, PodsType
    <2>6. result' \in [Calls -> Results]
      <3>1. result \in [Calls -> Results] /\ result[c] \in Results
        BY <1>1 DEF CallTypeOK, Results
      <3>2. [result[c] EXCEPT !.meta = hit, !.count = Len(s)] \in Results
        BY <2>1, <2>5, <3>1 DEF Results
      <3>3. QED
        BY <2>3, <3>1, <3>2
    <2>7. input' \in [Calls -> UIDList] /\ jobs' \in [Calls -> Seq(UIDList)]
      BY <1>1, <2>1, <2>2 DEF CallTypeOK
    <2>8. QED
      BY <2>4, <2>6, <2>7 DEF CallTypeOK, Results
  <1>4. ASSUME NEW c \in Calls, AskBatching(c) \/ AskSize(c) \/ Spin(c) \/ Return(c)
        PROVE  CallTypeOK'
    <2>1. PICK x \in Phases : phase' = [phase EXCEPT ![c] = x]
      BY <1>4 DEF AskBatching, AskSize, Spin, Return, Phases
    <2>2. UNCHANGED <<input, path, jobs, result>>
      BY <1>4 DEF AskBatching, AskSize, Spin, Return
    <2>3. QED
      BY <1>1, <2>1, <2>2 DEF CallTypeOK
  <1>5. ASSUME NEW c \in Calls, Split(c) \/ Spread(c)
        PROVE  CallTypeOK'
    <2>1. input[c] \in UIDList
      BY <1>1 DEF CallTypeOK
    <2>2. PICK how \in Paths, js \in Seq(UIDList) : Begin(c, how, js)
      <3>1. CASE Split(c)
        <4>1. config.batchSize \in Nat \ {0}
          BY <3>1 DEF TypeOK, ConfigTypeOK, ConfigsAssumption, Split
        <4>2. CreateBatches(input[c], config.batchSize) \in Seq(UIDList)
          BY <2>1, <4>1, BatchesType
        <4>3. QED
          BY <3>1, <4>2 DEF Split, Paths
      <3>2. CASE Spread(c)
        BY <2>1, <3>2, SinglesType DEF Spread, Paths
      <3>3. QED
        BY <1>5, <3>1, <3>2
    <2>3. QED
      BY <1>1, <2>2 DEF CallTypeOK, Begin, Phases
  <1>6. ASSUME NEW c \in Calls, NEW i \in Shares,
               BatchCall(c, i) \/ SequentialCall(c, i)
        PROVE  CallTypeOK'
    <2>1. i \in DOMAIN jobs[c]
      BY <1>6 DEF ShapeOK, BatchCall, SequentialCall
    <2>2. PICK found \in SUBSET PodsOf(jobs[c][i]) : Collect(c, i, found)
      BY <1>6 DEF BatchCall, SequentialCall
    <2>3. result' \in [Calls -> Results]
      BY <1>1, <2>1, <2>2, CollectType
    <2>4. UNCHANGED <<phase, input, path, jobs>>
      BY <1>6 DEF BatchCall, SequentialCall
    <2>5. QED
      BY <1>1, <2>3, <2>4 DEF CallTypeOK, Results
  <1>7. ASSUME NEW c \in Calls, NEW i \in Shares,
               Queue(c, i) \/ Admit(c, i) \/ ParallelCall(c, i) \/ Release(c, i)
        PROVE  CallTypeOK'
    BY <1>2, <1>7 DEF Queue, Admit, ParallelCall, Release
  <1>8. ASSUME (\E g \in Configs : UpdateConfig(g)) \/ ReplaceLimiter
        PROVE  CallTypeOK'
    BY <1>2, <1>8 DEF UpdateConfig, ReplaceLimiter
  <1>9. CASE UNCHANGED vars
    BY <1>2, <1>9 DEF vars
  <1>10. QED
    BY <1>3, <1>4, <1>5, <1>6, <1>7, <1>8, <1>9 DEF Next, Decide, Work

\* A call that goes to work gets goroutines for its shares, all at the start.
LEMMA BeginEffect ==
    ASSUME NEW c \in Calls, NEW how, NEW js, WorkTypeOK, Begin(c, how, js)
    PROVE  /\ step' \in [Calls -> [Shares -> Steps]]
           /\ \A d \in Calls : \A i \in Shares :
                step'[d][i] = IF d # c THEN step[d][i]
                              ELSE IF i \in DOMAIN js THEN "ready" ELSE "none"
  BY DEF WorkTypeOK, Begin, Steps

\* Goroutines keep their types.
LEMMA WorkTypeStep ==
    ASSUME TypeOK, ShapeOK, [Next]_vars
    PROVE  WorkTypeOK'
  <1>1. ConfigTypeOK /\ WorkTypeOK
    BY DEF TypeOK
  <1>2. ASSUME UNCHANGED workVars
        PROVE  WorkTypeOK'
    BY <1>1, <1>2 DEF workVars, WorkTypeOK
  <1>3. ASSUME NEW c \in Calls, Split(c) \/ Spread(c)
        PROVE  WorkTypeOK'
    <2>1. PICK how, js : Begin(c, how, js)
      BY <1>3 DEF Split, Spread
    <2>2. UNCHANGED chan
      BY <2>1 DEF Begin
    <2>3. QED
      BY <1>1, <2>1, <2>2, BeginEffect DEF WorkTypeOK
  <1>4. ASSUME NEW c \in Calls, NEW i \in Shares, Work(c, i)
        PROVE  WorkTypeOK'
    <2>1. PICK s \in Steps : To(c, i, s)
      BY <1>4 DEF Work, BatchCall, SequentialCall, Queue, Admit, ParallelCall,
                  Release, Steps
    <2>2. UNCHANGED chan \/ chan' = [chan EXCEPT ![c][i] = Limiter]
      BY <1>4 DEF Work, BatchCall, SequentialCall, Queue, Admit, ParallelCall,
                  Release
    <2>3. chan' \in [Calls -> [Shares -> Nat]]
      BY <1>1, <2>2, AimEffect DEF WorkTypeOK
    <2>4. QED
      BY <1>1, <2>1, <2>3, ToEffect DEF WorkTypeOK
  <1>5. ASSUME NEW c \in Calls,
               \/ \E s \in Inputs : OptimizeEnrichment(c, s)
               \/ AskBatching(c) \/ AskSize(c) \/ Spin(c) \/ Return(c)
        PROVE  WorkTypeOK'
    BY <1>2, <1>5 DEF OptimizeEnrichment, AskBatching, AskSize, Spin, Return
  <1>6. ASSUME (\E g \in Configs : UpdateConfig(g)) \/ ReplaceLimiter
        PROVE  WorkTypeOK'
    BY <1>2, <1>6 DEF UpdateConfig, ReplaceLimiter
  <1>7. CASE UNCHANGED vars
    BY <1>2, <1>7 DEF vars
  <1>8. QED
    BY <1>3, <1>4, <1>5, <1>6, <1>7 DEF Next, Decide

\* In the beginning no call has goroutines.
LEMMA ShapeInit == Init => ShapeOK
  BY DEF Init, ShapeOK

\* How calls, their goroutines and the channels hang together is kept.
LEMMA ShapeStep ==
    ASSUME TypeOK, ShapeOK, [Next]_vars
    PROVE  ShapeOK'
  <1>1. ConfigTypeOK /\ CallTypeOK /\ WorkTypeOK
    BY DEF TypeOK
  <1>2. ASSUME UNCHANGED <<phase, jobs, workVars>>, limits' = limits
        PROVE  ShapeOK'
    BY <1>2 DEF ShapeOK, workVars, Limiter
  <1>3. ASSUME ReplaceLimiter
        PROVE  ShapeOK'
    <2>1. UNCHANGED <<phase, jobs, workVars>>
      BY <1>3 DEF ReplaceLimiter, callVars
    <2>2. CASE limits' = limits
      BY <1>2, <2>1, <2>2
    <2>3. CASE limits' # limits
      <3>1. limits' = Append(limits, config.limit)
        BY <1>3, <2>3 DEF ReplaceLimiter
      <3>2. Limiter \in Nat /\ Limiter' = Limiter + 1
        BY <1>1, <3>1 DEF ConfigTypeOK, Limiter
      <3>3. 1 .. Limiter \subseteq 1 .. Limiter'
        BY <3>2
      <3>4. QED
        BY <2>1, <3>3 DEF ShapeOK, workVars
    <2>4. QED
      BY <2>2, <2>3
  <1>4. ASSUME NEW c \in Calls,
               \/ \E s \in Inputs : OptimizeEnrichment(c, s)
               \/ AskBatching(c) \/ AskSize(c) \/ Spin(c)
        PROVE  ShapeOK'
    <2>1. /\ phase[c] \notin {"working", "done"}
          /\ UNCHANGED <<jobs, workVars, limits>>
          /\ \E x : phase' = [phase EXCEPT ![c] = x]
      BY <1>4 DEF OptimizeEnrichment, AskBatching, AskSize, Spin, configVars
    <2>2. \A d \in Calls : phase'[d] \notin {"working", "done"}
                             => phase[d] \notin {"working", "done"}
      BY <1>1, <2>1 DEF CallTypeOK
    <2>3. QED
      BY <2>1, <2>2 DEF ShapeOK, workVars, Limiter
  <1>5. ASSUME NEW c \in Calls, Return(c)
        PROVE  ShapeOK'
    <2>1. /\ phase' = [phase EXCEPT ![c] = "done"]
          /\ UNCHANGED <<jobs, workVars, limits>>
      BY <1>5 DEF Return, configVars
    <2>2. \A d \in Calls : phase'[d] \notin {"working", "done"}
                             => phase[d] \notin {"working", "done"}
      BY <1>1, <2>1 DEF CallTypeOK
    <2>3. QED
      BY <2>1, <2>2 DEF ShapeOK, workVars, Limiter
  <1>6. ASSUME NEW c \in Calls, Split(c) \/ Spread(c)
        PROVE  ShapeOK'
    <2>1. PICK how, js : Begin(c, how, js)
      BY <1>6 DEF Split, Spread
    <2>2. /\ phase' = [phase EXCEPT ![c] = "working"]
          /\ jobs' = [jobs EXCEPT ![c] = js]
          /\ UNCHANGED <<chan, limits>>
      BY <2>1 DEF Begin, configVars
    <2>3. \A d \in Calls : \A i \in Shares :
            step'[d][i] = IF d # c THEN step[d][i]
                          ELSE IF i \in DOMAIN js THEN "ready" ELSE "none"
      BY <1>1, <2>1, BeginEffect
    <2>4. \A d \in Calls : /\ phase'[d] = IF d = c THEN "working" ELSE phase[d]
                           /\ jobs'[d] = IF d = c THEN js ELSE jobs[d]
      BY <1>1, <2>2 DEF CallTypeOK
    <2>5. QED
      BY <2>2, <2>3, <2>4 DEF ShapeOK, Limiter
  <1>7. ASSUME NEW c \in Calls, NEW i \in Shares, Work(c, i)
        PROVE  ShapeOK'
    <2>1. UNCHANGED <<phase, jobs, limits>>
      BY <1>7 DEF Work, BatchCall, SequentialCall, Queue, Admit, ParallelCall,
                  Release, configVars, callVars
    <2>2. PICK s \in Steps : To(c, i, s) /\ step[c][i] # "none"
      BY <1>7 DEF Work, BatchCall, SequentialCall, Queue, Admit, ParallelCall,
                  Release, Steps
    <2>3. \A d \in Calls : \A j \in Shares :
            step'[d][j] = IF d = c /\ j = i THEN s ELSE step[d][j]
      BY <1>1, <2>2, ToEffect
    <2>4. s \in {"waiting", "calling", "releasing"} => chan'[c][i] \in 1 .. Limiter
      <3>1. CASE chan' = [chan EXCEPT ![c][i] = Limiter]
        <4>1. chan'[c][i] = Limiter
          BY <1>1, <3>1, AimEffect
        <4>2. Limiter \in 1 .. Limiter
          BY <1>1, LimiterType
        <4>3. QED
          BY <4>1, <4>2
      <3>2. CASE UNCHANGED chan /\ (Admit(c, i) \/ Release(c, i))
        BY <3>2 DEF Admit, Release, ShapeOK
      <3>3. CASE BatchCall(c, i) \/ SequentialCall(c, i)
        <4>1. To(c, i, "done")
          BY <3>3 DEF BatchCall, SequentialCall
        <4>2. step'[c][i] = "done"
          BY <1>1, <4>1, ToEffect DEF Steps
        <4>3. QED
          BY <2>3, <4>2
      <3>4. QED
        BY <1>7, <3>1, <3>2, <3>3 DEF Work, Queue, Admit, ParallelCall, Release
    <2>5. \A d \in Calls : \A j \in Shares :
            d # c \/ j # i => chan'[d][j] = chan[d][j]
      <3>1. UNCHANGED chan \/ chan' = [chan EXCEPT ![c][i] = Limiter]
        BY <1>7 DEF Work, BatchCall, SequentialCall, Queue, Admit, ParallelCall,
                    Release
      <3>2. QED
        BY <1>1, <3>1, AimEffect
    <2>6. QED
      BY <2>1, <2>2, <2>3, <2>4, <2>5 DEF ShapeOK, Limiter
  <1>8. CASE (\E g \in Configs : UpdateConfig(g)) \/ UNCHANGED vars
    BY <1>2, <1>8 DEF UpdateConfig, vars, configVars, callVars, workVars
  <1>9. QED
    BY <1>3, <1>4, <1>5, <1>6, <1>7, <1>8 DEF Next, Decide

\* Every variable keeps its type: no channel ever holds fewer than no
\* elements, and the parts that lists are cut into are lists.
THEOREM OptimizerTypeCorrect == Spec => []TypeOK
  <1>1. Init => TypeOK /\ ShapeOK
    BY TypeInit, ShapeInit
  <1>2. TypeOK /\ ShapeOK /\ [Next]_vars => (TypeOK /\ ShapeOK)'
    BY ConfigTypeStep, CallTypeStep, WorkTypeStep, ShapeStep DEF TypeOK
  <1>3. QED
    BY <1>1, <1>2, PTL DEF Spec

-----------------------------------------------------------------------------
(* The limit *)

\* Goroutine w has sent to channel ch and not yet received.
Holds(w, ch) == /\ step[w[1]][w[2]] \in {"calling", "releasing"}
                /\ chan[w[1]][w[2]] = ch

Holders(ch) == {w \in Calls \X Shares : Holds(w, ch)}

\* Channel ch holds an element for each of them, and no more than its capacity.
FilledBy(ch) ==
    /\ IsFiniteSet(Holders(ch))
    /\ Cardinality(Holders(ch)) = slots[ch]
    /\ slots[ch] <= limits[ch]

\* The inductive invariant: LimitHeld speaks of eo.parallelLimiter, but the
\* goroutines that are done with their call may still release another channel.
LimitInv ==
    ~crossed => /\ \A w \in Using : chan[w[1]][w[2]] = Limiter
                /\ \A ch \in 1 .. Limiter : FilledBy(ch)

\* The invariant contains the property.
LEMMA LimitImplied ==
    ASSUME TypeOK, ShapeOK, LimitInv
    PROVE  LimitHeld
  <1> SUFFICES ASSUME ~crossed
               PROVE  /\ Cardinality(At({"calling"})) <= limits[Limiter]
                      /\ \A w \in At({"releasing"}) : slots[chan[w[1]][w[2]]] > 0
    BY DEF LimitHeld
  <1>1. /\ \A w \in Using : chan[w[1]][w[2]] = Limiter
        /\ \A ch \in 1 .. Limiter : FilledBy(ch)
    BY DEF LimitInv
  <1>2. Limiter \in 1 .. Limiter /\ limits[Limiter] \in Nat
    BY LimiterType DEF TypeOK, ConfigTypeOK
  <1>3. Cardinality(At({"calling"})) <= limits[Limiter]
    <2>1. At({"calling"}) \subseteq Holders(Limiter)
      BY <1>1 DEF At, Using, Holders, Holds
    <2>2. FilledBy(Limiter)
      BY <1>1, <1>2
    <2>3. /\ Cardinality(At({"calling"})) <= Cardinality(Holders(Limiter))
          /\ Cardinality(At({"calling"})) \in Nat
      BY <2>1, <2>2, FS_Subset, FS_CardinalityType DEF FilledBy
    <2>4. slots[Limiter] \in Nat
      BY <1>2, LimiterType DEF TypeOK, ConfigTypeOK
    <2>5. QED
      BY <1>2, <2>2, <2>3, <2>4 DEF FilledBy
  <1>4. ASSUME NEW w \in At({"releasing"})
        PROVE  slots[chan[w[1]][w[2]]] > 0
    <2> DEFINE ch == chan[w[1]][w[2]]
    <2>1. w \in Calls \X Shares /\ step[w[1]][w[2]] = "releasing"
      BY DEF At
    <2>2. w[1] \in Calls /\ w[2] \in Shares
      BY <2>1
    <2>3. ch \in 1 .. Limiter
      BY <2>1, <2>2 DEF ShapeOK
    <2>4. FilledBy(ch)
      BY <1>1, <2>3
    <2>5. w \in Holders(ch)
      BY <2>1 DEF Holders, Holds
    <2>6. Cardinality(Holders(ch)) \in Nat /\ Cardinality(Holders(ch)) # 0
      BY <2>4, <2>5, FS_CardinalityType, FS_EmptySet DEF FilledBy
    <2>7. QED
      BY <2>4, <2>6 DEF FilledBy
  <1>5. QED
    BY <1>3, <1>4

\* In the beginning the one channel is empty and nobody uses it.
LEMMA LimitInit == Init => LimitInv
  <1> SUFFICES ASSUME Init
               PROVE  LimitInv
    OBVIOUS
  <1>1. config.limit \in Nat \ {0}
    BY DEF Init, ConfigsAssumption
  <1>2. Using = {} /\ \A ch : Holders(ch) = {}
    BY DEF Init, Using, At, Holders, Holds
  <1>3. limits = <<config.limit>> /\ slots = <<0>> /\ Limiter = 1
    BY DEF Init, Limiter
  <1>4. \A ch \in 1 .. Limiter : slots[ch] = 0 /\ limits[ch] \in Nat
    BY <1>1, <1>3
  <1>5. \A ch \in 1 .. Limiter : FilledBy(ch)
    BY <1>2, <1>4, FS_EmptySet DEF FilledBy
  <1>6. QED
    BY <1>2, <1>5 DEF LimitInv

\* A step that leaves the channels alone, lets nobody begin or cease to hold
\* an element and sends nobody to another channel keeps the invariant.
LEMMA LimitKept ==
    ASSUME LimitInv, UNCHANGED <<limits, slots, crossed>>,
           ~crossed => \A w \in Calls \X Shares :
             /\ \A ch \in 1 .. Limiter : Holds(w, ch)' <=> Holds(w, ch)
             /\ w \in Using' => chan'[w[1]][w[2]] = Limiter
    PROVE  LimitInv'
  <1> SUFFICES ASSUME ~crossed'
               PROVE  /\ \A w \in Using' : chan'[w[1]][w[2]] = Limiter'
                      /\ \A ch \in 1 .. Limiter' : FilledBy(ch)'
    BY DEF LimitInv
  <1>1. ~crossed /\ Limiter' = Limiter
    BY DEF Limiter
  <1>2. ASSUME NEW ch \in 1 .. Limiter
        PROVE  FilledBy(ch)'
    <2>1. Holders(ch)' = Holders(ch)
      BY <1>1 DEF Holders
    <2>2. FilledBy(ch)
      BY <1>1 DEF LimitInv
    <2>3. QED
      BY <2>1, <2>2 DEF FilledBy
  <1>3. \A w \in Using' : w \in Calls \X Shares
    BY DEF Using, At
  <1>4. QED
    BY <1>1, <1>2, <1>3

\* UpdateConfig: the new limiter is empty, and nobody uses it yet.
LEMMA LimitReplaced ==
    ASSUME TypeOK, ShapeOK, LimitInv, ReplaceLimiter, limits' # limits
    PROVE  LimitInv'
  <1> SUFFICES ASSUME ~crossed'
               PROVE  /\ \A w \in Using' : chan'[w[1]][w[2]] = Limiter'
                      /\ \A ch \in 1 .. Limiter' : FilledBy(ch)'
    BY DEF LimitInv
  <1>1. ConfigTypeOK
    BY DEF TypeOK
  <1>2. /\ limits' = Append(limits, config.limit)
        /\ slots' = Append(slots, 0)
        /\ crossed' = (crossed \/ Using # {})
        /\ UNCHANGED <<step, chan>>
    BY DEF ReplaceLimiter, workVars
  <1>3. ~crossed /\ Using = {}
    BY <1>2
  <1>4. Using' = {}
    BY <1>2, <1>3 DEF Using, At
  <1>5. /\ Limiter \in Nat
        /\ Limiter' = Limiter + 1
        /\ config.limit \in Nat \ {0}
    BY <1>1, <1>2 DEF ConfigTypeOK, ConfigsAssumption, Limiter
  <1>6. \A ch : Holders(ch)' = Holders(ch)
    BY <1>2 DEF Holders, Holds
  <1>7. ASSUME NEW ch \in 1 .. Limiter
        PROVE  FilledBy(ch)'
    <2>1. limits'[ch] = limits[ch] /\ slots'[ch] = slots[ch]
      BY <1>1, <1>2, <1>5 DEF ConfigTypeOK, Limiter
    <2>2. FilledBy(ch)
      BY <1>3 DEF LimitInv
    <2>3. QED
      BY <1>6, <2>1, <2>2 DEF FilledBy
  <1>8. ASSUME NEW ch \in 1 .. Limiter', ch = Limiter + 1
        PROVE  FilledBy(ch)'
    <2>1. limits'[ch] = config.limit /\ slots'[ch] = 0
      BY <1>1, <1>2, <1>5, <1>8 DEF ConfigTypeOK, Limiter
    <2>2. \A w \in Calls \X Shares : ~Holds(w, ch)
      <3> SUFFICES ASSUME NEW w \in Calls \X Shares, Holds(w, ch)
                   PROVE  FALSE
        OBVIOUS
      <3>1. w[1] \in Calls /\ w[2] \in Shares
        OBVIOUS
      <3>2. ch \in 1 .. Limiter
        BY <3>1 DEF ShapeOK, Holds
      <3>3. QED
        BY <1>5, <1>8, <3>2
    <2>3. Holders(ch) = {}
      BY <2>2 DEF Holders
    <2>4. Holders(ch)' = {}
      BY <1>6, <2>3
    <2>5. IsFiniteSet(Holders(ch)') /\ Cardinality(Holders(ch)') = 0
      BY <2>4, FS_EmptySet
    <2>6. QED
      BY <1>5, <2>1, <2>5 DEF FilledBy
  <1>9. \A ch \in 1 .. Limiter' : ch \in 1 .. Limiter \/ ch = Limiter + 1
    BY <1>5
  <1>10. QED
    BY <1>4, <1>7, <1>8, <1>9

\* Sending: a goroutine more, and an element more, where there is room.
LEMMA LimitAdmit ==
    ASSUME TypeOK, ShapeOK, LimitInv, NEW c \in Calls, NEW i \in Shares,
           Admit(c, i)
    PROVE  LimitInv'
  <1> DEFINE mine == chan[c][i]
             w0   == <<c, i>>
  <1> SUFFICES ASSUME ~crossed'
               PROVE  /\ \A w \in Using' : chan'[w[1]][w[2]] = Limiter'
                      /\ \A ch \in 1 .. Limiter' : FilledBy(ch)'
    BY DEF LimitInv
  <1>1. ConfigTypeOK /\ WorkTypeOK
    BY DEF TypeOK
  <1>2. /\ step[c][i] = "waiting"
        /\ slots[mine] < limits[mine]
        /\ slots' = [slots EXCEPT ![mine] = @ + 1]
        /\ To(c, i, "calling")
        /\ UNCHANGED <<limits, crossed, chan>>
    BY DEF Admit
  <1>3. /\ \A w \in Using : chan[w[1]][w[2]] = Limiter
        /\ \A ch \in 1 .. Limiter : FilledBy(ch)
    BY <1>2 DEF LimitInv
  <1>4. \A d \in Calls : \A j \in Shares :
          step'[d][j] = IF d = c /\ j = i THEN "calling" ELSE step[d][j]
    BY <1>1, <1>2, ToEffect DEF Steps
  <1>5. \A w \in Calls \X Shares :
          step'[w[1]][w[2]] = IF w = w0 THEN "calling" ELSE step[w[1]][w[2]]
    BY <1>4
  <1>6. w0 \in Calls \X Shares
    OBVIOUS
  <1>7. Using' = Using
    BY <1>2, <1>5, <1>6 DEF Using, At
  <1>8. mine \in 1 .. Limiter /\ Limiter' = Limiter
    BY <1>2 DEF ShapeOK, Limiter
  <1>9. ASSUME NEW ch \in 1 .. Limiter, ch # mine
        PROVE  FilledBy(ch)'
    <2>1. Holders(ch)' = Holders(ch)
      BY <1>2, <1>5, <1>9 DEF Holders, Holds
    <2>2. slots'[ch] = slots[ch]
      BY <1>1, <1>2, <1>8, <1>9, LimiterType
    <2>3. QED
      BY <1>2, <1>3, <2>1, <2>2 DEF FilledBy
  <1>10. ASSUME NEW ch \in 1 .. Limiter, ch = mine
         PROVE  FilledBy(ch)'
    <2>1. Holders(ch)' = Holders(ch) \cup {w0}
      BY <1>2, <1>5, <1>6, <1>10 DEF Holders, Holds
    <2>2. w0 \notin Holders(ch)
      BY <1>2, <1>10 DEF Holders, Holds
    <2>3. FilledBy(ch)
      BY <1>3, <1>8, <1>10
    <2>4. /\ IsFiniteSet(Holders(ch)')
          /\ Cardinality(Holders(ch)') = Cardinality(Holders(ch)) + 1
      <3>1. IsFiniteSet(Holders(ch))
        BY <2>3 DEF FilledBy
      <3>2. /\ IsFiniteSet(Holders(ch) \cup {w0})
            /\ Cardinality(Holders(ch) \cup {w0}) = Cardinality(Holders(ch)) + 1
        BY <2>2, <3>1, FS_AddElement
      <3>3. QED
        BY <2>1, <3>2
    <2>5. slots[ch] \in Nat /\ limits[ch] \in Nat
      BY <1>1, ChannelType
    <2>6. slots'[ch] = slots[ch] + 1
      BY <1>1, <1>2, <1>8, <1>10, LimiterType
    <2>7. slots'[ch] <= limits'[ch]
      BY <1>2, <2>5, <2>6, <1>10
    <2>8. QED
      BY <1>2, <2>3, <2>4, <2>6, <2>7, <1>10 DEF FilledBy
  <1>11. QED
    BY <1>2, <1>3, <1>7, <1>8, <1>9, <1>10

\* Receiving: a goroutine less, and an element less.
LEMMA LimitRelease ==
    ASSUME TypeOK, ShapeOK, LimitInv, NEW c \in Calls, NEW i \in Shares,
           Release(c, i)
    PROVE  LimitInv'
  <1> DEFINE mine == chan[c][i]
             w0   == <<c, i>>
  <1> SUFFICES ASSUME ~crossed'
               PROVE  /\ \A w \in Using' : chan'[w[1]][w[2]] = Limiter'
                      /\ \A ch \in 1 .. Limiter' : FilledBy(ch)'
    BY DEF LimitInv
  <1>1. ConfigTypeOK /\ WorkTypeOK
    BY DEF TypeOK
  <1>2. /\ step[c][i] = "releasing"
        /\ slots[mine] > 0
        /\ slots' = [slots EXCEPT ![mine] = @ - 1]
        /\ To(c, i, "done")
        /\ UNCHANGED <<limits, crossed, chan>>
    BY DEF Release
  <1>3. /\ \A w \in Using : chan[w[1]][w[2]] = Limiter
        /\ \A ch \in 1 .. Limiter : FilledBy(ch)
    BY <1>2 DEF LimitInv
  <1>4. \A d \in Calls : \A j \in Shares :
          step'[d][j] = IF d = c /\ j = i THEN "done" ELSE step[d][j]
    BY <1>1, <1>2, ToEffect DEF Steps
  <1>5. \A w \in Calls \X Shares :
          step'[w[1]][w[2]] = IF w = w0 THEN "done" ELSE step[w[1]][w[2]]
    BY <1>4
  <1>6. w0 \in Calls \X Shares
    OBVIOUS
  <1>7. Using' = Using
    BY <1>2, <1>5, <1>6 DEF Using, At
  <1>8. mine \in 1 .. Limiter /\ Limiter' = Limiter
    BY <1>2 DEF ShapeOK, Limiter
  <1>9. ASSUME NEW ch \in 1 .. Limiter, ch # mine
        PROVE  FilledBy(ch)'
    <2>1. Holders(ch)' = Holders(ch)
      BY <1>2, <1>5, <1>9 DEF Holders, Holds
    <2>2. slots'[ch] = slots[ch]
      BY <1>1, <1>2, <1>8, <1>9, LimiterType
    <2>3. QED
      BY <1>2, <1>3, <2>1, <2>2 DEF FilledBy
  <1>10. ASSUME NEW ch \in 1 .. Limiter, ch = mine
         PROVE  FilledBy(ch)'
    <2>1. Holders(ch)' = Holders(ch) \ {w0}
      BY <1>2, <1>5, <1>6, <1>10 DEF Holders, Holds
    <2>2. w0 \in Holders(ch)
      BY <1>2, <1>6, <1>10 DEF Holders, Holds
    <2>3. FilledBy(ch)
      BY <1>3, <1>8, <1>10
    <2>4. /\ IsFiniteSet(Holders(ch)')
          /\ Cardinality(Holders(ch)') = Cardinality(Holders(ch)) - 1
      BY <2>1, <2>2, <2>3, FS_RemoveElement DEF FilledBy
    <2>5. slots[ch] \in Nat /\ limits[ch] \in Nat
      BY <1>1, ChannelType
    <2>6. slots'[ch] = slots[ch] - 1
      BY <1>1, <1>2, <1>8, <1>10, LimiterType
    <2>7. slots'[ch] <= limits'[ch]
      BY <1>2, <2>3, <2>5, <2>6, <1>10 DEF FilledBy
    <2>8. QED
      BY <1>2, <2>3, <2>4, <2>6, <2>7, <1>10 DEF FilledBy
  <1>11. QED
    BY <1>2, <1>3, <1>7, <1>8, <1>9, <1>10

\* Every step keeps the invariant.
LEMMA LimitStep ==
    ASSUME TypeOK, ShapeOK, LimitInv, [Next]_vars
    PROVE  LimitInv'
  <1>1. ConfigTypeOK /\ WorkTypeOK
    BY DEF TypeOK
  <1>2. ASSUME UNCHANGED <<limits, slots, crossed, workVars>>
        PROVE  LimitInv'
    <2>1. Using' = Using /\ UNCHANGED <<step, chan, limits, slots, crossed>>
      BY <1>2 DEF Using, At, workVars
    <2>2. \A w, ch : Holds(w, ch)' <=> Holds(w, ch)
      BY <2>1 DEF Holds
    <2>3. ~crossed => \A w \in Using' : chan'[w[1]][w[2]] = Limiter
      BY <2>1 DEF LimitInv
    <2>4. QED
      BY <2>1, <2>2, <2>3, LimitKept
  <1>3. ASSUME ReplaceLimiter
        PROVE  LimitInv'
    <2>1. CASE limits' = limits
      <3>1. limits' # Append(limits, config.limit)
        <4>1. Len(Append(limits, config.limit)) = Len(limits) + 1 /\ Len(limits) \in Nat
          BY <1>1 DEF ConfigTypeOK, ConfigsAssumption
        <4>2. QED
          BY <2>1, <4>1
      <3>2. UNCHANGED <<slots, crossed, workVars>>
        BY <1>3, <3>1 DEF ReplaceLimiter
      <3>3. QED
        BY <1>2, <2>1, <3>2
    <2>2. CASE limits' # limits
      BY <1>3, <2>2, LimitReplaced
    <2>3. QED
      BY <2>1, <2>2
  <1>4. ASSUME NEW c \in Calls, Split(c) \/ Spread(c)
        PROVE  LimitInv'
    <2>1. PICK how, js : Begin(c, how, js)
      BY <1>4 DEF Split, Spread
    <2>2. UNCHANGED <<limits, slots, crossed, chan>>
      BY <2>1 DEF Begin, configVars
    <2>3. \A d \in Calls : \A i \in Shares :
            step'[d][i] = IF d # c THEN step[d][i]
                          ELSE IF i \in DOMAIN js THEN "ready" ELSE "none"
      BY <1>1, <2>1, BeginEffect
    <2>4. phase[c] \notin {"working", "done"}
      BY <1>4 DEF Split, Spread
    <2>5. \A i \in Shares : step[c][i] = "none"
      BY <2>4 DEF ShapeOK
    <2>6. ASSUME NEW w \in Calls \X Shares
          PROVE  \/ step'[w[1]][w[2]] = step[w[1]][w[2]]
                 \/ /\ step[w[1]][w[2]] = "none"
                    /\ step'[w[1]][w[2]] \in {"none", "ready"}
      BY <2>3, <2>5
    <2>7. ASSUME NEW w \in Calls \X Shares, ~crossed
          PROVE  /\ \A ch \in 1 .. Limiter : Holds(w, ch)' <=> Holds(w, ch)
                 /\ w \in Using' => chan'[w[1]][w[2]] = Limiter
      <3>1. \A ch \in 1 .. Limiter : Holds(w, ch)' <=> Holds(w, ch)
        BY <2>2, <2>6 DEF Holds
      <3>2. w \in Using' => w \in Using
        BY <2>6 DEF Using, At
      <3>3. QED
        BY <2>2, <2>7, <3>1, <3>2 DEF LimitInv
    <2>8. QED
      BY <2>2, <2>7, LimitKept
  <1>5. ASSUME NEW c \in Calls, NEW i \in Shares,
               BatchCall(c, i) \/ SequentialCall(c, i) \/ Queue(c, i)
                 \/ ParallelCall(c, i)
        PROVE  LimitInv'
    <2>1. UNCHANGED <<limits, slots, crossed>>
      BY <1>5 DEF BatchCall, SequentialCall, Queue, ParallelCall, configVars
    <2>2. PICK s \in Steps : To(c, i, s)
      BY <1>5 DEF BatchCall, SequentialCall, Queue, ParallelCall, Steps
    <2>3. \A d \in Calls : \A j \in Shares :
            step'[d][j] = IF d = c /\ j = i THEN s ELSE step[d][j]
      BY <1>1, <2>2, ToEffect
    <2>4. \A d \in Calls : \A j \in Shares :
            d # c \/ j # i => chan'[d][j] = chan[d][j]
      <3>1. UNCHANGED chan \/ chan' = [chan EXCEPT ![c][i] = Limiter]
        BY <1>5 DEF BatchCall, SequentialCall, Queue, ParallelCall
      <3>2. QED
        BY <1>1, <3>1, AimEffect
    <2>5. \/ step[c][i] = "ready" /\ step'[c][i] = "done"
          \/ step[c][i] = "ready" /\ step'[c][i] = "waiting" /\ chan'[c][i] = Limiter
          \/ step[c][i] = "calling" /\ step'[c][i] = "releasing" /\ chan'[c][i] = Limiter
      <3>1. CASE BatchCall(c, i) \/ SequentialCall(c, i)
        <4>1. step[c][i] = "ready" /\ To(c, i, "done")
          BY <3>1 DEF BatchCall, SequentialCall
        <4>2. QED
          BY <1>1, <4>1, ToEffect DEF Steps
      <3>2. CASE Queue(c, i)
        <4>1. /\ step[c][i] = "ready" /\ To(c, i, "waiting")
              /\ chan' = [chan EXCEPT ![c][i] = Limiter]
          BY <3>2 DEF Queue
        <4>2. step'[c][i] = "waiting"
          BY <1>1, <4>1, ToEffect DEF Steps
        <4>3. chan'[c][i] = Limiter
          BY <1>1, <4>1, AimEffect
        <4>4. QED
          BY <4>1, <4>2, <4>3
      <3>3. CASE ParallelCall(c, i)
        <4>1. /\ step[c][i] = "calling" /\ To(c, i, "releasing")
              /\ chan' = [chan EXCEPT ![c][i] = Limiter]
          BY <3>3 DEF ParallelCall
        <4>2. step'[c][i] = "releasing"
          BY <1>1, <4>1, ToEffect DEF Steps
        <4>3. chan'[c][i] = Limiter
          BY <1>1, <4>1, AimEffect
        <4>4. QED
          BY <4>1, <4>2, <4>3
      <3>4. QED
        BY <1>5, <3>1, <3>2, <3>3
    <2>6. ASSUME NEW w \in Calls \X Shares, ~crossed
          PROVE  /\ \A ch \in 1 .. Limiter : Holds(w, ch)' <=> Holds(w, ch)
                 /\ w \in Using' => chan'[w[1]][w[2]] = Limiter
      <3>1. \A v \in Using : chan[v[1]][v[2]] = Limiter
        BY <2>6 DEF LimitInv
      <3>2. CASE w = <<c, i>>
        <4>1. step[c][i] = "calling" => chan[c][i] = Limiter
          BY <3>1, <3>2 DEF Using, At
        <4>2. \A ch : Holds(w, ch)' <=> Holds(w, ch)
          BY <2>5, <3>2, <4>1 DEF Holds
        <4>3. w \in Using' => chan'[w[1]][w[2]] = Limiter
          BY <2>5, <3>2 DEF Using, At
        <4>4. QED
          BY <4>2, <4>3
      <3>3. CASE w # <<c, i>>
        <4>1. /\ step'[w[1]][w[2]] = step[w[1]][w[2]]
              /\ chan'[w[1]][w[2]] = chan[w[1]][w[2]]
          BY <2>3, <2>4, <3>3
        <4>2. \A ch : Holds(w, ch)' <=> Holds(w, ch)
          BY <4>1 DEF Holds
        <4>3. w \in Using' => w \in Using
          BY <4>1 DEF Using, At
        <4>4. QED
          BY <3>1, <4>1, <4>2, <4>3
      <3>4. QED
        BY <3>2, <3>3
    <2>7. QED
      BY <2>1, <2>6, LimitKept
  <1>6. ASSUME NEW c \in Calls, NEW i \in Shares, Admit(c, i) \/ Release(c, i)
        PROVE  LimitInv'
    BY <1>6, LimitAdmit, LimitRelease
  <1>7. ASSUME NEW c \in Calls,
               \/ \E s \in Inputs : OptimizeEnrichment(c, s)
               \/ AskBatching(c) \/ AskSize(c) \/ Spin(c) \/ Return(c)
        PROVE  UNCHANGED <<limits, slots, crossed, workVars>>
    BY <1>7 DEF OptimizeEnrichment, AskBatching, AskSize, Spin, Return, configVars
  <1>8. ASSUME (\E g \in Configs : UpdateConfig(g)) \/ UNCHANGED vars
        PROVE  UNCHANGED <<limits, slots, crossed, workVars>>
    BY <1>8 DEF UpdateConfig, vars, configVars
  <1>9. QED
    BY <1>2, <1>3, <1>4, <1>5, <1>6, <1>7, <1>8 DEF Next, Decide, Work

\* As long as the limiter was never replaced under a goroutine that used it,
\* no more goroutines call EnrichLogs at once than it has room for, and none
\* waits for its release: for any number of calls, pods and updates.
THEOREM LimitCorrect == Spec => []LimitHeld
  <1>1. Init => TypeOK /\ ShapeOK /\ LimitInv
    BY TypeInit, ShapeInit, LimitInit
  <1>2. TypeOK /\ ShapeOK /\ LimitInv /\ [Next]_vars
          => (TypeOK /\ ShapeOK /\ LimitInv)'
    BY ConfigTypeStep, CallTypeStep, WorkTypeStep, ShapeStep, LimitStep
      DEF TypeOK
  <1>3. TypeOK /\ ShapeOK /\ LimitInv => LimitHeld
    BY LimitImplied
  <1>4. QED
    BY <1>1, <1>2, <1>3, PTL DEF Spec

-----------------------------------------------------------------------------
(* The shares of a list *)

\* js cuts the list s into shares: each of its pods is in one of them, no
\* other pod is, and if s repeats none, no two shares have one in common.
Cuts(js, s) ==
    /\ DOMAIN js \subseteq Shares
    /\ UNION {PodsOf(js[i]) : i \in DOMAIN js} = PodsOf(s)
    /\ ~Repeats(s) => \A i, j \in DOMAIN js : i # j => PodsOf(js[i]) \cap PodsOf(js[j]) = {}

\* A list that repeats nothing has a different pod at each place, and as many
\* as it is long.
LEMMA NoRepeats ==
    ASSUME NEW s \in UIDList, ~Repeats(s)
    PROVE  /\ Cardinality(UIDs(s)) = Len(s)
           /\ \A i, j \in 1 .. Len(s) : s[i] = s[j] => i = j
  <1>1. DOMAIN s = 1 .. Len(s) /\ Len(s) \in Nat
    BY DEF UIDList
  <1>2. s \in [DOMAIN s -> UIDs(s)]
    BY <1>1 DEF UIDs, UIDList
  <1>3. s \in Surjection(DOMAIN s, UIDs(s))
    BY <1>2 DEF Surjection, UIDs
  <1>4. IsFiniteSet(DOMAIN s) /\ Cardinality(DOMAIN s) = Len(s)
    <2>1. 1 \in Int /\ Len(s) \in Int
      BY <1>1
    <2>2. /\ IsFiniteSet(1 .. Len(s))
          /\ Cardinality(1 .. Len(s)) = IF 1 > Len(s) THEN 0 ELSE Len(s) - 1 + 1
      BY <2>1, FS_Interval
    <2>3. QED
      BY <1>1, <2>2
  <1>5. Cardinality(UIDs(s)) <= Len(s) /\ Cardinality(UIDs(s)) \in Nat
    BY <1>3, <1>4, FS_Surjection, FS_CardinalityType
  <1>6. Cardinality(UIDs(s)) = Len(s)
    BY <1>1, <1>5 DEF Repeats
  <1>7. s \in Injection(DOMAIN s, UIDs(s))
    BY <1>3, <1>4, <1>6, FS_Surjection
  <1>8. \A i, j \in DOMAIN s : s[i] = s[j] => i = j
    BY <1>7, Fun_InjectionProperties
  <1>9. QED
    BY <1>1, <1>6, <1>8

\* Every pod on its own.
LEMMA SinglesCut ==
    ASSUME NEW s \in Inputs
    PROVE  Cuts(Singles(s), s)
  <1>1. s \in UIDList /\ DOMAIN s = 1 .. Len(s) /\ Len(s) \in Nat /\ Len(s) <= MaxLength
        /\ MaxLength \in Nat
    BY InputType DEF UIDList
  <1>2. DOMAIN Singles(s) = 1 .. Len(s) /\ \A i \in 1 .. Len(s) : Singles(s)[i] = <<s[i]>>
    BY <1>1 DEF Singles
  <1>3. \A i \in 1 .. Len(s) : \A x : x \in PodsOf(Singles(s)[i]) <=> x = s[i] /\ x # NoUID
    <2>1. ASSUME NEW x PROVE UIDs(<<x>>) = {x}
      <3>1. DOMAIN <<x>> = {1} /\ <<x>>[1] = x
        OBVIOUS
      <3>2. QED
        BY <3>1 DEF UIDs
    <2>2. QED
      BY <1>2, <2>1 DEF PodsOf
  <1>4. 1 .. Len(s) \subseteq Shares
    BY <1>1 DEF Shares
  <1>5. UNION {PodsOf(Singles(s)[i]) : i \in 1 .. Len(s)} = PodsOf(s)
    <2>1. UNION {PodsOf(Singles(s)[i]) : i \in 1 .. Len(s)}
            = {s[i] : i \in 1 .. Len(s)} \ {NoUID}
      <3> DEFINE all == UNION {PodsOf(Singles(s)[i]) : i \in 1 .. Len(s)}
                 places == {s[i] : i \in 1 .. Len(s)}
      <3>1. \A x : x \in all <=> \E i \in 1 .. Len(s) : x \in PodsOf(Singles(s)[i])
        OBVIOUS
      <3>2. \A x : x \in places <=> \E i \in 1 .. Len(s) : x = s[i]
        BY Zenon
      <3> HIDE DEF all, places
      <3>3. ASSUME NEW x, x \in all PROVE x \in places /\ x # NoUID
        <4>1. PICK i \in 1 .. Len(s) : x \in PodsOf(Singles(s)[i])
          BY <3>1, <3>3
        <4>2. QED
          BY <1>3, <3>2, <4>1
      <3>4. ASSUME NEW x, x \in places, x # NoUID PROVE x \in all
        <4>1. PICK i \in 1 .. Len(s) : x = s[i]
          BY <3>2, <3>4
        <4>2. x \in PodsOf(Singles(s)[i])
          BY <1>3, <3>4, <4>1
        <4>3. QED
          BY <3>1, <4>2
      <3>5. all = places \ {NoUID}
        BY <3>3, <3>4
      <3>6. QED
        BY <3>5 DEF all, places
    <2>2. QED
      BY <1>1, <2>1 DEF PodsOf, UIDs
  <1>6. ~Repeats(s) => \A i, j \in 1 .. Len(s) :
            i # j => PodsOf(Singles(s)[i]) \cap PodsOf(Singles(s)[j]) = {}
    <2> SUFFICES ASSUME ~Repeats(s), NEW i \in 1 .. Len(s), NEW j \in 1 .. Len(s), i # j
                 PROVE  PodsOf(Singles(s)[i]) \cap PodsOf(Singles(s)[j]) = {}
      OBVIOUS
    <2>1. s[i] # s[j]
      BY <1>1, NoRepeats
    <2>2. \A x : ~(x \in PodsOf(Singles(s)[i]) /\ x \in PodsOf(Singles(s)[j]))
      BY <1>3, <2>1, Zenon
    <2>3. QED
      BY <2>2
  <1>7. QED
    BY <1>2, <1>4, <1>5, <1>6 DEF Cuts

\* A larger factor makes a larger product.
LEMMA Products ==
    ASSUME NEW a \in Nat, NEW b \in Nat, NEW g \in Nat, a <= b
    PROVE  a * g <= b * g /\ a * g \in Nat /\ b * g \in Nat
  <1>1. PICK d \in Nat : b = a + d
    <2>1. b - a \in Nat /\ b = a + (b - a)
      OBVIOUS
    <2>2. QED
      BY <2>1
  <1>2. b * g = a * g + d * g /\ d * g \in Nat /\ a * g \in Nat
    BY <1>1
  <1>3. QED
    BY <1>2

\* Division leaves a remainder below the divisor.
LEMMA Division ==
    ASSUME NEW t \in Nat, NEW g \in Nat \ {0}
    PROVE  /\ t \div g \in Nat
           /\ (t \div g) * g <= t
           /\ t < (t \div g) * g + g
  <1>1. g * (t \div g) <= t /\ t <= g * (t \div g) + g - 1
    OBVIOUS
  <1>2. t \div g \in Nat
    OBVIOUS
  <1>3. g * (t \div g) \in Int /\ g * (t \div g) = (t \div g) * g
    BY <1>2
  <1>4. QED
    BY <1>1, <1>2, <1>3

\* The k-th batch has the pods from (k - 1) * size + 1 on, and the batches
\* reach to the end of the list.
LEMMA BatchBounds ==
    ASSUME NEW s \in UIDList, NEW size \in Nat \ {0}
    PROVE  LET n == (Len(s) + size - 1) \div size
           IN  /\ n \in Nat /\ n <= Len(s) /\ Len(s) <= n * size
               /\ CreateBatches(s, size) \in Seq(UIDList)
               /\ DOMAIN CreateBatches(s, size) = 1 .. n
               /\ \A k \in 1 .. n :
                    UIDs(CreateBatches(s, size)[k])
                      = {s[i] : i \in {i \in 1 .. Len(s) :
                                         (k - 1) * size < i /\ i <= k * size}}
  <1> DEFINE n == (Len(s) + size - 1) \div size
             end(k) == IF k * size < Len(s) THEN k * size ELSE Len(s)
             places(k) == {i \in 1 .. Len(s) : (k - 1) * size < i /\ i <= k * size}
  <1>1. Len(s) \in Nat /\ DOMAIN s = 1 .. Len(s)
    BY DEF UIDList
  <1>2. /\ n \in Nat /\ n * size <= Len(s) + size - 1
        /\ Len(s) + size - 1 < n * size + size
    BY <1>1, Division
  <1>3. n * size \in Nat
    BY <1>2
  <1>4. Len(s) <= n * size
    BY <1>1, <1>2, <1>3
  <1>5. n <= Len(s)
    <2> SUFFICES ASSUME Len(s) + 1 <= n PROVE FALSE
      BY <1>1, <1>2
    <2>1. (Len(s) + 1) * size <= n * size
      <3> HIDE DEF n
      <3> QED BY <1>1, <1>2, Products
    <2>2. (Len(s) + 1) * size = Len(s) * size + size /\ Len(s) * size \in Nat
      BY <1>1
    <2>3. Len(s) <= Len(s) * size
      <3>1. size = 1 + (size - 1) /\ size - 1 \in Nat
        OBVIOUS
      <3>2. Len(s) * size = Len(s) + Len(s) * (size - 1) /\ Len(s) * (size - 1) \in Nat
        BY <1>1, <3>1
      <3>3. QED
        BY <1>1, <3>2
    <2>4. QED
      <3> HIDE DEF n
      <3> QED BY <1>1, <1>2, <1>3, <2>1, <2>2, <2>3
  <1>6. /\ DOMAIN CreateBatches(s, size) = 1 .. n
        /\ \A k \in 1 .. n :
             CreateBatches(s, size)[k] = SubSeq(s, (k - 1) * size + 1, end(k))
    BY DEF CreateBatches
  <1>7. ASSUME NEW k \in 1 .. n
        PROVE  UIDs(SubSeq(s, (k - 1) * size + 1, end(k))) = {s[i] : i \in places(k)}
    <2> DEFINE m == (k - 1) * size + 1
               part == SubSeq(s, m, end(k))
    <2>1. k - 1 \in Nat /\ k \in Nat
      BY <1>2
    <2>2. (k - 1) * size \in Nat /\ k * size \in Nat /\ k * size = (k - 1) * size + size
      BY <2>1
    <2>3. m \in Nat \ {0} /\ end(k) \in Nat /\ end(k) <= Len(s)
      BY <1>1, <2>2
    <2>4. places(k) = m .. end(k)
      <3> HIDE DEF n
      <3>1. ASSUME NEW i \in places(k) PROVE i \in m .. end(k)
        BY <1>1, <2>2
      <3>2. ASSUME NEW i \in m .. end(k) PROVE i \in places(k)
        BY <1>1, <2>2, <2>3
      <3>3. QED
        BY <3>1, <3>2
    <2>5. UIDs(part) = {s[i] : i \in m .. end(k)}
      <3>0. \A i \in m .. end(k) : s[i] \in Pods \cup {NoUID}
        BY <1>1, <2>3 DEF UIDList
      <3>1. /\ part \in Seq(Pods \cup {NoUID})
            /\ Len(part) = IF m <= end(k) THEN end(k) - m + 1 ELSE 0
            /\ \A j \in 1 .. end(k) - m + 1 : part[j] = s[m + j - 1]
        <4> HIDE DEF m, end
        <4>1. m \in Int /\ end(k) \in Int
          BY <2>3
        <4>2. QED
          BY <3>0, <4>1, SubSeqProperties
      <3>2. DOMAIN part = 1 .. (1 + end(k) - m)
        <4> HIDE DEF m, end, part
        <4>1. DOMAIN part = 1 .. Len(part)
          BY <3>1
        <4>2. QED
          BY <2>3, <3>1, <4>1
      <3>3. UIDs(part) = {part[j] : j \in 1 .. (1 + end(k) - m)}
        BY <3>2 DEF UIDs
      <3> HIDE DEF part
      <3>4. ASSUME NEW j \in 1 .. (1 + end(k) - m)
            PROVE  part[j] \in {s[i] : i \in m .. end(k)}
        <4>1. m + j - 1 \in m .. end(k) /\ j \in 1 .. end(k) - m + 1
          BY <2>3
        <4>2. part[j] = s[m + j - 1]
          BY <3>1, <4>1
        <4> HIDE DEF m, end
        <4>3. QED
          BY <4>1, <4>2
      <3>5. ASSUME NEW i \in m .. end(k)
            PROVE  s[i] \in {part[j] : j \in 1 .. (1 + end(k) - m)}
        <4> DEFINE j == i - m + 1
        <4>1. /\ j \in 1 .. (1 + end(k) - m) /\ j \in 1 .. end(k) - m + 1
              /\ m + j - 1 = i
          BY <2>3
        <4> HIDE DEF j
        <4>2. part[j] = s[m + j - 1]
          BY <3>1, <4>1
        <4> HIDE DEF m, end
        <4>3. QED
          BY <4>1, <4>2
      <3>6. QED
        BY <3>3, <3>4, <3>5
    <2>6. QED
      BY <2>4, <2>5
  <1>8. QED
    BY <1>2, <1>4, <1>5, <1>6, <1>7, BatchesType

\* The batches of a list cut it.
LEMMA BatchesCut ==
    ASSUME NEW s \in Inputs, NEW size \in Nat \ {0}
    PROVE  Cuts(CreateBatches(s, size), s)
  <1> DEFINE n == (Len(s) + size - 1) \div size
             js == CreateBatches(s, size)
             places(k) == {i \in 1 .. Len(s) : (k - 1) * size < i /\ i <= k * size}
  <1>1. s \in UIDList /\ DOMAIN s = 1 .. Len(s) /\ Len(s) \in Nat /\ Len(s) <= MaxLength
        /\ MaxLength \in Nat
    BY InputType DEF UIDList
  <1>2. /\ n \in Nat /\ n <= Len(s) /\ Len(s) <= n * size
        /\ DOMAIN js = 1 .. n
        /\ \A k \in 1 .. n : UIDs(js[k]) = {s[i] : i \in places(k)}
    BY <1>1, BatchBounds
  <1> HIDE DEF n, js
  <1>3. DOMAIN js \subseteq Shares
    BY <1>1, <1>2 DEF Shares
  <1>4. ASSUME NEW i \in 1 .. Len(s)
        PROVE  \E k \in 1 .. n : i \in places(k)
    <2> DEFINE q == (i - 1) \div size
    <2>1. q \in Nat /\ q * size <= i - 1 /\ i - 1 < q * size + size
      BY Division
    <2> HIDE DEF q
    <2>2. q * size \in Nat /\ (q + 1) * size = q * size + size
      BY <2>1
    <2>3. q + 1 <= n
      <3> SUFFICES ASSUME n <= q PROVE FALSE
        BY <1>2, <2>1
      <3>1. n * size <= q * size /\ n * size \in Nat
        BY <1>2, <2>1, Products
      <3>2. QED
        BY <1>1, <1>2, <2>1, <2>2, <3>1
    <2>4. q + 1 \in 1 .. n /\ (q + 1) - 1 = q
      BY <1>2, <2>1, <2>3
    <2>5. i \in places(q + 1)
      BY <2>1, <2>2, <2>4
    <2>6. QED
      BY <2>4, <2>5
  <1>5. UNION {PodsOf(js[k]) : k \in DOMAIN js} = PodsOf(s)
    <2>1. UIDs(s) = {s[i] : i \in 1 .. Len(s)}
      BY <1>1 DEF UIDs
    <2>2. ASSUME NEW k \in 1 .. n PROVE UIDs(js[k]) \subseteq UIDs(s)
      <3>1. UIDs(js[k]) = {s[i] : i \in places(k)}
        BY <1>2
      <3>2. QED
        BY <2>1, <3>1
    <2>3. ASSUME NEW i \in 1 .. Len(s)
          PROVE  \E k \in 1 .. n : s[i] \in UIDs(js[k])
      <3>1. PICK k \in 1 .. n : i \in places(k)
        BY <1>4
      <3>2. UIDs(js[k]) = {s[j] : j \in places(k)}
        BY <1>2
      <3>3. QED
        BY <3>1, <3>2
    <2>4. UNION {UIDs(js[k]) : k \in 1 .. n} = UIDs(s)
      <3> HIDE DEF places
      <3> QED BY <2>1, <2>2, <2>3
    <2>5. UNION {PodsOf(js[k]) : k \in 1 .. n} = (UNION {UIDs(js[k]) : k \in 1 .. n}) \ {NoUID}
      BY DEF PodsOf
    <2>6. QED
      BY <1>2, <2>4, <2>5 DEF PodsOf
  <1>6. ASSUME ~Repeats(s), NEW k \in 1 .. n, NEW l \in 1 .. n, k < l
        PROVE  UIDs(js[k]) \cap UIDs(js[l]) = {}
    <2>1. k * size <= (l - 1) * size /\ k * size \in Nat /\ (l - 1) * size \in Nat
      BY <1>2, <1>6, Products
    <2>2. ASSUME NEW i \in places(k), NEW j \in places(l) PROVE i # j
      BY <1>1, <2>1
    <2>3. \A i, j \in 1 .. Len(s) : s[i] = s[j] => i = j
      BY <1>1, <1>6, NoRepeats
    <2>4. UIDs(js[k]) = {s[i] : i \in places(k)} /\ UIDs(js[l]) = {s[i] : i \in places(l)}
      BY <1>2
    <2>5. ASSUME NEW i \in places(k), NEW j \in places(l) PROVE s[i] # s[j]
      BY <2>2, <2>3
    <2>6. QED
      BY <2>4, <2>5
  <1>7. ~Repeats(s) => \A k, l \in 1 .. n : k # l => PodsOf(js[k]) \cap PodsOf(js[l]) = {}
    <2> SUFFICES ASSUME ~Repeats(s), NEW k \in 1 .. n, NEW l \in 1 .. n, k # l
                 PROVE  UIDs(js[k]) \cap UIDs(js[l]) = {}
      BY DEF PodsOf
    <2>1. k < l \/ l < k
      BY <1>2
    <2>2. QED
      BY <1>6, <2>1
  <1>8. QED
    BY <1>2, <1>3, <1>5, <1>7 DEF Cuts, js


-----------------------------------------------------------------------------
(* Answers *)

\* The shares of call c that were answered, and the pods in them.
Answered(c) == {i \in DOMAIN jobs[c] : step[c][i] = "done"}

Covered(c) == UNION {PodsOf(jobs[c][i]) : i \in Answered(c)}

\* The strategies whose answers are added up.
Collecting(c) == phase[c] \in {"working", "done"} /\ path[c] \in {"batch", "sequential"}

NoAnswer == [meta |-> {}, failed |-> {}, count |-> 0]

\* A call gets its strategy with its shares, which cut its list; only goroutines
\* of the parallel path use a limiter.
PathOK(c) ==
    /\ phase[c] # "idle" => input[c] \in Inputs
    /\ phase[c] \in {"working", "done"} => path[c] # "none"
    /\ phase[c] \notin {"working", "done"} => path[c] = "none" /\ result[c] = NoAnswer
    /\ Collecting(c) => Cuts(jobs[c], input[c])
    /\ \A i \in Shares :
         step[c][i] \in {"waiting", "calling", "releasing"} => path[c] = "parallel"

\* What the result of a call holds on the way: the pods of the shares that were
\* answered, and each of them once.
ResultOK(c) ==
    Collecting(c) =>
        /\ result[c].meta \cup (result[c].failed \ {NoUID}) = Covered(c)
        /\ ~Repeats(input[c]) => /\ result[c].meta \cap result[c].failed = {}
                                 /\ result[c].count = Cardinality(result[c].meta)
        /\ phase[c] = "done" => Answered(c) = DOMAIN jobs[c]

\* An answer from the cache has every pod of the list.
CacheOK(c) ==
    path[c] = "cache" =>
        /\ result[c].meta = PodsOf(input[c]) /\ result[c].failed = {}
        /\ result[c].count = Cardinality(result[c].meta)

AnswerOK(c) == PathOK(c) /\ ResultOK(c) /\ CacheOK(c)

AnswerInv == \A c \in Calls : AnswerOK(c)

\* What the invariant says of a call depends on the variables of that call.
LEMMA AnswerLocal ==
    ASSUME NEW c \in Calls, AnswerOK(c),
           phase'[c] = phase[c], input'[c] = input[c], path'[c] = path[c],
           jobs'[c] = jobs[c], result'[c] = result[c], step'[c] = step[c]
    PROVE  AnswerOK(c)'
  BY DEF AnswerOK, PathOK, ResultOK, CacheOK, Collecting, Answered, Covered

\* In the beginning nothing was asked.
LEMMA AnswerInit == Init => AnswerInv
  BY DEF Init, AnswerInv, AnswerOK, PathOK, ResultOK, CacheOK, Collecting, NoAnswer

\* A call that is done has answered for its whole list.
LEMMA AnswerImplied ==
    ASSUME TypeOK, AnswerInv
    PROVE  AnswersComplete
  <1> SUFFICES ASSUME NEW c \in Calls, phase[c] = "done", path[c] # "parallel"
               PROVE  LET r == result[c]
                      IN  /\ r.meta \cup (r.failed \ {NoUID}) = PodsOf(input[c])
                          /\ ~Repeats(input[c]) => /\ r.meta \cap r.failed = {}
                                                   /\ r.count = Cardinality(r.meta)
    BY DEF AnswersComplete
  <1>1. PathOK(c) /\ ResultOK(c) /\ CacheOK(c)
    BY DEF AnswerInv, AnswerOK
  <1>2. path[c] \in {"cache", "batch", "sequential"}
    BY <1>1 DEF PathOK, TypeOK, CallTypeOK, Paths
  <1>3. CASE path[c] = "cache"
    BY <1>1, <1>3 DEF CacheOK
  <1>4. CASE path[c] \in {"batch", "sequential"}
    <2>1. Collecting(c)
      BY <1>4 DEF Collecting
    <2>2. Cuts(jobs[c], input[c]) /\ Answered(c) = DOMAIN jobs[c]
      BY <1>1, <2>1 DEF PathOK, ResultOK
    <2>3. Covered(c) = PodsOf(input[c])
      BY <2>2 DEF Covered, Cuts
    <2>4. QED
      BY <1>1, <2>1, <2>3 DEF ResultOK
  <1>5. QED
    BY <1>2, <1>3, <1>4

\* A call begins: the cache answers it, or nothing does yet.
LEMMA AnswerAsked ==
    ASSUME TypeOK, AnswerInv, NEW c \in Calls, NEW s \in Inputs, OptimizeEnrichment(c, s)
    PROVE  AnswerOK(c)'
  <1>1. PathOK(c) /\ phase[c] = "idle" /\ result[c] = NoAnswer /\ path[c] = "none"
    BY DEF AnswerInv, AnswerOK, PathOK, OptimizeEnrichment
  <1>2. input'[c] = s /\ UNCHANGED <<jobs, step>>
    BY DEF OptimizeEnrichment, TypeOK, CallTypeOK, workVars
  <1>3. PICK hit \in SUBSET PodsOf(s) :
          IF hit = UIDs(s) /\ ~Repeats(s)
            THEN /\ phase' = [phase EXCEPT ![c] = "done"]
                 /\ path' = [path EXCEPT ![c] = "cache"]
                 /\ result' = [result EXCEPT ![c] =
                                 [@ EXCEPT !.meta = hit, !.count = Len(s)]]
            ELSE /\ phase' = [phase EXCEPT ![c] = "batching"]
                 /\ UNCHANGED <<path, result>>
    BY DEF OptimizeEnrichment
  <1>4. \A i \in Shares : step'[c][i] \notin {"waiting", "calling", "releasing"}
    BY <1>1, <1>2 DEF PathOK
  <1>5. CASE hit = UIDs(s) /\ ~Repeats(s)
    <2>1. phase'[c] = "done" /\ path'[c] = "cache"
      BY <1>3, <1>5 DEF TypeOK, CallTypeOK
    <2>2. /\ result'[c].meta = hit /\ result'[c].failed = {}
          /\ result'[c].count = Len(s)
      <3>1. result'[c] = [result[c] EXCEPT !.meta = hit, !.count = Len(s)]
        BY <1>3, <1>5 DEF TypeOK, CallTypeOK
      <3>2. result'[c] = [NoAnswer EXCEPT !.meta = hit, !.count = Len(s)]
        BY <1>1, <3>1
      <3>3. QED
        BY <3>2 DEF NoAnswer
    <2>3. hit = PodsOf(s)
      BY <1>5 DEF PodsOf
    <2>4. Cardinality(hit) = Len(s)
      BY <1>5, NoRepeats, InputType
    <2>5. QED
      BY <1>2, <1>4, <2>1, <2>2, <2>3, <2>4
      DEF AnswerOK, PathOK, ResultOK, CacheOK, Collecting
  <1>6. CASE ~(hit = UIDs(s) /\ ~Repeats(s))
    <2>1. phase'[c] = "batching" /\ path'[c] = "none" /\ result'[c] = NoAnswer
      BY <1>1, <1>3, <1>6 DEF TypeOK, CallTypeOK
    <2>2. QED
      BY <1>2, <1>4, <2>1 DEF AnswerOK, PathOK, ResultOK, CacheOK, Collecting
  <1>7. QED
    BY <1>5, <1>6

\* A call goes to work with nothing answered.
LEMMA AnswerBegun ==
    ASSUME TypeOK, AnswerInv, NEW c \in Calls,
           NEW how \in {"batch", "parallel", "sequential"}, NEW js, Begin(c, how, js),
           phase[c] \in {"splitting", "spreading"}, Cuts(js, input[c])
    PROVE  AnswerOK(c)'
  <1>1. PathOK(c) /\ result[c] = NoAnswer /\ input[c] \in Inputs
    BY DEF AnswerInv, AnswerOK, PathOK
  <1>2. /\ phase'[c] = "working" /\ path'[c] = how /\ jobs'[c] = js
        /\ input'[c] = input[c] /\ result'[c] = NoAnswer
    BY <1>1 DEF Begin, TypeOK, CallTypeOK
  <1>3. \A i \in Shares : step'[c][i] \in {"ready", "none"}
    BY BeginEffect DEF TypeOK
  <1>4. Answered(c)' = {}
    BY <1>2, <1>3 DEF Answered, Cuts
  <1>5. Covered(c)' = {}
    BY <1>4 DEF Covered
  <1>6. PathOK(c)'
    BY <1>1, <1>2, <1>3 DEF PathOK, Collecting
  <1>7. ResultOK(c)'
    BY <1>2, <1>5, FS_EmptySet DEF ResultOK, NoAnswer
  <1>8. QED
    BY <1>2, <1>6, <1>7 DEF AnswerOK, CacheOK

\* An answer of EnrichLogs for a share is added: the pods of the share are
\* covered, and none of them was before.
LEMMA AnswerCollected ==
    ASSUME TypeOK, ShapeOK, AnswerInv, NEW c \in Calls, NEW i \in Shares,
           BatchCall(c, i) \/ SequentialCall(c, i)
    PROVE  AnswerOK(c)'
  <1> DEFINE share == jobs[c][i]
             r     == result[c]
  <1>1. PathOK(c) /\ ResultOK(c)
    BY DEF AnswerInv, AnswerOK
  <1>2. /\ path[c] \in {"batch", "sequential"} /\ step[c][i] = "ready"
        /\ To(c, i, "done") /\ UNCHANGED <<phase, input, path, jobs>>
    BY DEF BatchCall, SequentialCall
  <1>3. i \in DOMAIN jobs[c] /\ Collecting(c)
    BY <1>2 DEF ShapeOK, Collecting
  <1>4. PICK found \in SUBSET PodsOf(share) : Collect(c, i, found)
    BY DEF BatchCall, SequentialCall
  <1>5. \A j \in Shares : step'[c][j] = IF j = i THEN "done" ELSE step[c][j]
    BY <1>2, ToEffect DEF TypeOK, Steps
  <1>6. Cuts(jobs[c], input[c]) /\ input[c] \in Inputs
    BY <1>1, <1>3 DEF PathOK, Collecting
  <1>7. Answered(c)' = Answered(c) \cup {i} /\ i \notin Answered(c)
    BY <1>2, <1>3, <1>5, <1>6 DEF Answered, Cuts
  <1>8. Covered(c)' = Covered(c) \cup PodsOf(share)
    BY <1>2, <1>7 DEF Covered
  <1>9. phase[c] # "done"
    BY <1>1, <1>3, <1>7 DEF ResultOK
  <1>10. PICK lone \in SUBSET {NoUID} :
           result'[c] = [meta   |-> r.meta \cup found,
                         failed |-> r.failed \cup (PodsOf(share) \ found) \cup lone,
                         count  |-> r.count + Cardinality(found)]
    BY <1>4 DEF Collect, TypeOK, CallTypeOK
  <1>11. NoUID \notin PodsOf(share) /\ NoUID \notin r.meta /\ NoUID \notin found
    BY InputsAssumption DEF InputsAssumption, PodsOf, TypeOK, CallTypeOK
  <1>12. result'[c].meta \cup (result'[c].failed \ {NoUID}) = Covered(c)'
    BY <1>1, <1>3, <1>8, <1>10, <1>11 DEF ResultOK
  <1>13. ASSUME ~Repeats(input[c])
         PROVE  /\ result'[c].meta \cap result'[c].failed = {}
                /\ result'[c].count = Cardinality(result'[c].meta)
    <2>1. PodsOf(share) \cap Covered(c) = {}
      <3>1. ASSUME NEW j \in Answered(c) PROVE PodsOf(share) \cap PodsOf(jobs[c][j]) = {}
        BY <1>3, <1>6, <1>7, <1>13 DEF Cuts, Answered
      <3>2. QED
        BY <3>1 DEF Covered
    <2>2. /\ r.meta \cup (r.failed \ {NoUID}) = Covered(c)
          /\ r.meta \cap r.failed = {} /\ r.count = Cardinality(r.meta)
      BY <1>1, <1>3, <1>13 DEF ResultOK
    <2>3. result'[c].meta \cap result'[c].failed = {}
      BY <1>10, <1>11, <2>1, <2>2
    <2>4. IsFiniteSet(found) /\ IsFiniteSet(r.meta)
      <3>1. share \in UIDList /\ input[c] \in UIDList
        BY <1>3 DEF TypeOK, CallTypeOK
      <3>2. IsFiniteSet(PodsOf(share)) /\ IsFiniteSet(PodsOf(input[c]))
        BY <3>1, PodsType, FS_Subset DEF PodsOf
      <3>3. Covered(c) \subseteq PodsOf(input[c])
        BY <1>6 DEF Covered, Answered, Cuts
      <3>4. QED
        BY <2>2, <3>2, <3>3, FS_Subset
    <2>5. r.meta \cap found = {}
      BY <2>1, <2>2
    <2>6. Cardinality(r.meta \cup found) = Cardinality(r.meta) + Cardinality(found)
      <3>1. /\ Cardinality(r.meta) \in Nat /\ Cardinality(found) \in Nat
            /\ Cardinality(r.meta \cap found) = 0
        BY <2>4, <2>5, FS_CardinalityType, FS_EmptySet
      <3>2. Cardinality(r.meta \cup found)
              = Cardinality(r.meta) + Cardinality(found) - Cardinality(r.meta \cap found)
        BY <2>4, FS_Union
      <3>3. QED
        BY <3>1, <3>2
    <2>7. QED
      BY <1>10, <2>2, <2>3, <2>6
  <1>14. PathOK(c)'
    BY <1>1, <1>2, <1>3, <1>5 DEF PathOK, Collecting
  <1>15. ResultOK(c)'
    BY <1>2, <1>9, <1>12, <1>13 DEF ResultOK
  <1>16. QED
    BY <1>2, <1>14, <1>15 DEF AnswerOK, CacheOK

\* A goroutine of the parallel path leaves the answer of its call as it is.
LEMMA AnswerParallel ==
    ASSUME TypeOK, AnswerInv, NEW c \in Calls, NEW i \in Shares,
           Queue(c, i) \/ Admit(c, i) \/ ParallelCall(c, i) \/ Release(c, i)
    PROVE  AnswerOK(c)'
  <1>1. PathOK(c)
    BY DEF AnswerInv, AnswerOK
  <1>2. path[c] = "parallel" /\ UNCHANGED callVars
    BY <1>1 DEF PathOK, Queue, Admit, ParallelCall, Release
  <1>3. QED
    BY <1>1, <1>2 DEF AnswerOK, PathOK, ResultOK, CacheOK, Collecting, callVars

\* Every step keeps what is known of answers.
LEMMA AnswerStep ==
    ASSUME TypeOK, ShapeOK, AnswerInv, [Next]_vars
    PROVE  AnswerInv'
  <1> SUFFICES ASSUME NEW d \in Calls PROVE AnswerOK(d)'
    BY DEF AnswerInv
  <1>1. AnswerOK(d) /\ CallTypeOK /\ WorkTypeOK /\ ConfigTypeOK
    BY DEF AnswerInv, TypeOK
  <1>2. ASSUME UNCHANGED <<callVars, step>>
        PROVE  AnswerOK(d)'
    BY <1>1, <1>2, AnswerLocal DEF callVars
  <1>3. ASSUME NEW c \in Calls, NEW s \in Inputs, OptimizeEnrichment(c, s)
        PROVE  AnswerOK(d)'
    <2>1. CASE d = c
      BY <1>3, <2>1, AnswerAsked
    <2>2. CASE d # c
      <3>1. /\ phase'[d] = phase[d] /\ input'[d] = input[d] /\ path'[d] = path[d]
            /\ jobs'[d] = jobs[d] /\ result'[d] = result[d] /\ step'[d] = step[d]
        BY <1>1, <1>3, <2>2 DEF OptimizeEnrichment, CallTypeOK, workVars
      <3>2. QED
        BY <1>1, <3>1, AnswerLocal
    <2>3. QED
      BY <2>1, <2>2
  <1>4. ASSUME NEW c \in Calls, AskBatching(c) \/ AskSize(c) \/ Spin(c)
        PROVE  AnswerOK(d)'
    <2>1. PICK x \in {"sizing", "spreading", "splitting", "spinning"} :
            phase' = [phase EXCEPT ![c] = x]
      BY <1>4 DEF AskBatching, AskSize, Spin
    <2>2. /\ phase[c] \in {"batching", "sizing", "splitting"}
          /\ UNCHANGED <<input, path, jobs, result, step>>
      BY <1>4 DEF AskBatching, AskSize, Spin, workVars
    <2>3. phase'[d] = IF d = c THEN x ELSE phase[d]
      BY <1>1, <2>1 DEF CallTypeOK
    <2>4. QED
      BY <1>1, <2>2, <2>3 DEF AnswerOK, PathOK, ResultOK, CacheOK, Collecting, Answered,
                              Covered
  <1>5. ASSUME NEW c \in Calls, Split(c) \/ Spread(c)
        PROVE  AnswerOK(d)'
    <2>1. PICK how \in {"batch", "parallel", "sequential"}, js \in
                 {Singles(input[c]), CreateBatches(input[c], config.batchSize)} :
            Begin(c, how, js) /\ Cuts(js, input[c])
      <3>1. input[c] \in Inputs
        BY <1>5 DEF Split, Spread, AnswerInv, AnswerOK, PathOK
      <3>2. CASE Split(c)
        <4>1. config.batchSize \in Nat \ {0}
          BY <1>1, <3>2 DEF Split, ConfigTypeOK, ConfigsAssumption
        <4>2. QED
          BY <3>1, <3>2, <4>1, BatchesCut DEF Split
      <3>3. CASE Spread(c)
        BY <3>1, <3>3, SinglesCut DEF Spread
      <3>4. QED
        BY <1>5, <3>2, <3>3
    <2>2. phase[c] \in {"splitting", "spreading"}
      BY <1>5 DEF Split, Spread
    <2>3. CASE d = c
      BY <2>1, <2>2, <2>3, AnswerBegun
    <2>4. CASE d # c
      <3>1. /\ phase'[d] = phase[d] /\ input'[d] = input[d] /\ path'[d] = path[d]
            /\ jobs'[d] = jobs[d] /\ result'[d] = result[d] /\ step'[d] = step[d]
        BY <1>1, <2>1, <2>4 DEF Begin, CallTypeOK, WorkTypeOK
      <3>2. QED
        BY <1>1, <3>1, AnswerLocal
    <2>5. QED
      BY <2>3, <2>4
  <1>6. ASSUME NEW c \in Calls, Return(c)
        PROVE  AnswerOK(d)'
    <2>1. /\ phase[c] = "working" /\ \A i \in DOMAIN jobs[c] : step[c][i] = "done"
          /\ UNCHANGED <<input, path, jobs, result, step>>
      BY <1>6 DEF Return, workVars
    <2>2. phase'[d] = IF d = c THEN "done" ELSE phase[d]
      BY <1>1, <1>6 DEF Return, CallTypeOK
    <2>3. d = c => Answered(d)' = DOMAIN jobs'[d]
      BY <2>1 DEF Answered
    <2>4. Answered(d)' = Answered(d) /\ Covered(d)' = Covered(d)
      BY <2>1 DEF Answered, Covered
    <2>5. QED
      BY <1>1, <2>1, <2>2, <2>3, <2>4 DEF AnswerOK, PathOK, ResultOK, CacheOK, Collecting
  <1>7. ASSUME NEW c \in Calls, NEW i \in Shares, Work(c, i)
        PROVE  AnswerOK(d)'
    <2>1. CASE d = c
      BY <1>7, <2>1, AnswerCollected, AnswerParallel DEF Work
    <2>2. CASE d # c
      <3>1. /\ phase'[d] = phase[d] /\ input'[d] = input[d] /\ path'[d] = path[d]
            /\ jobs'[d] = jobs[d]
        BY <1>7 DEF Work, BatchCall, SequentialCall, Queue, Admit, ParallelCall, Release,
                    callVars
      <3>2. result'[d] = result[d]
        BY <1>1, <1>7, <2>2 DEF Work, BatchCall, SequentialCall, Queue, Admit,
               ParallelCall, Release, callVars, Collect, CallTypeOK
      <3>3. step'[d] = step[d]
        BY <1>1, <1>7, <2>2 DEF Work, BatchCall, SequentialCall, Queue, Admit,
               ParallelCall, Release, To, WorkTypeOK
      <3>4. QED
        BY <1>1, <3>1, <3>2, <3>3, AnswerLocal
    <2>3. QED
      BY <2>1, <2>2
  <1>8. CASE (\E g \in Configs : UpdateConfig(g)) \/ ReplaceLimiter \/ UNCHANGED vars
    BY <1>2, <1>8 DEF UpdateConfig, ReplaceLimiter, vars, workVars
  <1>9. QED
    BY <1>3, <1>4, <1>5, <1>6, <1>7, <1>8 DEF Next, Decide

\* Three of the four strategies answer for every pod of the list, and if it repeats
\* none, once each and with counters that add up.
THEOREM AnswersCompleteCorrect == Spec => []AnswersComplete
  <1>1. Init => TypeOK /\ ShapeOK /\ AnswerInv
    BY TypeInit, ShapeInit, AnswerInit
  <1>2. TypeOK /\ ShapeOK /\ AnswerInv /\ [Next]_vars => (TypeOK /\ ShapeOK /\ AnswerInv)'
    BY ConfigTypeStep, CallTypeStep, WorkTypeStep, ShapeStep, AnswerStep DEF TypeOK
  <1>3. TypeOK /\ AnswerInv => AnswersComplete
    BY AnswerImplied
  <1>4. QED
    BY <1>1, <1>2, <1>3, PTL DEF Spec

-----------------------------------------------------------------------------
(* The elements of the channels and the goroutines that put them there *)

\* The goroutines between their send and their receive.
Sent == At({"calling", "releasing"})

\* They are finitely many, however many calls there may be.
TokenInv == IsFiniteSet(Sent) /\ TokensConserved

\* The elements of the channels are a sum of naturals.
LEMMA TokensAre ==
    ASSUME ConfigTypeOK
    PROVE  /\ Tokens = Sum(slots, Limiter)
           /\ Limiter \in Nat /\ DOMAIN slots = 1 .. Limiter
           /\ \A ch \in 1 .. Limiter : slots[ch] \in Int
  <1>1. Tokens = Sum(slots, Limiter)
    BY DEF Tokens, Sum
  <1>2. Limiter \in Nat /\ DOMAIN slots = 1 .. Limiter
    BY LimiterType DEF ConfigTypeOK, Limiter
  <1>3. \A ch \in 1 .. Limiter : slots[ch] \in Int
    BY ChannelType
  <1>4. QED
    BY <1>1, <1>2, <1>3

\* In the beginning there is one channel, and it is empty.
LEMMA TokenInit == Init => TokenInv
  <1> SUFFICES ASSUME Init PROVE TokenInv
    OBVIOUS
  <1>1. Limiter = 1 /\ slots = <<0>>
    BY DEF Init, Limiter
  <1>2. Tokens = 0
    <2>1. TypeOK
      BY TypeInit
    <2>2. Tokens = Sum(slots, Limiter)
      BY <2>1, TokensAre DEF TypeOK
    <2>3. QED
      BY <1>1, <2>2, SumOfZeros
  <1>3. Sent = {}
    BY DEF Init, Sent, At
  <1>4. QED
    BY <1>2, <1>3, FS_EmptySet DEF TokenInv, TokensConserved, Sent

\* Nothing is sent or received, and the channels stay.
LEMMA TokenSame ==
    ASSUME TokenInv, Sent' = Sent, UNCHANGED <<limits, slots>>
    PROVE  TokenInv'
  <1>1. Tokens' = Tokens
    BY DEF Tokens, Limiter
  <1>2. QED
    BY <1>1 DEF TokenInv, TokensConserved, Sent

\* A goroutine's step from s to t makes it a holder of an element, or ends it.
LEMMA SentAfter ==
    ASSUME WorkTypeOK, NEW c \in Calls, NEW i \in Shares,
           NEW s \in Steps, NEW t \in Steps, step[c][i] = s, To(c, i, t)
    PROVE  Sent' = IF t \in {"calling", "releasing"} THEN Sent \cup {<<c, i>>}
                                                    ELSE Sent \ {<<c, i>>}
  <1>1. \A w \in Calls \X Shares :
          step'[w[1]][w[2]] = IF w = <<c, i>> THEN t ELSE step[w[1]][w[2]]
    BY ToEffect
  <1>2. <<c, i>> \in Calls \X Shares
    OBVIOUS
  <1>3. Sent' \subseteq Calls \X Shares /\ Sent \subseteq Calls \X Shares
    BY DEF Sent, At
  <1>4. ASSUME NEW w \in Calls \X Shares
        PROVE  w \in Sent' <=> IF w = <<c, i>> THEN t \in {"calling", "releasing"}
                                               ELSE w \in Sent
    BY <1>1 DEF Sent, At
  <1>5. QED
    BY <1>2, <1>3, <1>4

\* One element more or less in one channel.
LEMMA TokenMoves ==
    ASSUME ConfigTypeOK, NEW ch \in 1 .. Limiter, NEW d \in {1, 0 - 1},
           slots' = [slots EXCEPT ![ch] = @ + d], UNCHANGED limits
    PROVE  Tokens \in Int /\ Tokens' = Tokens + d
  <1>1. /\ Tokens = Sum(slots, Limiter) /\ Limiter \in Nat
        /\ DOMAIN slots = 1 .. Limiter
        /\ \A n \in 1 .. Limiter : slots[n] \in Int
    BY TokensAre
  <1>2. Tokens' = Sum(slots', Limiter)
    BY DEF Tokens, Sum, Limiter
  <1>3. slots \in [1 .. Limiter -> Int]
    BY <1>1 DEF ConfigTypeOK
  <1>4. /\ Sum(slots, Limiter) \in Int
        /\ Sum([slots EXCEPT ![ch] = @ + d], Limiter) = Sum(slots, Limiter) + d
    <2>1. d \in Int /\ Limiter \in Nat
      BY <1>1
    <2>2. QED
      BY <1>3, <2>1, SumMoves, Zenon
  <1>5. QED
    BY <1>1, <1>2, <1>4

\* A send puts one element into a channel and makes one goroutine more.
LEMMA TokenAdmit ==
    ASSUME TypeOK, ShapeOK, TokenInv, NEW c \in Calls, NEW i \in Shares, Admit(c, i)
    PROVE  TokenInv'
  <1>1. ConfigTypeOK /\ WorkTypeOK /\ chan[c][i] \in 1 .. Limiter
    BY DEF TypeOK, ShapeOK, Admit
  <1>2. Tokens \in Int /\ Tokens' = Tokens + 1
    BY <1>1, TokenMoves DEF Admit
  <1>3. Sent' = Sent \cup {<<c, i>>}
    BY <1>1, SentAfter DEF Admit, Steps
  <1>4. <<c, i>> \notin Sent
    BY DEF Admit, Sent, At
  <1>5. IsFiniteSet(Sent') /\ Cardinality(Sent') = Cardinality(Sent) + 1
    BY <1>3, <1>4, FS_AddElement DEF TokenInv
  <1>6. QED
    BY <1>2, <1>5 DEF TokenInv, TokensConserved, Sent

\* A receive takes one out, and one goroutine is done.
LEMMA TokenRelease ==
    ASSUME TypeOK, ShapeOK, TokenInv, NEW c \in Calls, NEW i \in Shares, Release(c, i)
    PROVE  TokenInv'
  <1>1. ConfigTypeOK /\ WorkTypeOK /\ chan[c][i] \in 1 .. Limiter
    BY DEF TypeOK, ShapeOK, Release
  <1>2. Tokens \in Int /\ Tokens' = Tokens + (0 - 1)
    <2>1. slots[chan[c][i]] - 1 = slots[chan[c][i]] + (0 - 1)
      BY <1>1, ChannelType
    <2>2. QED
      BY <1>1, <2>1, TokenMoves DEF Release
  <1>3. Sent' = Sent \ {<<c, i>>}
    BY <1>1, SentAfter DEF Release, Steps
  <1>4. <<c, i>> \in Sent
    BY DEF Release, Sent, At
  <1>5. IsFiniteSet(Sent') /\ Cardinality(Sent') = Cardinality(Sent) - 1
    BY <1>3, <1>4, FS_RemoveElement DEF TokenInv
  <1>6. Cardinality(Sent) \in Nat
    BY FS_CardinalityType DEF TokenInv
  <1>7. QED
    BY <1>2, <1>5, <1>6 DEF TokenInv, TokensConserved, Sent

\* A new limiter starts empty; the old channels keep what is in them.
LEMMA TokenReplace ==
    ASSUME TypeOK, TokenInv, ReplaceLimiter
    PROVE  TokenInv'
  <1>1. ConfigTypeOK /\ Sent' = Sent
    BY DEF TypeOK, ReplaceLimiter, workVars, Sent, At
  <1>2. CASE UNCHANGED <<limits, slots>>
    BY <1>1, <1>2, TokenSame
  <1>3. CASE limits' = Append(limits, config.limit) /\ slots' = Append(slots, 0)
    <2>1. /\ Tokens = Sum(slots, Limiter) /\ Limiter \in Nat
          /\ DOMAIN slots = 1 .. Limiter
          /\ \A n \in 1 .. Limiter : slots[n] \in Int
      BY <1>1, TokensAre
    <2>2. Limiter' = Limiter + 1
      BY <1>1, <1>3 DEF Limiter, ConfigTypeOK, ConfigsAssumption
    <2>3. /\ slots'[Limiter + 1] = 0
          /\ \A n \in 1 .. Limiter : slots'[n] = slots[n]
      BY <1>1, <1>3 DEF Limiter, ConfigTypeOK
    <2>4. Tokens' = Sum(slots', Limiter + 1)
      <3>1. Tokens' = Sum(slots', Limiter')
        BY DEF Tokens, Sum
      <3>2. QED
        BY <2>2, <3>1
    <2>5. Sum(slots', Limiter + 1) = slots'[Limiter + 1] + Sum(slots', Limiter)
      BY <2>1, <2>3, SumLonger
    <2>6. Sum(slots, Limiter) \in Int /\ Sum(slots', Limiter) = Sum(slots, Limiter)
      BY <2>1, <2>3, SumSame
    <2>7. Tokens' = Tokens
      BY <2>1, <2>3, <2>4, <2>5, <2>6
    <2>8. QED
      BY <1>1, <2>7 DEF TokenInv, TokensConserved, Sent
  <1>4. QED
    BY <1>2, <1>3 DEF ReplaceLimiter

\* Every step keeps the balance.
LEMMA TokenStep ==
    ASSUME TypeOK, ShapeOK, TokenInv, [Next]_vars
    PROVE  TokenInv'
  <1>1. ConfigTypeOK /\ WorkTypeOK
    BY DEF TypeOK
  <1>2. ASSUME UNCHANGED <<limits, slots, step>>
        PROVE  TokenInv'
    BY <1>2, TokenSame DEF Sent, At
  <1>3. ASSUME NEW c \in Calls, Split(c) \/ Spread(c)
        PROVE  TokenInv'
    <2>1. PICK how, js : Begin(c, how, js)
      BY <1>3 DEF Split, Spread
    <2>2. \A i \in Shares : step[c][i] = "none"
      BY <1>3 DEF ShapeOK, Split, Spread
    <2>3. \A d \in Calls : \A i \in Shares :
            step'[d][i] \in {"calling", "releasing"}
              <=> step[d][i] \in {"calling", "releasing"}
      BY <1>1, <2>1, <2>2, BeginEffect
    <2>4. Sent' = Sent
      BY <2>3 DEF Sent, At
    <2>5. UNCHANGED <<limits, slots>>
      BY <2>1 DEF Begin, configVars
    <2>6. QED
      BY <2>4, <2>5, TokenSame
  <1>4. ASSUME NEW c \in Calls, NEW i \in Shares,
               BatchCall(c, i) \/ SequentialCall(c, i) \/ Queue(c, i)
        PROVE  TokenInv'
    <2>1. PICK t \in {"done", "waiting"} : To(c, i, t)
      BY <1>4 DEF BatchCall, SequentialCall, Queue
    <2>2. step[c][i] = "ready" /\ UNCHANGED <<limits, slots>>
      BY <1>4 DEF BatchCall, SequentialCall, Queue, configVars
    <2>3. Sent' = Sent \ {<<c, i>>}
      BY <1>1, <2>1, <2>2, SentAfter DEF Steps
    <2>4. <<c, i>> \notin Sent
      BY <2>2 DEF Sent, At
    <2>5. Sent' = Sent
      BY <2>3, <2>4
    <2>6. QED
      BY <2>2, <2>5, TokenSame
  <1>5. ASSUME NEW c \in Calls, NEW i \in Shares, ParallelCall(c, i)
        PROVE  TokenInv'
    <2>1. Sent' = Sent \cup {<<c, i>>}
      BY <1>1, <1>5, SentAfter DEF ParallelCall, Steps
    <2>2. <<c, i>> \in Sent
      BY <1>5 DEF ParallelCall, Sent, At
    <2>3. Sent' = Sent
      BY <2>1, <2>2
    <2>4. QED
      BY <1>5, <2>3, TokenSame DEF ParallelCall, configVars
  <1>6. ASSUME NEW c \in Calls, NEW i \in Shares, Work(c, i)
        PROVE  TokenInv'
    BY <1>4, <1>5, <1>6, TokenAdmit, TokenRelease DEF Work
  <1>7. ASSUME NEW c \in Calls, Decide(c)
        PROVE  TokenInv'
    BY <1>2, <1>3, <1>7 DEF Decide, AskBatching, AskSize, Spin, Return, configVars,
                            workVars
  <1>8. ASSUME NEW c \in Calls, NEW s \in Inputs, OptimizeEnrichment(c, s)
        PROVE  TokenInv'
    BY <1>2, <1>8 DEF OptimizeEnrichment, configVars, workVars
  <1>9. ASSUME NEW g \in Configs, UpdateConfig(g)
        PROVE  TokenInv'
    BY <1>2, <1>9 DEF UpdateConfig, workVars
  <1>10. CASE UNCHANGED vars
    BY <1>2, <1>10 DEF vars, configVars, workVars
  <1>11. QED
    BY <1>6, <1>7, <1>8, <1>9, <1>10, TokenReplace DEF Next

\* The limiter channels together hold one element for each goroutine between
\* its send and its receive, however often the limiter was replaced.
THEOREM TokensCorrect == Spec => []TokensConserved
  <1>1. Init => TypeOK /\ ShapeOK /\ TokenInv
    BY TypeInit, ShapeInit, TokenInit
  <1>2. TypeOK /\ ShapeOK /\ TokenInv /\ [Next]_vars => (TypeOK /\ ShapeOK /\ TokenInv)'
    BY ConfigTypeStep, CallTypeStep, WorkTypeStep, ShapeStep, TokenStep DEF TypeOK
  <1>3. TokenInv => TokensConserved
    BY DEF TokenInv
  <1>4. QED
    BY <1>1, <1>2, <1>3, PTL DEF Spec

=============================================================================
