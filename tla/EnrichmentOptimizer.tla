------------------------- MODULE EnrichmentOptimizer -------------------------
(***************************************************************************)
(* EnrichmentOptimizer of pkg/service/enrichment/optimization.go: a call   *)
(* of OptimizeEnrichment answers from the cache if it can, or else splits  *)
(* its pods into batches, or starts a goroutine per pod behind a limiter,  *)
(* or goes through them one by one.  UpdateConfig replaces the             *)
(* configuration, and the limiter with it, while calls are under way.      *)
(*                                                                         *)
(* Each goroutine asks EnrichLogs, which gives it an answer at one moment: *)
(* that is what EnrichmentPromise states and MetadataEnrichment keeps.     *)
(* Here an answer is the set of the pods found; the others have failed.    *)
(***************************************************************************)
EXTENDS Integers, Sequences, FiniteSets

CONSTANTS
    Pods,         \* pod UIDs
    NoUID,        \* the empty UID
    Calls,        \* the OptimizeEnrichment calls, one identifier per call
    Inputs,       \* the UID lists a call may be made with
    Configs,      \* the configurations UpdateConfig may be given; a limit
                  \* below one, which lets nobody in or panics, is left out
    MaxLength,    \* the length of the longest list in Inputs
    MaxUpdates    \* bound on the calls of UpdateConfig

ASSUME InputsAssumption ==
    /\ NoUID \notin Pods
    /\ MaxLength \in Nat
    /\ Inputs \subseteq {s \in Seq(Pods \cup {NoUID}) : Len(s) <= MaxLength}

ASSUME ConfigsAssumption ==
    /\ Configs # {}
    /\ \A g \in Configs : /\ g.batching \in BOOLEAN
                          /\ g.batchSize \in Nat
                          /\ g.parallel \in BOOLEAN
                          /\ g.limit \in Nat \ {0}

ASSUME UpdatesAssumption == MaxUpdates \in Nat

VARIABLES
    config,      \* eo.config
    limits,      \* limits[ch]: the capacity of the ch-th limiter channel;
                 \* the last one is eo.parallelLimiter
    slots,       \* slots[ch]: how many elements are in that channel
    updates,     \* calls of UpdateConfig so far
    updating,    \* one of them holds eo.mu
    phase,       \* phase[c]: how far call c got
    input,       \* input[c]: request.PodUIDs
    path,        \* path[c]: the strategy that answers c
    jobs,        \* jobs[c]: the shares of the pods that EnrichLogs gets, a
                 \* sequence of lists
    step,        \* step[c][i]: how far the i-th share of c got
    chan,        \* chan[c][i]: the channel the goroutine of that share uses
    result,      \* result[c]: Metadata, FailedPodUIDs, CacheHits + APICalls
    crossed      \* history: a limiter was replaced under a goroutine that
                 \* used it

configVars == <<config, limits, slots, updates, updating>>
callVars   == <<phase, input, path, jobs, result>>
workVars   == <<step, chan>>
vars == <<configVars, callVars, workVars, crossed>>

Phases == {"idle", "batching", "sizing", "splitting", "spinning", "spreading",
           "working", "done"}

Paths == {"none", "cache", "batch", "parallel", "sequential"}

Steps == {"none", "ready", "waiting", "calling", "releasing", "done"}

Shares == 1 .. MaxLength

UIDList == Seq(Pods \cup {NoUID})

\* eo.parallelLimiter
Limiter == Len(limits)

Init ==
    /\ config \in Configs
    /\ limits = <<config.limit>>
    /\ slots = <<0>>
    /\ updates = 0
    /\ updating = FALSE
    /\ phase = [c \in Calls |-> "idle"]
    /\ input = [c \in Calls |-> <<>>]
    /\ path = [c \in Calls |-> "none"]
    /\ jobs = [c \in Calls |-> <<>>]
    /\ result = [c \in Calls |-> [meta |-> {}, failed |-> {}, count |-> 0]]
    /\ step = [c \in Calls |-> [i \in Shares |-> "none"]]
    /\ chan = [c \in Calls |-> [i \in Shares |-> 0]]
    /\ crossed = FALSE

-----------------------------------------------------------------------------
(* UpdateConfig.  It holds eo.mu, which the readers of its two fields do not *)
(* take, so that they see them change one after the other.                   *)

\* the goroutines at a step of S
At(S) == {w \in Calls \X Shares : step[w[1]][w[2]] \in S}

\* those that wait for a slot or have one they have not begun to give back
Using == At({"waiting", "calling"})

UpdateConfig(g) ==
    /\ updates < MaxUpdates
    /\ ~updating
    /\ updates' = updates + 1
    /\ updating' = TRUE
    /\ config' = g
    /\ UNCHANGED <<limits, slots, callVars, workVars, crossed>>

\* The new limiter, if the limit is another, and the end of UpdateConfig.
\* (The configuration that was replaced had the capacity of the limiter.)
ReplaceLimiter ==
    /\ updating
    /\ updating' = FALSE
    /\ IF config.limit = limits[Limiter]
         THEN UNCHANGED <<limits, slots, crossed>>
         ELSE /\ limits' = Append(limits, config.limit)
              /\ slots' = Append(slots, 0)
              /\ crossed' = (crossed \/ Using # {})
    /\ UNCHANGED <<config, updates, callVars, workVars>>

-----------------------------------------------------------------------------
(* OptimizeEnrichment up to the choice of a strategy *)

UIDs(s) == {s[i] : i \in DOMAIN s}

\* the pods of list s
PodsOf(s) == UIDs(s) \ {NoUID}

Repeats(s) == Cardinality(UIDs(s)) < Len(s)

\* processCacheHit: the pods are looked up one after another beside all the
\* other users of the cache, so any of them may be found.  The call is
\* answered when as many pods were found as the list is long.
OptimizeEnrichment(c, s) ==
    /\ phase[c] = "idle"
    /\ ~updating
    /\ input' = [input EXCEPT ![c] = s]
    /\ \E hit \in SUBSET PodsOf(s) :
         IF hit = UIDs(s) /\ ~Repeats(s)
           THEN /\ phase' = [phase EXCEPT ![c] = "done"]
                /\ path' = [path EXCEPT ![c] = "cache"]
                /\ result' = [result EXCEPT ![c] =
                                [@ EXCEPT !.meta = hit, !.count = Len(s)]]
           ELSE /\ phase' = [phase EXCEPT ![c] = "batching"]
                /\ UNCHANGED <<path, result>>
    /\ UNCHANGED <<configVars, jobs, workVars, crossed>>

\* The condition for batches reads eo.config twice, and the split once more.
AskBatching(c) ==
    /\ phase[c] = "batching"
    /\ phase' = [phase EXCEPT ![c] = IF config.batching THEN "sizing"
                                                        ELSE "spreading"]
    /\ UNCHANGED <<configVars, input, path, jobs, result, workVars, crossed>>

AskSize(c) ==
    /\ phase[c] = "sizing"
    /\ phase' = [phase EXCEPT ![c] = IF Len(input[c]) > config.batchSize
                                       THEN "splitting" ELSE "spreading"]
    /\ UNCHANGED <<configVars, input, path, jobs, result, workVars, crossed>>

\* Fault: the pods that do not fill a batch are left out.
FullBatches(s, size) ==
    [k \in 1 .. Len(s) \div size |-> SubSeq(s, (k - 1) * size + 1, k * size)]

\* createBatches, for a size that is not zero.
CreateBatches(s, size) ==
    [k \in 1 .. (Len(s) + size - 1) \div size |->
        SubSeq(s, (k - 1) * size + 1,
               IF k * size < Len(s) THEN k * size ELSE Len(s))]

\* every pod on its own
Singles(s) == [i \in DOMAIN s |-> <<s[i]>>]

\* Call c goes to work on the shares js by strategy how.
Begin(c, how, js) ==
    /\ phase' = [phase EXCEPT ![c] = "working"]
    /\ path' = [path EXCEPT ![c] = how]
    /\ jobs' = [jobs EXCEPT ![c] = js]
    /\ step' = [step EXCEPT ![c] = [i \in Shares |->
                                      IF i \in DOMAIN js THEN "ready"
                                                         ELSE "none"]]
    /\ UNCHANGED <<configVars, input, result, chan, crossed>>

Split(c) ==
    /\ phase[c] = "splitting"
    /\ config.batchSize > 0
    /\ Begin(c, "batch", CreateBatches(input[c], config.batchSize))

\* With batches of no pods createBatches appends them for ever.
Spin(c) ==
    /\ phase[c] = "splitting"
    /\ config.batchSize = 0
    /\ phase' = [phase EXCEPT ![c] = "spinning"]
    /\ UNCHANGED <<configVars, input, path, jobs, result, workVars, crossed>>

Spread(c) ==
    /\ phase[c] = "spreading"
    /\ Begin(c, IF config.parallel /\ Len(input[c]) > 1 THEN "parallel"
                                                        ELSE "sequential",
             Singles(input[c]))

-----------------------------------------------------------------------------
(* The three strategies *)

To(c, i, s) == step' = [step EXCEPT ![c][i] = s]

\* The answer of EnrichLogs to a share, with the pods found in it, goes into
\* the result of the call.  A lone empty UID is in no answer: it has failed.
Collect(c, i, found) ==
    LET share == jobs[c][i]
        lone  == IF path[c] = "batch" THEN {} ELSE UIDs(share) \cap {NoUID}
    IN  result' = [result EXCEPT ![c] =
                     [meta   |-> @.meta \cup found,
                      failed |-> @.failed \cup (PodsOf(share) \ found) \cup lone,
                      count  |-> @.count + Cardinality(found)]]

\* A goroutine of processBatchEnrichment, and the loop that adds its result.
BatchCall(c, i) ==
    /\ path[c] = "batch"
    /\ step[c][i] = "ready"
    /\ \E found \in SUBSET PodsOf(jobs[c][i]) : Collect(c, i, found)
    /\ To(c, i, "done")
    /\ UNCHANGED <<configVars, phase, input, path, jobs, chan, crossed>>

\* A turn of the loop of processSequentialEnrichment.
SequentialCall(c, i) ==
    /\ path[c] = "sequential"
    /\ step[c][i] = "ready"
    /\ \A j \in 1 .. i - 1 : step[c][j] = "done"
    /\ \E found \in SUBSET PodsOf(jobs[c][i]) : Collect(c, i, found)
    /\ To(c, i, "done")
    /\ UNCHANGED <<configVars, phase, input, path, jobs, chan, crossed>>

\* A goroutine of processParallelEnrichment reads eo.parallelLimiter ...
Queue(c, i) ==
    /\ path[c] = "parallel"
    /\ step[c][i] = "ready"
    /\ chan' = [chan EXCEPT ![c][i] = Limiter]
    /\ To(c, i, "waiting")
    /\ UNCHANGED <<configVars, callVars, crossed>>

\* Fault: the limiter lets one more in than it has room for.
AdmitOneMore(c, i) ==
    LET ch == chan[c][i]
    IN  /\ step[c][i] = "waiting"
        /\ slots[ch] <= limits[ch]
        /\ slots' = [slots EXCEPT ![ch] = @ + 1]
        /\ To(c, i, "calling")
        /\ UNCHANGED <<config, limits, updates, updating, callVars, chan,
                       crossed>>

\* ... and sends to that channel once it has room.
Admit(c, i) ==
    LET ch == chan[c][i]
    IN  /\ step[c][i] = "waiting"
        /\ slots[ch] < limits[ch]
        /\ slots' = [slots EXCEPT ![ch] = @ + 1]
        /\ To(c, i, "calling")
        /\ UNCHANGED <<config, limits, updates, updating, callVars, chan,
                       crossed>>

\* Fault: a goroutine whose pod failed returns without giving its slot back.
ParallelCallKeepsSlot(c, i) ==
    /\ step[c][i] = "calling"
    /\ chan' = [chan EXCEPT ![c][i] = Limiter]
    /\ To(c, i, "releasing") \/ To(c, i, "done")
    /\ UNCHANGED <<configVars, callVars, crossed>>

\* EnrichLogs returns.  Whatever it answered goes into the inner result, not
\* into the one of the call.  The deferred function reads eo.parallelLimiter.
ParallelCall(c, i) ==
    /\ step[c][i] = "calling"
    /\ chan' = [chan EXCEPT ![c][i] = Limiter]
    /\ To(c, i, "releasing")
    /\ UNCHANGED <<configVars, callVars, crossed>>

\* Fault: a counter in the place of the channel, lowered without a look at it.
ReleaseAtOnce(c, i) ==
    LET ch == chan[c][i]
    IN  /\ step[c][i] = "releasing"
        /\ slots' = [slots EXCEPT ![ch] = @ - 1]
        /\ To(c, i, "done")
        /\ UNCHANGED <<config, limits, updates, updating, callVars, chan,
                       crossed>>

\* It receives from that channel once there is something in it.
Release(c, i) ==
    LET ch == chan[c][i]
    IN  /\ step[c][i] = "releasing"
        /\ slots[ch] > 0
        /\ slots' = [slots EXCEPT ![ch] = @ - 1]
        /\ To(c, i, "done")
        /\ UNCHANGED <<config, limits, updates, updating, callVars, chan,
                       crossed>>

\* The WaitGroup, or the loop, is done.
Return(c) ==
    /\ phase[c] = "working"
    /\ \A i \in DOMAIN jobs[c] : step[c][i] = "done"
    /\ phase' = [phase EXCEPT ![c] = "done"]
    /\ UNCHANGED <<configVars, input, path, jobs, result, workVars, crossed>>

-----------------------------------------------------------------------------

\* a step of the goroutine of call c itself
Decide(c) ==
    AskBatching(c) \/ AskSize(c) \/ Split(c) \/ Spin(c) \/ Spread(c) \/ Return(c)

\* a step for the i-th share of call c
Work(c, i) ==
    \/ BatchCall(c, i)
    \/ SequentialCall(c, i)
    \/ Queue(c, i)
    \/ Admit(c, i)
    \/ ParallelCall(c, i)
    \/ Release(c, i)

Next ==
    \/ \E g \in Configs : UpdateConfig(g)
    \/ ReplaceLimiter
    \/ \E c \in Calls : \/ \E s \in Inputs : OptimizeEnrichment(c, s)
                        \/ Decide(c)
                        \/ \E i \in Shares : Work(c, i)

Spec == Init /\ [][Next]_vars

\* Goroutines run, EnrichLogs returns (CallsReturn of MetadataEnrichment), and
\* a channel serves those that wait in the order they came.
Fairness ==
    /\ WF_vars(ReplaceLimiter)
    /\ \A c \in Calls : /\ WF_vars(Decide(c))
                        /\ \A i \in Shares : WF_vars(Work(c, i))

FairSpec == Spec /\ Fairness

-----------------------------------------------------------------------------
(* Properties *)

\* the fields of the optimizer
ConfigTypeOK ==
    /\ config \in Configs
    /\ limits \in Seq(Nat \ {0}) /\ limits # <<>>
    /\ slots \in Seq(Nat) /\ Len(slots) = Len(limits)
    /\ updates \in 0 .. MaxUpdates
    /\ updating \in BOOLEAN
    /\ crossed \in BOOLEAN

\* the locals of its calls
CallTypeOK ==
    /\ phase \in [Calls -> Phases]
    /\ input \in [Calls -> UIDList]
    /\ path \in [Calls -> Paths]
    /\ jobs \in [Calls -> Seq(UIDList)]
    /\ result \in [Calls -> [meta : SUBSET Pods, failed : SUBSET (Pods \cup {NoUID}),
                             count : Nat]]

\* and of their goroutines
WorkTypeOK ==
    /\ step \in [Calls -> [Shares -> Steps]]
    /\ chan \in [Calls -> [Shares -> Nat]]

\* The types of the fields of the optimizer and of the locals of its calls: no
\* channel holds fewer than no elements, and no list is split out of bounds.
TypeOK == ConfigTypeOK /\ CallTypeOK /\ WorkTypeOK

\* what is in all the limiter channels together
Tokens ==
    LET upTo[ch \in 0 .. Limiter] == IF ch = 0 THEN 0
                                     ELSE slots[ch] + upTo[ch - 1]
    IN  upTo[Limiter]

\* However the limiter was replaced, the channels together hold one element
\* for each goroutine between its send and its receive: a goroutine may take
\* another one's element, but none is lost or made up.
TokensConserved == Tokens = Cardinality(At({"calling", "releasing"}))

\* Unless the limiter was replaced under a goroutine that used it, no more
\* goroutines call EnrichLogs at once than the limiter has room for, and a
\* goroutine never waits for its release.
LimitHeld ==
    ~crossed =>
        /\ Cardinality(At({"calling"})) <= limits[Limiter]
        /\ \A w \in At({"releasing"}) : slots[chan[w[1]][w[2]]] > 0

\* A call answered from the cache, in batches or one by one accounts for each
\* of its pods, and if the list names none twice, once and with counters that
\* add up to the pods found.
AnswersComplete ==
    \A c \in Calls : phase[c] = "done" /\ path[c] # "parallel" =>
        LET r == result[c]
        IN  /\ r.meta \cup (r.failed \ {NoUID}) = PodsOf(input[c])
            /\ ~Repeats(input[c]) => /\ r.meta \cap r.failed = {}
                                     /\ r.count = Cardinality(r.meta)

\* A call returns, unless UpdateConfig replaced the limiter under a goroutine
\* or the call split its list into batches of no pods.
ReturnsUnlessCrossed ==
    \A c \in Calls :
        phase[c] # "idle" ~> (phase[c] \in {"done", "spinning"} \/ crossed)

\* "UpdateConfig dynamically updates optimizer configuration"
\* (optimization.go 449): the calls under way go on and return.
OptimizerReturns ==
    \A c \in Calls : phase[c] # "idle" ~> phase[c] = "done"

\* "Extract metadata from result" (optimization.go 274) and its two branches:
\* the parallel path answers for its pods like the other two.
ParallelAnswers ==
    \A c \in Calls : phase[c] = "done" /\ path[c] = "parallel" =>
        PodsOf(input[c]) \subseteq result[c].meta \cup result[c].failed

=============================================================================
