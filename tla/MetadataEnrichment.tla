------------------------- MODULE MetadataEnrichment -------------------------
(***************************************************************************)
(* The pod metadata enrichment service of pkg/service/enrichment: a cache  *)
(* of pod metadata keyed by pod UID, filled from two sides.  Queries call  *)
(* EnrichLogs, which looks every pod up, lists the missing ones from the   *)
(* Kubernetes API and stores what it got; a shared informer watches the    *)
(* cluster and its handlers store, replace and delete entries; a janitor   *)
(* goroutine drops entries by age.  Only the single Get, Set, Update,      *)
(* Delete and cleanup calls hold the cache's lock, so the steps of a call  *)
(* interleave with the other two writers everywhere.                       *)
(*                                                                         *)
(* A pod's metadata is abstracted to the number of the pod's state it was  *)
(* copied from: state 1 is the pod as created, each change adds one, and   *)
(* 0 stands for "no entry".  Pod UIDs are never reused.                    *)
(***************************************************************************)
EXTENDS Integers, Sequences, FiniteSets

CONSTANTS
    Pods,            \* pod UIDs
    NoUID,           \* the empty UID of a log row written outside a pod
    Calls,           \* the EnrichLogs calls, one identifier per call
    Inputs,          \* the UID lists a query may pass to EnrichLogs
    MaxVersion,      \* bound on the states of one pod
    StartVersion,    \* the first state of a pod with status.startTime set
    MaxBreaks,       \* bound on the losses of the informer's watch
    EnableInformer   \* EnrichmentConfig.EnableInformer

ASSUME BoundsAssumption ==
    /\ MaxVersion \in Nat
    /\ StartVersion \in Nat \ {0}
    /\ MaxBreaks \in Nat

ASSUME ConfigAssumption == EnableInformer \in BOOLEAN

ASSUME InputsAssumption ==
    /\ NoUID \notin Pods
    /\ Inputs \subseteq Seq(Pods \cup {NoUID})

ASSUME FinitePodsAssumption == IsFiniteSet(Pods)

VARIABLES
    (* The cluster *)
    ver,        \* ver[p]: the number of p's present state, 0 before it exists
    gone,       \* gone[p]: p was deleted from the cluster
    aged,       \* aged[p]: more than the TTL has passed since p's start time
    (* The shared informer, a client-go object *)
    connected,  \* the watch stream is open
    breaks,     \* losses of the stream so far
    watched,    \* watched[p]: how many of p's changes the informer has seen
    events,     \* events[p]: notifications on p its handlers have yet to get
    (* The service *)
    running,    \* Shutdown was not called
    cache,      \* cache[p]: the state the entry of p holds, 0 without entry
    source,     \* source[p]: which conversion built the entry of p
    metrics,    \* the counters of EnrichmentMetrics
    (* The EnrichLogs calls *)
    pc,         \* pc[c]: the loop that call c is in
    want,       \* want[c]: uniqueUIDs
    todo,       \* todo[c]: the pods the loop has not reached yet
    misses,     \* misses[c]: cacheMisses
    meta,       \* meta[c]: result.Metadata, as the state each entry holds
    fetched,    \* fetched[c]: apiResult.Metadata
    failed,     \* failed[c]: FailedPodUIDs
    hits,       \* hits[c]: result.CacheHits
    api,        \* api[c]: result.APICalls
    (* History, read by properties only *)
    askedVer,   \* askedVer[c]: the cluster's ver when c began
    errs,       \* errs[c]: pods whose List call returned an error to c
    ignored     \* pods whose deletion reached the handler as a tombstone

clusterVars  == <<ver, gone, aged>>
informerVars == <<connected, breaks, watched, events>>
cacheVars    == <<cache, source>>
callVars     == <<pc, want, todo, misses, meta, fetched, failed, hits, api,
                  askedVer, errs>>
vars == <<clusterVars, informerVars, running, cacheVars, metrics, callVars,
          ignored>>

Versions == 0 .. MaxVersion

Sources == {"none", "informer", "api"}

Kinds == {"store", "delete", "tombstone"}

Event == [kind : Kinds, ver : Versions]

Steps == {"idle", "lookup", "fetch", "publish", "record", "done"}

Nothing == [p \in Pods |-> 0]

\* pod p exists in the cluster
Live(p) == ver[p] > 0 /\ ~gone[p]

\* the changes of p so far: its states, and then its deletion
Changes(p) == IF gone[p] THEN ver[p] + 1 ELSE ver[p]

\* the state of p in the informer's local store, 0 when p is not in it
Known(p) == IF watched[p] > ver[p] THEN 0 ELSE watched[p]

\* pod.Status.StartTime # nil in state v of a pod
HasStart(v) == v >= StartVersion

Store(v) == [kind |-> "store", ver |-> v]
Removal(kind) == [kind |-> kind, ver |-> 0]

Init ==
    /\ ver = Nothing
    /\ gone = [p \in Pods |-> FALSE]
    /\ aged = [p \in Pods |-> FALSE]
    /\ connected = FALSE
    /\ breaks = 0
    /\ watched = Nothing
    /\ events = [p \in Pods |-> <<>>]
    /\ running = TRUE
    /\ cache = Nothing
    /\ source = [p \in Pods |-> "none"]
    /\ metrics = [enrichments |-> 0, hits |-> 0, api |-> 0, failures |-> 0]
    /\ pc = [c \in Calls |-> "idle"]
    /\ want = [c \in Calls |-> {}]
    /\ todo = [c \in Calls |-> {}]
    /\ misses = [c \in Calls |-> {}]
    /\ meta = [c \in Calls |-> Nothing]
    /\ fetched = [c \in Calls |-> Nothing]
    /\ failed = [c \in Calls |-> {}]
    /\ hits = [c \in Calls |-> 0]
    /\ api = [c \in Calls |-> 0]
    /\ askedVer = [c \in Calls |-> Nothing]
    /\ errs = [c \in Calls |-> {}]
    /\ ignored = {}

-----------------------------------------------------------------------------
(* The cluster: what pods do, whoever watches them *)

PodCreate(p) ==
    /\ ver[p] = 0
    /\ MaxVersion > 0
    /\ ver' = [ver EXCEPT ![p] = 1]
    /\ UNCHANGED <<gone, aged, informerVars, running, cacheVars, metrics,
                   callVars, ignored>>

PodUpdate(p) ==
    /\ Live(p)
    /\ ver[p] < MaxVersion
    /\ ver' = [ver EXCEPT ![p] = @ + 1]
    /\ UNCHANGED <<gone, aged, informerVars, running, cacheVars, metrics,
                   callVars, ignored>>

PodDelete(p) ==
    /\ Live(p)
    /\ gone' = [gone EXCEPT ![p] = TRUE]
    /\ UNCHANGED <<ver, aged, informerVars, running, cacheVars, metrics,
                   callVars, ignored>>

\* The wall clock passes a pod's start time plus the TTL, alive or not.
StartTimeAges(p) ==
    /\ HasStart(ver[p])
    /\ ~aged[p]
    /\ aged' = [aged EXCEPT ![p] = TRUE]
    /\ UNCHANGED <<ver, gone, informerVars, running, cacheVars, metrics,
                   callVars, ignored>>

-----------------------------------------------------------------------------
(* The shared informer.  Its notifications wait in an unbounded queue.  The *)
(* handlers touch the one entry of the pod they are told about, so only the *)
(* order of the notifications on one pod matters: a queue per pod.          *)

\* The next change of p arrives on the watch stream.
Observe(p) ==
    /\ running
    /\ connected
    /\ watched[p] < Changes(p)
    /\ watched' = [watched EXCEPT ![p] = @ + 1]
    /\ events' = [events EXCEPT ![p] =
                    Append(@, IF watched[p] < ver[p]
                                THEN Store(watched[p] + 1)
                                ELSE Removal("delete"))]
    /\ UNCHANGED <<clusterVars, connected, breaks, running, cacheVars, metrics,
                   callVars, ignored>>

WatchBreaks ==
    /\ running
    /\ connected
    /\ breaks < MaxBreaks
    /\ connected' = FALSE
    /\ breaks' = breaks + 1
    /\ UNCHANGED <<clusterVars, watched, events, running, cacheVars, metrics,
                   callVars, ignored>>

\* The first list, or the one after a loss of the stream: the store becomes
\* what the API server holds.  A pod that vanished in between is notified as
\* a DeletedFinalStateUnknown, which is not a Pod.
Relist ==
    /\ EnableInformer
    /\ running
    /\ ~connected
    /\ connected' = TRUE
    /\ watched' = [p \in Pods |-> Changes(p)]
    /\ events' = [p \in Pods |->
                    CASE Live(p) /\ Known(p) # ver[p] ->
                             Append(events[p], Store(ver[p]))
                      [] ~Live(p) /\ Known(p) # 0 ->
                             Append(events[p], Removal("tombstone"))
                      [] OTHER -> events[p]]
    /\ UNCHANGED <<clusterVars, breaks, running, cacheVars, metrics, callVars,
                   ignored>>

\* Fault: an informer factory without a resync period.
ResyncNever(p) == FALSE /\ UNCHANGED vars

\* The factory's resync period of one minute: the stored pods are notified
\* again as updates.
Resync(p) ==
    /\ running
    /\ connected
    /\ Known(p) # 0
    /\ events[p] = <<>>
    /\ events' = [events EXCEPT ![p] = <<Store(Known(p))>>]
    /\ UNCHANGED <<clusterVars, connected, breaks, watched, running, cacheVars,
                   metrics, callVars, ignored>>

-----------------------------------------------------------------------------
(* The service: the informer's handlers, the janitor, Shutdown *)

\* Fault: the handlers add entries and leave those they find.
OnStoreIfAbsent(p) ==
    /\ events[p] # <<>>
    /\ Head(events[p]).kind = "store"
    /\ cache' = [cache EXCEPT ![p] = IF @ = 0 THEN Head(events[p]).ver ELSE @]
    /\ source' = [source EXCEPT ![p] = IF cache[p] = 0 THEN "informer" ELSE @]
    /\ events' = [events EXCEPT ![p] = Tail(@)]
    /\ UNCHANGED <<clusterVars, connected, breaks, watched, running, metrics,
                   callVars, ignored>>

\* AddFunc and UpdateFunc: MetadataCache.Update replaces the entry.
OnStore(p) ==
    /\ events[p] # <<>>
    /\ Head(events[p]).kind = "store"
    /\ cache' = [cache EXCEPT ![p] = Head(events[p]).ver]
    /\ source' = [source EXCEPT ![p] = "informer"]
    /\ events' = [events EXCEPT ![p] = Tail(@)]
    /\ UNCHANGED <<clusterVars, connected, breaks, watched, running, metrics,
                   callVars, ignored>>

\* DeleteFunc with a Pod: MetadataCache.Delete.
OnDelete(p) ==
    /\ events[p] # <<>>
    /\ Head(events[p]).kind = "delete"
    /\ cache' = [cache EXCEPT ![p] = 0]
    /\ source' = [source EXCEPT ![p] = "none"]
    /\ events' = [events EXCEPT ![p] = Tail(@)]
    /\ UNCHANGED <<clusterVars, connected, breaks, watched, running, metrics,
                   callVars, ignored>>

\* DeleteFunc with a tombstone: the type assertion fails and that is all.
OnTombstone(p) ==
    /\ events[p] # <<>>
    /\ Head(events[p]).kind = "tombstone"
    /\ ignored' = ignored \cup {p}
    /\ events' = [events EXCEPT ![p] = Tail(@)]
    /\ UNCHANGED <<clusterVars, connected, breaks, watched, running, cacheVars,
                   metrics, callVars>>

\* Fault: the janitor leaves the informer's entries to the informer.
ExpiredUnlessWatched(p) ==
    cache[p] # 0 /\ HasStart(cache[p]) /\ aged[p] /\ source[p] # "informer"

\* The condition of cleanup: by the age of the pod, not of the entry, and
\* never for an entry without a start time.
Expired(p) == cache[p] # 0 /\ HasStart(cache[p]) /\ aged[p]

Cleanup ==
    /\ \E p \in Pods : Expired(p)
    /\ cache' = [p \in Pods |-> IF Expired(p) THEN 0 ELSE cache[p]]
    /\ source' = [p \in Pods |-> IF Expired(p) THEN "none" ELSE source[p]]
    /\ UNCHANGED <<clusterVars, informerVars, running, metrics, callVars,
                   ignored>>

\* Closes stopCh and waits for the informer: what its handlers have not been
\* given is dropped.  (A second call would close a closed channel.)  The
\* janitor and the calls go on.
Shutdown ==
    /\ running
    /\ running' = FALSE
    /\ connected' = FALSE
    /\ events' = [p \in Pods |-> <<>>]
    /\ UNCHANGED <<clusterVars, breaks, watched, cacheVars, metrics, callVars,
                   ignored>>

-----------------------------------------------------------------------------
(* EnrichLogs.  The lookup and the fetch loop follow the order of the input, *)
(* the publish loop that of a Go map; inputs come in every order, so the     *)
(* loops take their pods in any order.                                       *)

\* Fault: the empty UID is taken for a pod.
DeduplicateKeepsEmpty(input) == {input[i] : i \in DOMAIN input}

\* deduplicatePodUIDs: the pods of the list, once each, without empty UIDs.
DeduplicatePodUIDs(input) == {input[i] : i \in DOMAIN input} \ {NoUID}

\* A call without a pod returns its empty result at once and is not recorded.
EnrichLogs(c, input) ==
    LET unique == DeduplicatePodUIDs(input)
    IN  /\ pc[c] = "idle"
        /\ pc' = [pc EXCEPT ![c] = IF unique = {} THEN "done" ELSE "lookup"]
        /\ want' = [want EXCEPT ![c] = unique]
        /\ todo' = [todo EXCEPT ![c] = unique]
        /\ askedVer' = [askedVer EXCEPT ![c] = ver]
        /\ UNCHANGED <<clusterVars, informerVars, running, cacheVars, metrics,
                       misses, meta, fetched, failed, hits, api, errs, ignored>>

\* What follows pod p in the lookup loop.  After the last pod the call goes
\* on to fetch what was missing, or is finished when nothing was.
NextLookUp(c, p) ==
    /\ todo' = [todo EXCEPT ![c] = IF @ = {p} THEN misses'[c] ELSE @ \ {p}]
    /\ pc' = [pc EXCEPT ![c] = IF todo[c] # {p} THEN "lookup"
                               ELSE IF misses'[c] = {} THEN "record"
                                                       ELSE "fetch"]

\* MetadataCache.Get returns the entry of p.
Hit(c, p) ==
    /\ pc[c] = "lookup"
    /\ p \in todo[c]
    /\ cache[p] # 0
    /\ meta' = [meta EXCEPT ![c][p] = cache[p]]
    /\ hits' = [hits EXCEPT ![c] = @ + 1]
    /\ UNCHANGED misses
    /\ NextLookUp(c, p)
    /\ UNCHANGED <<clusterVars, informerVars, running, cacheVars, metrics,
                   want, fetched, failed, api, askedVer, errs, ignored>>

\* MetadataCache.Get returns nil.
Miss(c, p) ==
    /\ pc[c] = "lookup"
    /\ p \in todo[c]
    /\ cache[p] = 0
    /\ misses' = [misses EXCEPT ![c] = @ \cup {p}]
    /\ NextLookUp(c, p)
    /\ UNCHANGED <<clusterVars, informerVars, running, cacheVars, metrics,
                   want, meta, hits, fetched, failed, api, askedVer, errs,
                   ignored>>

\* What follows pod p in the loop of fetchBatchMetadata: after the last pod
\* the call stores the pods it got, if it got any.
NextFetch(c, p) ==
    LET got == misses[c] \ failed'[c]
    IN  /\ todo' = [todo EXCEPT ![c] = IF @ = {p} THEN got ELSE @ \ {p}]
        /\ pc' = [pc EXCEPT ![c] = IF todo[c] # {p} THEN "fetch"
                                   ELSE IF got = {} THEN "record"
                                                    ELSE "publish"]

\* List answers with the pod's present state.
FetchFound(c, p) ==
    /\ pc[c] = "fetch"
    /\ p \in todo[c]
    /\ Live(p)
    /\ fetched' = [fetched EXCEPT ![c][p] = ver[p]]
    /\ api' = [api EXCEPT ![c] = @ + 1]
    /\ UNCHANGED failed
    /\ NextFetch(c, p)
    /\ UNCHANGED <<clusterVars, informerVars, running, cacheVars, metrics,
                   want, misses, meta, hits, askedVer, errs, ignored>>

\* Fault: a pod that was not found is not reported as failed.
FetchMissingSilently(c, p) ==
    /\ pc[c] = "fetch"
    /\ p \in todo[c]
    /\ ~Live(p)
    /\ UNCHANGED <<fetched, api, failed>>
    /\ NextFetch(c, p)
    /\ UNCHANGED <<clusterVars, informerVars, running, cacheVars, metrics,
                   want, misses, meta, hits, askedVer, errs, ignored>>

\* Fault: len(podList.Items) > 1, with a Limit of 1.
FetchMissingAlways(c, p) ==
    /\ pc[c] = "fetch"
    /\ p \in todo[c]
    /\ failed' = [failed EXCEPT ![c] = @ \cup {p}]
    /\ UNCHANGED <<fetched, api>>
    /\ NextFetch(c, p)
    /\ UNCHANGED <<clusterVars, informerVars, running, cacheVars, metrics,
                   want, misses, meta, hits, askedVer, errs, ignored>>

\* List answers with an empty list: the pod is not in the cluster.
FetchMissing(c, p) ==
    /\ pc[c] = "fetch"
    /\ p \in todo[c]
    /\ ~Live(p)
    /\ failed' = [failed EXCEPT ![c] = @ \cup {p}]
    /\ UNCHANGED <<fetched, api>>
    /\ NextFetch(c, p)
    /\ UNCHANGED <<clusterVars, informerVars, running, cacheVars, metrics,
                   want, misses, meta, hits, askedVer, errs, ignored>>

\* List fails: the API server refuses, or APITimeout or the request's own
\* context has ended, which fails the pods that are left one after another.
FetchError(c, p) ==
    /\ pc[c] = "fetch"
    /\ p \in todo[c]
    /\ failed' = [failed EXCEPT ![c] = @ \cup {p}]
    /\ errs' = [errs EXCEPT ![c] = @ \cup {p}]
    /\ UNCHANGED <<fetched, api>>
    /\ NextFetch(c, p)
    /\ UNCHANGED <<clusterVars, informerVars, running, cacheVars, metrics,
                   want, misses, meta, hits, askedVer, ignored>>

\* Fault: a pod that got an entry in the meantime is skipped, answer and all.
PublishIfAbsent(c, p) ==
    /\ pc[c] = "publish"
    /\ p \in todo[c]
    /\ meta' = [meta EXCEPT ![c][p] = IF cache[p] = 0 THEN fetched[c][p] ELSE @]
    /\ cache' = [cache EXCEPT ![p] = IF @ = 0 THEN fetched[c][p] ELSE @]
    /\ source' = [source EXCEPT ![p] = IF cache[p] = 0 THEN "api" ELSE @]
    /\ todo' = [todo EXCEPT ![c] = @ \ {p}]
    /\ pc' = [pc EXCEPT ![c] = IF todo[c] = {p} THEN "record" ELSE @]
    /\ UNCHANGED <<clusterVars, informerVars, running, metrics, want, misses,
                   fetched, failed, hits, api, askedVer, errs, ignored>>

\* One turn of the loop over apiResult.Metadata: the answer gets the pod and
\* MetadataCache.Set stores it, over whatever the cache holds by now.
Publish(c, p) ==
    /\ pc[c] = "publish"
    /\ p \in todo[c]
    /\ meta' = [meta EXCEPT ![c][p] = fetched[c][p]]
    /\ cache' = [cache EXCEPT ![p] = fetched[c][p]]
    /\ source' = [source EXCEPT ![p] = "api"]
    /\ todo' = [todo EXCEPT ![c] = @ \ {p}]
    /\ pc' = [pc EXCEPT ![c] = IF todo[c] = {p} THEN "record" ELSE @]
    /\ UNCHANGED <<clusterVars, informerVars, running, metrics, want, misses,
                   fetched, failed, hits, api, askedVer, errs, ignored>>

\* Fault: the pods found in the cache count as failures.
RecordForgetsHits(c) ==
    /\ pc[c] = "record"
    /\ pc' = [pc EXCEPT ![c] = "done"]
    /\ metrics' = [enrichments |-> metrics.enrichments + 1,
                   hits |-> metrics.hits + hits[c],
                   api |-> metrics.api + api[c],
                   failures |-> metrics.failures
                                  + (Cardinality(want[c]) - api[c])]
    /\ UNCHANGED <<clusterVars, informerVars, running, cacheVars, want, todo,
                   misses, meta, fetched, failed, hits, api, askedVer, errs,
                   ignored>>

\* RecordEnrichment, which works the failures out from the other counts.
RecordEnrichment(c) ==
    LET total == Cardinality(want[c])
    IN  /\ pc[c] = "record"
        /\ pc' = [pc EXCEPT ![c] = "done"]
        /\ metrics' = [enrichments |-> metrics.enrichments + 1,
                       hits |-> metrics.hits + hits[c],
                       api |-> metrics.api + api[c],
                       failures |-> IF api[c] < total
                                      THEN metrics.failures
                                             + (total - hits[c] - api[c])
                                      ELSE metrics.failures]
        /\ UNCHANGED <<clusterVars, informerVars, running, cacheVars, want,
                       todo, misses, meta, fetched, failed, hits, api,
                       askedVer, errs, ignored>>

-----------------------------------------------------------------------------

Cluster ==
    \E p \in Pods : \/ PodCreate(p)
                    \/ PodUpdate(p)
                    \/ PodDelete(p)
                    \/ StartTimeAges(p)

Informer ==
    \/ WatchBreaks
    \/ Relist
    \/ \E p \in Pods : Observe(p) \/ Resync(p)

Handler(p) == OnStore(p) \/ OnDelete(p) \/ OnTombstone(p)

LookUp(c, p) == Hit(c, p) \/ Miss(c, p)

\* Fault: a pod that List did not give is listed again, without a limit.
FetchUntilFound(c, p) == FetchFound(c, p)

Fetch(c, p) == FetchFound(c, p) \/ FetchMissing(c, p) \/ FetchError(c, p)

\* a step of call c once it has begun
Work(c) ==
    \/ \E p \in Pods : LookUp(c, p) \/ Fetch(c, p) \/ Publish(c, p)
    \/ RecordEnrichment(c)

Next ==
    \/ Cluster
    \/ Informer
    \/ \E p \in Pods : Handler(p)
    \/ Cleanup
    \/ Shutdown
    \/ \E c \in Calls : \/ \E input \in Inputs : EnrichLogs(c, input)
                        \/ Work(c)

Spec == Init /\ [][Next]_vars

\* A call that has begun is run by its goroutine; the ticker of cleanupLoop
\* and the goroutines of the informer keep running; time passes.
Fairness ==
    /\ \A c \in Calls : WF_vars(Work(c))
    /\ WF_vars(Cleanup)
    /\ WF_vars(Relist)
    /\ \A p \in Pods : /\ WF_vars(Observe(p))
                       /\ WF_vars(Resync(p))
                       /\ WF_vars(Handler(p))
                       /\ WF_vars(StartTimeAges(p))

FairSpec == Spec /\ Fairness

-----------------------------------------------------------------------------
(* Properties *)

ClusterTypeOK ==
    /\ ver \in [Pods -> Versions]
    /\ gone \in [Pods -> BOOLEAN]
    /\ aged \in [Pods -> BOOLEAN]

InformerTypeOK ==
    /\ connected \in BOOLEAN
    /\ breaks \in 0 .. MaxBreaks
    /\ watched \in [Pods -> 0 .. MaxVersion + 1]
    /\ events \in [Pods -> Seq(Event)]

ServiceTypeOK ==
    /\ running \in BOOLEAN
    /\ cache \in [Pods -> Versions]
    /\ source \in [Pods -> Sources]
    /\ metrics \in [enrichments : Nat, hits : Nat, api : Nat, failures : Int]
    /\ ignored \in SUBSET Pods

CallTypeOK ==
    /\ pc \in [Calls -> Steps]
    /\ want \in [Calls -> SUBSET Pods]
    /\ todo \in [Calls -> SUBSET Pods]
    /\ misses \in [Calls -> SUBSET Pods]
    /\ meta \in [Calls -> [Pods -> Versions]]
    /\ fetched \in [Calls -> [Pods -> Versions]]
    /\ failed \in [Calls -> SUBSET Pods]
    /\ hits \in [Calls -> Nat]
    /\ api \in [Calls -> Nat]
    /\ askedVer \in [Calls -> [Pods -> Versions]]
    /\ errs \in [Calls -> SUBSET Pods]

\* The values of the state: every variable keeps its type.  (That the failure
\* counter is a subtraction that stays positive is part of FailuresCounted.)
TypeOK == ClusterTypeOK /\ InformerTypeOK /\ ServiceTypeOK /\ CallTypeOK

\* the pods a call's answer holds metadata of
Answered(c) == {p \in Pods : meta[c][p] # 0}

\* A finished call accounts for every pod it was asked for: the pod is in
\* Metadata or in FailedPodUIDs and never in both, nothing else is, and
\* CacheHits and APICalls add up to the pods found.  The response's
\* enrichment block (service.go 261-268) reports these counts as they are.
ResultAccounted ==
    \A c \in Calls : pc[c] = "done" =>
        /\ Answered(c) \cup failed[c] = want[c]
        /\ Answered(c) \cap failed[c] = {}
        /\ hits[c] + api[c] = Cardinality(Answered(c))

\* RecordEnrichment never sees the failed pods, it subtracts.  Over all the
\* calls that were recorded the total is the number of pods that failed.
FailuresCounted ==
    LET recorded == {c \in Calls : pc[c] = "done" /\ want[c] # {}}
        failures == {cp \in recorded \X Pods : cp[2] \in failed[cp[1]]}
    IN  /\ metrics.enrichments = Cardinality(recorded)
        /\ metrics.failures = Cardinality(failures)

\* What a call fetched is no older than the moment the call began, and a pod
\* it reports as failed had a List error or was not in the cluster for the
\* whole call, however the cluster changed between the loops.
AnswersJustified ==
    \A c \in Calls : \A p \in Pods :
        /\ fetched[c][p] # 0 => fetched[c][p] >= askedVer[c][p]
        /\ p \in failed[c] \ errs[c] => askedVer[c][p] = 0 \/ gone[p]

\* nothing about p is on its way from the cluster to the handlers
CaughtUp(p) == running /\ watched[p] = Changes(p) /\ events[p] = <<>>

\* The informer's half of the cache is right: when it has caught up with p,
\* an entry it stored is p's present state, or else p is gone and its
\* deletion came as the tombstone that DeleteFunc drops.
InformerEntriesCurrent ==
    \A p \in Pods :
        CaughtUp(p) /\ cache[p] # 0 /\ source[p] = "informer" =>
            \/ Live(p) /\ cache[p] = ver[p]
            \/ gone[p] /\ p \in ignored

\* Every call that began returns, whatever the API server does.
CallsReturn ==
    \A c \in Calls : pc[c] # "idle" ~> pc[c] = "done"

\* While the informer runs, the entry of a pod that stays alive ends up at
\* the pod's present state, even when a call stored an older one over it:
\* the resync puts it right.
LiveEntriesHeal ==
    \A p \in Pods :
        EnableInformer /\ []running /\ <>[]Live(p)
            => <>[](cache[p] \in {0, ver[p]})

\* An entry of a deleted pod that has a start time does not stay for ever:
\* the janitor takes it, or an older one without start time replaces it.
DeadEntriesExpire ==
    \A p \in Pods :
        gone[p] /\ HasStart(cache[p]) ~> ~HasStart(cache[p])

\* "Cache invalidation handles pod updates and deletions properly"
\* (story 3-2): a deleted pod whose entry the informer had stored, and whose
\* deletion it has heard of by its watch, has no entry from then on, whenever no
\* call is under way.
InvalidationComplete ==
    \A p \in Pods :
        [](gone[p] /\ source[p] = "informer" =>
            [](CaughtUp(p) /\ connected /\ (\A c \in Calls : pc[c] \in {"idle", "done"})
                => cache[p] = 0))

\* The calls as a reader of EnrichmentPromise sees them.
StatusOf(c) == CASE pc[c] = "idle" -> "idle"
                 [] pc[c] = "done" -> "answered"
                 [] OTHER -> "asked"
AnswerOf(c) == IF pc[c] = "done" THEN meta[c] ELSE Nothing
EnrichedOf(c) == IF pc[c] = "done" THEN hits[c] + api[c] ELSE 0
LostOf(c) == IF pc[c] = "done" THEN Cardinality(failed[c]) ELSE 0

Promise == INSTANCE EnrichmentPromise WITH
    status <- [c \in Calls |-> StatusOf(c)],
    answer <- [c \in Calls |-> AnswerOf(c)],
    enriched <- [c \in Calls |-> EnrichedOf(c)],
    lost <- [c \in Calls |-> LostOf(c)]

\* EnrichLogs, with its loops and beside the other writers of the cache,
\* keeps the promise of one atomic answer.
KeepsPromise == Promise!Spec

=============================================================================
