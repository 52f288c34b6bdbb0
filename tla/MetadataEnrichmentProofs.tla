---------------------- MODULE MetadataEnrichmentProofs ----------------------
(***************************************************************************)
(* What the metadata enrichment service guarantees, for every value of the *)
(* constants of MetadataEnrichment: its types and locks, what its cache    *)
(* holds, what a call answers (every pod of a call is accounted for, every *)
(* failure has a cause, the totals add up), and that it implements         *)
(* EnrichmentPromise.                                                      *)
(***************************************************************************)
EXTENDS MetadataEnrichment, FiniteSetTheorems, TLAPS

USE BoundsAssumption DEF BoundsAssumption

-----------------------------------------------------------------------------
(* Types *)

\* The changes of a pod are its states and perhaps its deletion.
LEMMA ChangesType ==
    ASSUME NEW p \in Pods, ClusterTypeOK
    PROVE  Changes(p) \in 0 .. MaxVersion + 1
  BY DEF ClusterTypeOK, Changes, Versions

\* The informer's store holds a state the pod may have.
LEMMA KnownType ==
    ASSUME NEW p \in Pods, ClusterTypeOK, InformerTypeOK
    PROVE  Known(p) \in Versions
  BY DEF ClusterTypeOK, InformerTypeOK, Known, Versions

\* Notifications are events.
LEMMA EventType ==
    /\ \A v \in Versions : Store(v) \in Event
    /\ \A kind \in Kinds : Removal(kind) \in Event
  BY DEF Store, Removal, Event, Kinds, Versions

\* Deduplication returns a set of pods.
LEMMA DeduplicateType ==
    ASSUME NEW input \in Inputs
    PROVE  DeduplicatePodUIDs(input) \in SUBSET Pods
  <1>1. input \in Seq(Pods \cup {NoUID})
    BY InputsAssumption DEF InputsAssumption
  <1>2. \A i \in DOMAIN input : input[i] \in Pods \cup {NoUID}
    BY <1>1
  <1>3. QED
    BY <1>2 DEF DeduplicatePodUIDs

\* A set of pods has a number of elements.
LEMMA PodsCount ==
    ASSUME NEW S \in SUBSET Pods
    PROVE  IsFiniteSet(S) /\ Cardinality(S) \in Nat
  BY FinitePodsAssumption, FS_Subset, FS_CardinalityType
    DEF FinitePodsAssumption

\* The initial state has its types.
LEMMA TypeInit == Init => TypeOK
  <1> SUFFICES ASSUME Init
               PROVE  TypeOK
    OBVIOUS
  <1>1. Nothing \in [Pods -> Versions]
    BY DEF Nothing, Versions
  <1>2. ClusterTypeOK
    BY <1>1 DEF Init, ClusterTypeOK
  <1>3. InformerTypeOK
    <2>1. [p \in Pods |-> <<>>] \in [Pods -> Seq(Event)]
      OBVIOUS
    <2>2. watched \in [Pods -> 0 .. MaxVersion + 1]
      BY DEF Init, Nothing
    <2>3. breaks \in 0 .. MaxBreaks
      BY DEF Init
    <2>4. QED
      BY <2>1, <2>2, <2>3 DEF Init, InformerTypeOK
  <1>4. ServiceTypeOK
    BY <1>1 DEF Init, ServiceTypeOK, Sources
  <1>5. CallTypeOK
    BY <1>1 DEF Init, CallTypeOK, Steps
  <1>6. QED
    BY <1>2, <1>3, <1>4, <1>5 DEF TypeOK

\* A step keeps the type of what it leaves alone.
LEMMA TypeUnchanged ==
    ASSUME TypeOK
    PROVE  /\ UNCHANGED clusterVars => ClusterTypeOK'
           /\ UNCHANGED informerVars => InformerTypeOK'
           /\ UNCHANGED <<running, cacheVars, metrics, ignored>>
                => ServiceTypeOK'
           /\ UNCHANGED callVars => CallTypeOK'
  <1>1. UNCHANGED clusterVars => ClusterTypeOK'
    BY DEF TypeOK, ClusterTypeOK, clusterVars
  <1>2. UNCHANGED informerVars => InformerTypeOK'
    BY DEF TypeOK, InformerTypeOK, informerVars
  <1>3. UNCHANGED <<running, cacheVars, metrics, ignored>> => ServiceTypeOK'
    BY DEF TypeOK, ServiceTypeOK, cacheVars
  <1>4. UNCHANGED callVars => CallTypeOK'
    BY DEF TypeOK, CallTypeOK, callVars
  <1>5. QED
    BY <1>1, <1>2, <1>3, <1>4

\* What the cluster does keeps the types.
LEMMA TypeCluster ==
    ASSUME TypeOK, Cluster
    PROVE  TypeOK'
  <1>1. ClusterTypeOK'
    <2> SUFFICES ASSUME NEW p \in Pods,
                        \/ PodCreate(p)
                        \/ PodUpdate(p)
                        \/ PodDelete(p)
                        \/ StartTimeAges(p)
                 PROVE  ClusterTypeOK'
      BY DEF Cluster
    <2> USE DEF TypeOK, ClusterTypeOK
    <2>1. CASE PodCreate(p)
      BY <2>1 DEF PodCreate, Versions
    <2>2. CASE PodUpdate(p)
      BY <2>2 DEF PodUpdate, Versions
    <2>3. CASE PodDelete(p)
      BY <2>3 DEF PodDelete
    <2>4. CASE StartTimeAges(p)
      BY <2>4 DEF StartTimeAges
    <2>5. QED
      BY <2>1, <2>2, <2>3, <2>4
  <1>2. UNCHANGED <<informerVars, running, cacheVars, metrics, callVars, ignored>>
    BY DEF Cluster, PodCreate, PodUpdate, PodDelete, StartTimeAges
  <1>3. QED
    BY <1>1, <1>2, TypeUnchanged DEF TypeOK

\* So does what the informer does.
LEMMA TypeInformer ==
    ASSUME TypeOK, Informer
    PROVE  TypeOK'
  <1>1. UNCHANGED <<clusterVars, running, cacheVars, metrics, callVars, ignored>>
    BY DEF Informer, WatchBreaks, Relist, Observe, Resync
  <1>2. WatchBreaks => InformerTypeOK'
    <2> SUFFICES ASSUME WatchBreaks
                 PROVE  InformerTypeOK'
      OBVIOUS
    <2>1. breaks' \in 0 .. MaxBreaks
      BY DEF TypeOK, InformerTypeOK, WatchBreaks
    <2>2. QED
      BY <2>1 DEF TypeOK, InformerTypeOK, WatchBreaks
  <1>3. ASSUME Relist
        PROVE  InformerTypeOK'
    <2>1. watched' \in [Pods -> 0 .. MaxVersion + 1]
      BY <1>3, ChangesType DEF Relist, TypeOK
    <2>2. /\ \A p \in Pods : Store(ver[p]) \in Event
          /\ Removal("tombstone") \in Event
      BY EventType DEF TypeOK, ClusterTypeOK, Kinds
    <2>3. events' \in [Pods -> Seq(Event)]
      BY <1>3, <2>2 DEF Relist, TypeOK, InformerTypeOK
    <2>4. QED
      BY <1>3, <2>1, <2>3 DEF Relist, TypeOK, InformerTypeOK
  <1>4. ASSUME NEW p \in Pods, Observe(p)
        PROVE  InformerTypeOK'
    <2>1. watched' \in [Pods -> 0 .. MaxVersion + 1]
      BY <1>4, ChangesType DEF Observe, TypeOK, InformerTypeOK
    <2>2. (IF watched[p] < ver[p] THEN Store(watched[p] + 1)
                                  ELSE Removal("delete")) \in Event
      <3>1. watched[p] < ver[p] => watched[p] + 1 \in Versions
        BY DEF TypeOK, ClusterTypeOK, InformerTypeOK, Versions
      <3>2. QED
        BY <3>1, EventType DEF Kinds
    <2>3. events' \in [Pods -> Seq(Event)]
      BY <1>4, <2>2 DEF Observe, TypeOK, InformerTypeOK
    <2>4. QED
      BY <1>4, <2>1, <2>3 DEF Observe, TypeOK, InformerTypeOK
  <1>5. ASSUME NEW p \in Pods, Resync(p)
        PROVE  InformerTypeOK'
    <2>1. <<Store(Known(p))>> \in Seq(Event)
      BY KnownType, EventType DEF TypeOK
    <2>2. QED
      BY <1>5, <2>1 DEF Resync, TypeOK, InformerTypeOK
  <1>6. InformerTypeOK'
    BY <1>2, <1>3, <1>4, <1>5 DEF Informer, TypeOK
  <1>7. QED
    BY <1>1, <1>6, TypeUnchanged DEF TypeOK

\* So do the handlers, the janitor and Shutdown.
LEMMA TypeService ==
    ASSUME TypeOK, (\E p \in Pods : Handler(p)) \/ Cleanup \/ Shutdown
    PROVE  TypeOK'
  <1>1. ASSUME NEW p \in Pods, OnStore(p)
        PROVE  InformerTypeOK' /\ ServiceTypeOK'
    <2>1. Head(events[p]) \in Event /\ Tail(events[p]) \in Seq(Event)
      BY <1>1 DEF OnStore, TypeOK, InformerTypeOK
    <2>2. Head(events[p]).ver \in Versions
      BY <2>1 DEF Event
    <2>3. InformerTypeOK'
      BY <1>1, <2>1 DEF OnStore, TypeOK, InformerTypeOK
    <2>4. ServiceTypeOK'
      BY <1>1, <2>2 DEF OnStore, TypeOK, ServiceTypeOK, Sources
    <2>5. QED
      BY <2>3, <2>4
  <1>2. ASSUME NEW p \in Pods, OnDelete(p) \/ OnTombstone(p)
        PROVE  InformerTypeOK' /\ ServiceTypeOK'
    <2>1. events[p] # <<>> /\ events' = [events EXCEPT ![p] = Tail(@)]
      BY <1>2 DEF OnDelete, OnTombstone
    <2>2. Tail(events[p]) \in Seq(Event)
      BY <2>1 DEF TypeOK, InformerTypeOK
    <2>3. InformerTypeOK'
      BY <1>2, <2>1, <2>2 DEF OnDelete, OnTombstone, TypeOK, InformerTypeOK
    <2>4. CASE OnDelete(p)
      BY <2>3, <2>4 DEF OnDelete, TypeOK, ServiceTypeOK, Sources, Versions
    <2>5. CASE OnTombstone(p)
      BY <2>3, <2>5 DEF OnTombstone, TypeOK, ServiceTypeOK, cacheVars
    <2>6. QED
      BY <1>2, <2>4, <2>5
  <1>3. CASE Cleanup
    <2>1. ServiceTypeOK'
      BY <1>3 DEF Cleanup, TypeOK, ServiceTypeOK, Sources, Versions
    <2>2. QED
      BY <1>3, <2>1, TypeUnchanged DEF Cleanup, TypeOK
  <1>4. CASE Shutdown
    <2>1. [p \in Pods |-> <<>>] \in [Pods -> Seq(Event)]
      OBVIOUS
    <2>2. InformerTypeOK'
      BY <1>4, <2>1 DEF Shutdown, TypeOK, InformerTypeOK
    <2>3. ServiceTypeOK'
      BY <1>4 DEF Shutdown, TypeOK, ServiceTypeOK, cacheVars
    <2>4. QED
      BY <1>4, <2>2, <2>3, TypeUnchanged DEF Shutdown, TypeOK
  <1>5. ASSUME NEW p \in Pods, Handler(p)
        PROVE  TypeOK'
    <2>1. UNCHANGED <<clusterVars, callVars>>
      BY <1>5 DEF Handler, OnStore, OnDelete, OnTombstone
    <2>2. QED
      BY <1>1, <1>2, <1>5, <2>1, TypeUnchanged DEF Handler, TypeOK
  <1>6. QED
    BY <1>3, <1>4, <1>5

\* And every step of a call.
LEMMA TypeCall ==
    ASSUME TypeOK, NEW c \in Calls,
           (\E input \in Inputs : EnrichLogs(c, input)) \/ Work(c)
    PROVE  TypeOK'
  <1>1. ASSUME NEW input \in Inputs, EnrichLogs(c, input)
        PROVE  TypeOK'
    <2>1. CallTypeOK'
      BY <1>1, DeduplicateType
        DEF EnrichLogs, TypeOK, CallTypeOK, ClusterTypeOK, Steps
    <2>2. QED
      BY <1>1, <2>1, TypeUnchanged DEF EnrichLogs, TypeOK
  <1>2. ASSUME NEW p \in Pods, LookUp(c, p)
        PROVE  TypeOK'
    <2>1. /\ NextLookUp(c, p)
          /\ UNCHANGED <<clusterVars, informerVars, running, cacheVars, metrics,
                         want, fetched, failed, api, askedVer, errs, ignored>>
      BY <1>2 DEF LookUp, Hit, Miss
    <2>2. /\ misses' \in [Calls -> SUBSET Pods]
          /\ meta' \in [Calls -> [Pods -> Versions]]
          /\ hits' \in [Calls -> Nat]
      <3> USE DEF TypeOK, CallTypeOK
      <3>1. CASE Hit(c, p)
        <4>1. cache[p] \in Versions
          BY DEF ServiceTypeOK
        <4>2. QED
          BY <3>1, <4>1 DEF Hit
      <3>2. CASE Miss(c, p)
        BY <3>2 DEF Miss
      <3>3. QED
        BY <1>2, <3>1, <3>2 DEF LookUp
    <2>3. todo' \in [Calls -> SUBSET Pods]
      BY <2>1, <2>2 DEF NextLookUp, TypeOK, CallTypeOK
    <2>4. pc' \in [Calls -> Steps]
      BY <2>1 DEF NextLookUp, TypeOK, CallTypeOK, Steps
    <2>5. CallTypeOK'
      BY <2>1, <2>2, <2>3, <2>4 DEF TypeOK, CallTypeOK
    <2>6. QED
      BY <2>1, <2>5, TypeUnchanged DEF TypeOK
  <1>3. ASSUME NEW p \in Pods, Fetch(c, p)
        PROVE  TypeOK'
    <2>1. /\ NextFetch(c, p)
          /\ UNCHANGED <<clusterVars, informerVars, running, cacheVars, metrics,
                         want, misses, meta, hits, askedVer, ignored>>
      BY <1>3 DEF Fetch, FetchFound, FetchMissing, FetchError
    <2>2. /\ failed' \in [Calls -> SUBSET Pods]
          /\ errs' \in [Calls -> SUBSET Pods]
          /\ fetched' \in [Calls -> [Pods -> Versions]]
          /\ api' \in [Calls -> Nat]
      <3> USE DEF TypeOK, CallTypeOK
      <3>1. CASE FetchFound(c, p)
        <4>1. ver[p] \in Versions
          BY DEF ClusterTypeOK
        <4>2. QED
          BY <3>1, <4>1 DEF FetchFound
      <3>2. CASE FetchMissing(c, p)
        BY <3>2 DEF FetchMissing
      <3>3. CASE FetchError(c, p)
        BY <3>3 DEF FetchError
      <3>4. QED
        BY <1>3, <3>1, <3>2, <3>3 DEF Fetch
    <2>3. todo' \in [Calls -> SUBSET Pods]
      BY <2>1, <2>2 DEF NextFetch, TypeOK, CallTypeOK
    <2>4. pc' \in [Calls -> Steps]
      BY <2>1 DEF NextFetch, TypeOK, CallTypeOK, Steps
    <2>5. CallTypeOK'
      BY <2>1, <2>2, <2>3, <2>4 DEF TypeOK, CallTypeOK
    <2>6. QED
      BY <2>1, <2>5, TypeUnchanged DEF TypeOK
  <1>4. ASSUME NEW p \in Pods, Publish(c, p)
        PROVE  TypeOK'
    <2>1. fetched[c][p] \in Versions
      BY DEF TypeOK, CallTypeOK
    <2>2. CallTypeOK'
      BY <1>4, <2>1 DEF Publish, TypeOK, CallTypeOK, Steps
    <2>3. ServiceTypeOK'
      BY <1>4, <2>1 DEF Publish, TypeOK, ServiceTypeOK, Sources
    <2>4. QED
      BY <1>4, <2>2, <2>3, TypeUnchanged DEF Publish, TypeOK
  <1>5. CASE RecordEnrichment(c)
    <2>1. Cardinality(want[c]) \in Nat
      BY PodsCount DEF TypeOK, CallTypeOK
    <2>2. ServiceTypeOK'
      BY <1>5, <2>1
        DEF RecordEnrichment, TypeOK, ServiceTypeOK, CallTypeOK, cacheVars
    <2>3. CallTypeOK'
      BY <1>5 DEF RecordEnrichment, TypeOK, CallTypeOK, Steps
    <2>4. QED
      BY <1>5, <2>2, <2>3, TypeUnchanged DEF RecordEnrichment, TypeOK
  <1>6. QED
    BY <1>1, <1>2, <1>3, <1>4, <1>5 DEF Work

\* Every variable keeps its type, whatever the cluster, the informer, the
\* janitor and the calls do.
THEOREM TypeCorrect == Spec => []TypeOK
  <1>1. TypeOK /\ [Next]_vars => TypeOK'
    <2> SUFFICES ASSUME TypeOK, [Next]_vars
                 PROVE  TypeOK'
      OBVIOUS
    <2>1. CASE Next
      BY <2>1, TypeCluster, TypeInformer, TypeService, TypeCall DEF Next
    <2>2. CASE UNCHANGED vars
      BY <2>2, TypeUnchanged DEF vars, TypeOK
    <2>3. QED
      BY <2>1, <2>2
  <1>2. QED
    BY TypeInit, <1>1, PTL DEF Spec

-----------------------------------------------------------------------------
(* The informer's half of the cache *)

\* the last notification on p that waits for the handlers
LastEvent(p) == events[p][Len(events[p])]

\* The informer's store and its queue: the store is never ahead of the
\* cluster, and the last notification in the queue tells what it holds.
StoreOK(p) ==
    /\ gone[p] => ver[p] > 0
    /\ watched[p] <= Changes(p)
    /\ events[p] # <<>> =>
         \/ Known(p) # 0 /\ LastEvent(p) = Store(Known(p))
         \/ /\ Known(p) = 0
            /\ gone[p]
            /\ LastEvent(p).kind \in {"delete", "tombstone"}

\* What the handlers wrote for p, once they have nothing left to be told.
EntryOK(p) ==
    running /\ events[p] = <<>> /\ cache[p] # 0 /\ source[p] = "informer"
        => \/ cache[p] = Known(p)
           \/ Known(p) = 0 /\ gone[p] /\ p \in ignored

\* The inductive invariant: InformerEntriesCurrent speaks of a queue that is
\* empty, and a queue gets empty from one whose last notification is known.
InformerInv == \A p \in Pods : StoreOK(p) /\ EntryOK(p)

\* The last element of a queue that got one more, or lost its first.
LEMMA QueueEnds ==
    ASSUME NEW q \in Seq(Event), NEW e \in Event
    PROVE  /\ Append(q, e) # <<>>
           /\ Append(q, e)[Len(Append(q, e))] = e
           /\ q # <<>> /\ Tail(q) # <<>> =>
                Tail(q)[Len(Tail(q))] = q[Len(q)]
           /\ q # <<>> /\ Tail(q) = <<>> => Head(q) = q[Len(q)]
  OBVIOUS

\* A step that touches nothing about p keeps what is known about it.
LEMMA PodFrame ==
    ASSUME NEW p \in Pods, StoreOK(p), EntryOK(p),
           ver[p]' = ver[p], gone[p]' = gone[p], watched[p]' = watched[p],
           events[p]' = events[p], running' => running,
           cache[p]' # 0 /\ source[p]' = "informer" =>
               cache[p]' = cache[p] /\ source[p]' = source[p],
           p \in ignored => p \in ignored'
    PROVE  StoreOK(p)' /\ EntryOK(p)'
  <1>1. Known(p)' = Known(p) /\ Changes(p)' = Changes(p)
    BY DEF Known, Changes
  <1>2. LastEvent(p)' = LastEvent(p)
    BY DEF LastEvent
  <1>3. QED
    BY <1>1, <1>2 DEF StoreOK, EntryOK

\* Initially nothing is cached and no notification is under way.
LEMMA InformerInvInit == Init => InformerInv
  BY DEF Init, InformerInv, StoreOK, EntryOK, Nothing, Changes, Known

\* The cluster moves away from the informer, and takes nothing back.
LEMMA InformerInvCluster ==
    ASSUME TypeOK, InformerInv, Cluster
    PROVE  InformerInv'
  <1> SUFFICES ASSUME NEW q \in Pods,
                      \/ PodCreate(q)
                      \/ PodUpdate(q)
                      \/ PodDelete(q)
                      \/ StartTimeAges(q),
                      NEW p \in Pods
               PROVE  StoreOK(p)' /\ EntryOK(p)'
    BY DEF Cluster, InformerInv
  <1>1. UNCHANGED <<informerVars, running, cacheVars, ignored>>
    BY DEF PodCreate, PodUpdate, PodDelete, StartTimeAges
  <1>2. /\ ver[p] \in Nat /\ watched[p] \in Nat /\ ver[p]' \in Nat
        /\ gone[p] => gone[p]' /\ ver[p]' = ver[p]
        /\ ver[p] <= ver[p]'
        /\ gone[p]' => ver[p]' > 0
    <2> USE DEF TypeOK, ClusterTypeOK, InformerTypeOK, Versions, InformerInv,
                StoreOK
    <2>1. CASE PodCreate(q)
      BY <2>1 DEF PodCreate
    <2>2. CASE PodUpdate(q)
      BY <2>2 DEF PodUpdate, Live
    <2>3. CASE PodDelete(q)
      <3>1. ver' = ver /\ ver[q] > 0 /\ gone' = [gone EXCEPT ![q] = TRUE]
        BY <2>3 DEF PodDelete, Live
      <3>2. CASE p = q
        BY <3>1, <3>2
      <3>3. CASE p # q
        BY <3>1, <3>3
      <3>4. QED
        BY <3>2, <3>3
    <2>4. CASE StartTimeAges(q)
      BY <2>4 DEF StartTimeAges
    <2>5. QED
      BY <2>1, <2>2, <2>3, <2>4
  <1>3. Known(p)' = Known(p) /\ watched[p]' <= Changes(p)'
    BY <1>1, <1>2 DEF Known, Changes, informerVars, InformerInv, StoreOK
  <1>4. QED
    BY <1>1, <1>2, <1>3
      DEF InformerInv, StoreOK, EntryOK, LastEvent, informerVars, cacheVars

\* The informer notifies of every change of its store, and last of the last.
LEMMA InformerInvInformer ==
    ASSUME TypeOK, InformerInv, Informer
    PROVE  InformerInv'
  <1> SUFFICES ASSUME NEW p \in Pods
               PROVE  StoreOK(p)' /\ EntryOK(p)'
    BY DEF InformerInv
  <1> USE DEF TypeOK
  <1>1. UNCHANGED <<clusterVars, running, cacheVars, ignored>>
    BY DEF Informer, WatchBreaks, Relist, Observe, Resync
  <1>2. StoreOK(p) /\ EntryOK(p)
    BY DEF InformerInv
  <1>3. ver[p] \in Nat /\ watched[p] \in Nat /\ events[p] \in Seq(Event)
    BY DEF ClusterTypeOK, InformerTypeOK, Versions
  <1>4. watched[p]' = watched[p] /\ events[p]' = events[p]
          => StoreOK(p)' /\ EntryOK(p)'
    BY <1>1, <1>2, PodFrame DEF clusterVars, cacheVars
  <1>5. ASSUME NEW e \in Event,
               events[p]' = Append(events[p], e),
               watched[p]' <= Changes(p),
               \/ Known(p)' # 0 /\ e = Store(Known(p)')
               \/ Known(p)' = 0 /\ gone[p] /\ e.kind \in {"delete", "tombstone"}
        PROVE  StoreOK(p)' /\ EntryOK(p)'
    <2>1. events[p]' # <<>> /\ LastEvent(p)' = e
      BY <1>3, <1>5, QueueEnds DEF LastEvent
    <2>2. ver[p]' = ver[p] /\ gone[p]' = gone[p] /\ Changes(p)' = Changes(p)
      BY <1>1 DEF clusterVars, Changes
    <2>3. QED
      BY <1>2, <1>5, <2>1, <2>2 DEF StoreOK, EntryOK
  <1>6. CASE WatchBreaks
    BY <1>4, <1>6 DEF WatchBreaks
  <1>7. CASE Relist
    <2>1. watched[p]' = Changes(p)
      BY <1>7 DEF Relist
    <2>2. Changes(p) \in Nat
      BY ChangesType
    <2>3. Known(p)' = IF Live(p) THEN ver[p] ELSE 0
      BY <1>1, <1>2, <1>3, <2>1 DEF Known, Changes, Live, clusterVars, StoreOK
    <2>4. CASE Live(p) /\ Known(p) # ver[p]
      <3>1. events[p]' = Append(events[p], Store(ver[p]))
        BY <1>7, <2>4 DEF Relist, InformerTypeOK
      <3>2. Store(ver[p]) \in Event
        BY EventType DEF ClusterTypeOK
      <3>3. QED
        BY <1>3, <1>5, <2>1, <2>2, <2>3, <2>4, <3>1, <3>2 DEF Live
    <2>5. CASE ~Live(p) /\ Known(p) # 0
      <3>1. events[p]' = Append(events[p], Removal("tombstone"))
        BY <1>7, <2>5 DEF Relist, InformerTypeOK
      <3>2. /\ Removal("tombstone") \in Event
            /\ Removal("tombstone").kind = "tombstone"
        BY EventType DEF Kinds, Removal
      <3>3. gone[p]
        BY <1>2, <1>3, <2>5 DEF Live, Known, StoreOK, Changes
      <3>4. QED
        BY <1>5, <2>1, <2>2, <2>3, <2>5, <3>1, <3>2, <3>3
    <2>6. CASE \/ Live(p) /\ Known(p) = ver[p]
               \/ ~Live(p) /\ Known(p) = 0
      <3>1. events[p]' = events[p]
        BY <1>7, <2>6 DEF Relist, InformerTypeOK, Live
      <3>2. Known(p)' = Known(p)
        BY <2>3, <2>6
      <3>3. watched[p]' <= Changes(p)' /\ LastEvent(p)' = LastEvent(p)
        BY <1>1, <2>1, <2>2, <3>1 DEF Changes, clusterVars, LastEvent
      <3>4. QED
        BY <1>1, <1>2, <3>1, <3>2, <3>3
          DEF StoreOK, EntryOK, clusterVars, cacheVars
    <2>7. QED
      BY <2>4, <2>5, <2>6
  <1>8. ASSUME NEW q \in Pods, Observe(q)
        PROVE  StoreOK(p)' /\ EntryOK(p)'
    <2>1. CASE p # q
      BY <1>4, <1>8, <2>1 DEF Observe, InformerTypeOK
    <2>2. CASE p = q
      <3>1. watched[p]' = watched[p] + 1 /\ watched[p] < Changes(p)
        BY <1>8, <2>2 DEF Observe, InformerTypeOK
      <3>2. CASE watched[p] < ver[p]
        <4>1. events[p]' = Append(events[p], Store(watched[p] + 1))
          BY <1>8, <2>2, <3>2 DEF Observe, InformerTypeOK
        <4>2. Store(watched[p] + 1) \in Event
          BY <1>3, <3>2, EventType DEF ClusterTypeOK, Versions
        <4>3. Known(p)' = watched[p] + 1
          BY <1>1, <1>3, <3>1, <3>2 DEF Known, clusterVars
        <4>4. QED
          BY <1>3, <1>5, <3>1, <4>1, <4>2, <4>3, ChangesType
      <3>3. CASE ~(watched[p] < ver[p])
        <4>1. events[p]' = Append(events[p], Removal("delete"))
          BY <1>8, <2>2, <3>3 DEF Observe, InformerTypeOK
        <4>2. /\ Removal("delete") \in Event
              /\ Removal("delete").kind = "delete"
          BY EventType DEF Kinds, Removal
        <4>3. Known(p)' = 0 /\ gone[p]
          BY <1>1, <1>3, <3>1, <3>3 DEF Known, Changes, clusterVars
        <4>4. QED
          BY <1>3, <1>5, <3>1, <4>1, <4>2, <4>3, ChangesType
      <3>4. QED
        BY <3>2, <3>3
    <2>3. QED
      BY <2>1, <2>2
  <1>9. ASSUME NEW q \in Pods, Resync(q)
        PROVE  StoreOK(p)' /\ EntryOK(p)'
    <2>1. CASE p # q
      BY <1>4, <1>9, <2>1 DEF Resync, InformerTypeOK
    <2>2. CASE p = q
      <3>1. /\ events[p] = <<>>
            /\ events[p]' = <<Store(Known(p))>>
            /\ watched[p]' = watched[p]
            /\ Known(p) # 0
        BY <1>9, <2>2 DEF Resync, InformerTypeOK
      <3>2. Store(Known(p)) \in Event
        BY KnownType, EventType
      <3>3. events[p]' = Append(events[p], Store(Known(p)))
        BY <3>1, <3>2
      <3>4. Known(p)' = Known(p)
        BY <1>1, <3>1 DEF Known, clusterVars
      <3>5. QED
        BY <1>2, <1>5, <3>1, <3>2, <3>3, <3>4 DEF StoreOK
    <2>3. QED
      BY <2>1, <2>2
  <1>10. QED
    BY <1>6, <1>7, <1>8, <1>9 DEF Informer

\* The handlers leave the entry as the last notification says, or note that
\* a tombstone was dropped; the janitor, Shutdown and the calls only take
\* entries away from the informer.
LEMMA InformerInvService ==
    ASSUME TypeOK, InformerInv,
           \/ \E q \in Pods : Handler(q)
           \/ Cleanup
           \/ Shutdown
           \/ \E c \in Calls : \/ \E input \in Inputs : EnrichLogs(c, input)
                               \/ Work(c)
    PROVE  InformerInv'
  <1> SUFFICES ASSUME NEW p \in Pods
               PROVE  StoreOK(p)' /\ EntryOK(p)'
    BY DEF InformerInv
  <1> USE DEF TypeOK
  <1>1. StoreOK(p) /\ EntryOK(p)
    BY DEF InformerInv
  <1>2. events[p] \in Seq(Event)
    BY DEF InformerTypeOK
  <1>3. ASSUME NEW q \in Pods, Handler(q)
        PROVE  StoreOK(p)' /\ EntryOK(p)'
    <2>1. UNCHANGED <<clusterVars, watched, running>>
      BY <1>3 DEF Handler, OnStore, OnDelete, OnTombstone
    <2>2. CASE p # q
      <3>1. /\ events[p]' = events[p]
            /\ p \in ignored => p \in ignored'
        BY <1>3, <2>2
          DEF Handler, OnStore, OnDelete, OnTombstone, InformerTypeOK
      <3>2. cache[p]' = cache[p] /\ source[p]' = source[p]
        BY <1>3, <2>2
          DEF Handler, OnStore, OnDelete, OnTombstone, ServiceTypeOK, cacheVars
      <3>3. QED
        BY <1>1, <2>1, <3>1, <3>2, PodFrame DEF clusterVars
    <2>3. CASE p = q
      <3>1. events[p] # <<>> /\ events[p]' = Tail(events[p])
        BY <1>3, <2>3
          DEF Handler, OnStore, OnDelete, OnTombstone, InformerTypeOK
      <3>2. Head(events[p]) \in Event
        BY <1>2, <3>1
      <3>3. /\ events[p]' # <<>> => LastEvent(p)' = LastEvent(p)
            /\ events[p]' = <<>> => Head(events[p]) = LastEvent(p)
        BY <1>2, <3>1, <3>2, QueueEnds DEF LastEvent
      <3>4. /\ Known(p)' = Known(p)
            /\ watched[p]' = watched[p]
            /\ Changes(p)' = Changes(p)
            /\ gone[p]' = gone[p] /\ ver[p]' = ver[p]
        BY <2>1 DEF Known, Changes, clusterVars
      <3>5. StoreOK(p)'
        BY <1>1, <3>1, <3>3, <3>4 DEF StoreOK
      <3>6. CASE events[p]' # <<>>
        BY <3>5, <3>6 DEF EntryOK
      <3>7. CASE events[p]' = <<>>
        <4>1. \/ Known(p) # 0 /\ Head(events[p]) = Store(Known(p))
              \/ /\ Known(p) = 0
                 /\ gone[p]
                 /\ Head(events[p]).kind \in {"delete", "tombstone"}
          BY <1>1, <3>1, <3>3, <3>7 DEF StoreOK
        <4>2. CASE OnStore(p)
          <5>1. Head(events[p]).kind = "store" /\ cache[p]' = Head(events[p]).ver
            BY <4>2 DEF OnStore, ServiceTypeOK
          <5>2. cache[p]' = Known(p)
            BY <4>1, <5>1 DEF Store
          <5>3. QED
            BY <3>4, <3>5, <5>2 DEF EntryOK
        <4>3. CASE OnDelete(p)
          <5>1. cache[p]' = 0
            BY <4>3 DEF OnDelete, ServiceTypeOK
          <5>2. QED
            BY <3>5, <5>1 DEF EntryOK
        <4>4. CASE OnTombstone(p)
          <5>1. Head(events[p]).kind = "tombstone" /\ p \in ignored'
            BY <4>4 DEF OnTombstone
          <5>2. Known(p) = 0 /\ gone[p]
            BY <4>1, <5>1 DEF Store
          <5>3. QED
            BY <3>4, <3>5, <5>1, <5>2 DEF EntryOK
        <4>5. QED
          BY <1>3, <2>3, <4>2, <4>3, <4>4 DEF Handler
      <3>8. QED
        BY <3>6, <3>7
    <2>4. QED
      BY <2>2, <2>3
  <1>4. CASE Cleanup
    <2>1. UNCHANGED <<clusterVars, informerVars, running, ignored>>
      BY <1>4 DEF Cleanup
    <2>2. cache[p]' = 0 \/ (cache[p]' = cache[p] /\ source[p]' = source[p])
      BY <1>4 DEF Cleanup
    <2>3. QED
      BY <1>1, <2>1, <2>2, PodFrame DEF clusterVars, informerVars
  <1>5. CASE Shutdown
    <2>1. /\ events[p]' = <<>> /\ ~running'
          /\ UNCHANGED <<clusterVars, watched>>
      BY <1>5 DEF Shutdown
    <2>2. QED
      BY <1>1, <2>1 DEF StoreOK, EntryOK, Changes, clusterVars
  <1>6. ASSUME NEW c \in Calls,
               (\E input \in Inputs : EnrichLogs(c, input)) \/ Work(c)
        PROVE  StoreOK(p)' /\ EntryOK(p)'
    <2>1. UNCHANGED <<clusterVars, informerVars, running, ignored>>
      BY <1>6 DEF EnrichLogs, Work, LookUp, Hit, Miss, Fetch, FetchFound,
                  FetchMissing, FetchError, Publish, RecordEnrichment
    <2>2. \/ cache[p]' = cache[p] /\ source[p]' = source[p]
          \/ source[p]' = "api"
      <3>1. ASSUME NEW q \in Pods, Publish(c, q)
            PROVE  \/ cache[p]' = cache[p] /\ source[p]' = source[p]
                   \/ source[p]' = "api"
        BY <3>1 DEF Publish, ServiceTypeOK
      <3>2. UNCHANGED cacheVars \/ \E q \in Pods : Publish(c, q)
        BY <1>6 DEF EnrichLogs, Work, LookUp, Hit, Miss, Fetch, FetchFound,
                    FetchMissing, FetchError, RecordEnrichment
      <3>3. QED
        BY <3>1, <3>2 DEF cacheVars
    <2>3. QED
      BY <1>1, <2>1, <2>2, PodFrame DEF clusterVars, informerVars
  <1>7. QED
    BY <1>3, <1>4, <1>5, <1>6

\* When the informer has caught up with a pod, the entry it stored is the
\* pod's present state, or the pod is gone and its tombstone was dropped.
THEOREM InformerCorrect == Spec => []InformerEntriesCurrent
  <1>1. TypeOK /\ InformerInv /\ [Next]_vars => InformerInv'
    <2> SUFFICES ASSUME TypeOK, InformerInv, [Next]_vars
                 PROVE  InformerInv'
      OBVIOUS
    <2>1. CASE Next
      BY <2>1, InformerInvCluster, InformerInvInformer, InformerInvService
        DEF Next
    <2>2. CASE UNCHANGED vars
      BY <2>2, PodFrame
        DEF InformerInv, vars, clusterVars, informerVars, cacheVars
    <2>3. QED
      BY <2>1, <2>2
  <1>2. TypeOK /\ InformerInv => InformerEntriesCurrent
    <2> SUFFICES ASSUME TypeOK, InformerInv, NEW p \in Pods,
                        CaughtUp(p), cache[p] # 0, source[p] = "informer"
                 PROVE  \/ Live(p) /\ cache[p] = ver[p]
                        \/ gone[p] /\ p \in ignored
      BY DEF InformerEntriesCurrent
    <2>1. ver[p] \in Nat /\ watched[p] = Changes(p)
      BY DEF TypeOK, ClusterTypeOK, Versions, CaughtUp
    <2>2. cache[p] = Known(p) \/ (gone[p] /\ p \in ignored)
      BY DEF InformerInv, EntryOK, CaughtUp
    <2>3. Known(p) = IF gone[p] THEN 0 ELSE ver[p]
      BY <2>1 DEF Known, Changes
    <2>4. QED
      BY <2>1, <2>2, <2>3 DEF Live
  <1>3. QED
    BY TypeCorrect, InformerInvInit, <1>1, <1>2, PTL DEF Spec

-----------------------------------------------------------------------------
(* The calls *)

\* What the world does leaves the calls alone.
World ==
    \/ Cluster
    \/ Informer
    \/ \E p \in Pods : Handler(p)
    \/ Cleanup
    \/ Shutdown

\* A step of the world leaves the calls alone and only moves pods forward.
LEMMA WorldStep ==
    ASSUME TypeOK, World
    PROVE  /\ UNCHANGED callVars
           /\ \A p \in Pods : ver[p] <= ver[p]' /\ (gone[p] => gone[p]')
  <1>1. UNCHANGED callVars
    BY DEF World, Cluster, PodCreate, PodUpdate, PodDelete, StartTimeAges,
           Informer, WatchBreaks, Relist, Observe, Resync, Handler, OnStore,
           OnDelete, OnTombstone, Cleanup, Shutdown
  <1>2. CASE Cluster
    <2> SUFFICES ASSUME NEW p \in Pods,
                        NEW q \in Pods,
                        \/ PodCreate(q)
                        \/ PodUpdate(q)
                        \/ PodDelete(q)
                        \/ StartTimeAges(q)
                 PROVE  ver[p] <= ver[p]' /\ (gone[p] => gone[p]')
      BY <1>1, <1>2 DEF Cluster
    <2> USE DEF TypeOK, ClusterTypeOK, Versions
    <2>1. CASE PodCreate(q)
      BY <2>1 DEF PodCreate
    <2>2. CASE PodUpdate(q)
      BY <2>2 DEF PodUpdate
    <2>3. CASE PodDelete(q)
      <3>1. ver' = ver /\ gone' = [gone EXCEPT ![q] = TRUE]
        BY <2>3 DEF PodDelete
      <3>2. ver[p] <= ver[p]'
        BY <3>1
      <3>3. gone[p] => gone[p]'
        BY <3>1
      <3>4. QED
        BY <3>2, <3>3
    <2>4. CASE StartTimeAges(q)
      BY <2>4 DEF StartTimeAges
    <2>5. QED
      BY <2>1, <2>2, <2>3, <2>4
  <1>3. CASE ~Cluster
    <2>1. UNCHANGED clusterVars
      BY <1>3 DEF World, Informer, WatchBreaks, Relist, Observe, Resync,
                  Handler, OnStore, OnDelete, OnTombstone, Cleanup, Shutdown
    <2>2. \A p \in Pods : ver[p] <= ver[p]' /\ (gone[p] => gone[p]')
      BY <2>1 DEF clusterVars, TypeOK, ClusterTypeOK, Versions
    <2>3. QED
      BY <1>1, <2>2
  <1>4. QED
    BY <1>2, <1>3

-----------------------------------------------------------------------------
(* Every failure has a cause *)

\* A call that has not begun has fetched nothing; a call that has began at
\* states the pods have had.
JustOK(c) ==
    \A p \in Pods :
        /\ askedVer[c][p] <= ver[p]
        /\ pc[c] = "idle" => fetched[c][p] = 0 /\ p \notin failed[c]
        /\ fetched[c][p] # 0 => fetched[c][p] >= askedVer[c][p]
        /\ p \in failed[c] \ errs[c] => askedVer[c][p] = 0 \/ gone[p]

JustInv == \A c \in Calls : JustOK(c)

\* A pod that is not in the cluster, and had a state once, is gone.
LEMMA UnseenOrGone ==
    ASSUME NEW p \in Pods, NEW n \in Int, n >= 0,
           ver[p] \in Int, n <= ver[p], ~Live(p)
    PROVE  n = 0 \/ gone[p]
  <1>1. ver[p] > 0 => gone[p]
    BY Zenon DEF Live
  <1>2. ver[p] > 0 \/ n = 0
    OBVIOUS
  <1>3. QED
    BY <1>1, <1>2

\* Initially no call has an answer to justify.
LEMMA JustInit == Init => JustInv
  BY DEF Init, JustInv, JustOK, Nothing

\* What happens outside the calls keeps their answers justified: pods only
\* change forward, and a deleted pod stays deleted.
LEMMA JustWorld ==
    ASSUME TypeOK, JustInv, World
    PROVE  JustInv'
  <1> SUFFICES ASSUME NEW c \in Calls, NEW p \in Pods
               PROVE  /\ askedVer[c][p]' <= ver[p]'
                      /\ pc[c]' = "idle" =>
                           fetched[c][p]' = 0 /\ p \notin failed[c]'
                      /\ fetched[c][p]' # 0 => fetched[c][p]' >= askedVer[c][p]'
                      /\ p \in failed[c]' \ errs[c]' =>
                           askedVer[c][p]' = 0 \/ gone[p]'
    BY DEF JustInv, JustOK
  <1>1. /\ UNCHANGED <<pc, fetched, failed, askedVer, errs>>
        /\ ver[p] <= ver[p]' /\ (gone[p] => gone[p]')
    BY WorldStep DEF callVars
  <1>2. ver[p] \in Int /\ ver[p]' \in Int /\ askedVer[c][p] \in Int
    BY TypeCluster, TypeInformer, TypeService
      DEF World, TypeOK, ClusterTypeOK, CallTypeOK, Versions
  <1>3. QED
    BY <1>1, <1>2 DEF JustInv, JustOK

\* A step of a call fetches the present state or fails with a cause.
LEMMA JustCall ==
    ASSUME TypeOK, JustInv, NEW c \in Calls,
           (\E input \in Inputs : EnrichLogs(c, input)) \/ Work(c)
    PROVE  JustInv'
  <1> SUFFICES ASSUME NEW d \in Calls, NEW p \in Pods
               PROVE  /\ askedVer[d][p]' <= ver[p]'
                      /\ pc[d]' = "idle" =>
                           fetched[d][p]' = 0 /\ p \notin failed[d]'
                      /\ fetched[d][p]' # 0 => fetched[d][p]' >= askedVer[d][p]'
                      /\ p \in failed[d]' \ errs[d]' =>
                           askedVer[d][p]' = 0 \/ gone[p]'
    BY DEF JustInv, JustOK
  <1> USE DEF TypeOK, CallTypeOK
  <1>1. JustOK(d)
    BY DEF JustInv
  <1>2. ver[p] \in Int /\ askedVer[d][p] \in Int /\ fetched[d][p] \in Int
    BY DEF ClusterTypeOK, Versions
  <1>3. ASSUME NEW input \in Inputs, EnrichLogs(c, input)
        PROVE  /\ UNCHANGED <<ver, gone, fetched, failed, errs>>
               /\ askedVer[d]' = IF d = c THEN ver ELSE askedVer[d]
               /\ pc[d]' = "idle" => pc[d] = "idle"
               /\ d = c => pc[c] = "idle"
    BY <1>3 DEF EnrichLogs, clusterVars
  <1>4. ASSUME NEW q \in Pods, LookUp(c, q) \/ Publish(c, q)
        PROVE  /\ UNCHANGED <<ver, gone, fetched, failed, errs, askedVer>>
               /\ pc[d]' = "idle" => pc[d] = "idle"
    BY <1>4 DEF LookUp, Hit, Miss, NextLookUp, Publish, clusterVars
  <1>5. CASE RecordEnrichment(c)
    <2>1. /\ UNCHANGED <<ver, gone, fetched, failed, errs, askedVer>>
          /\ pc[d]' = "idle" => pc[d] = "idle"
      BY <1>5 DEF RecordEnrichment, clusterVars
    <2>2. QED
      BY <1>1, <2>1 DEF JustOK
  <1>6. ASSUME NEW q \in Pods, Fetch(c, q)
        PROVE  /\ UNCHANGED <<ver, gone, askedVer>>
               /\ pc[c] = "fetch"
               /\ pc[d]' = "idle" => pc[d] = "idle"
    BY <1>6 DEF Fetch, FetchFound, FetchMissing, FetchError, NextFetch,
                clusterVars
  <1>7. ASSUME NEW q \in Pods, FetchFound(c, q)
        PROVE  /\ UNCHANGED <<failed, errs>>
               /\ Live(q)
               /\ fetched[d][p]' = IF d = c /\ p = q THEN ver[p]
                                                     ELSE fetched[d][p]
    BY <1>7 DEF FetchFound
  <1>8. ASSUME NEW q \in Pods, FetchMissing(c, q)
        PROVE  /\ UNCHANGED <<fetched, errs>>
               /\ ~Live(q)
               /\ p \in failed[d]' => p \in failed[d] \/ (d = c /\ p = q)
    BY <1>8 DEF FetchMissing
  <1>9. ASSUME NEW q \in Pods, FetchError(c, q)
        PROVE  /\ UNCHANGED fetched
               /\ p \in failed[d]' => p \in failed[d] \/ (d = c /\ p = q)
               /\ p \in errs[d] \/ (d = c /\ p = q) => p \in errs[d]'
    BY <1>9 DEF FetchError
  <1>10. ASSUME NEW q \in Pods, Fetch(c, q)
         PROVE  /\ askedVer[d][p]' <= ver[p]'
                /\ pc[d]' = "idle" =>
                     fetched[d][p]' = 0 /\ p \notin failed[d]'
                /\ fetched[d][p]' # 0 => fetched[d][p]' >= askedVer[d][p]'
                /\ p \in failed[d]' \ errs[d]' =>
                     askedVer[d][p]' = 0 \/ gone[p]'
    <2>1. /\ UNCHANGED <<ver, gone, askedVer>>
          /\ pc[d]' = "idle" => pc[d] = "idle" /\ d # c
      BY <1>6, <1>10
    <2>2. CASE FetchFound(c, q)
      BY <1>1, <1>2, <2>1, <1>7, <2>2 DEF JustOK
    <2>3. CASE FetchMissing(c, q)
      <3>1. ~Live(p) => askedVer[d][p] = 0 \/ gone[p]
        <4>1. askedVer[d][p] <= ver[p] /\ askedVer[d][p] >= 0
          BY <1>1 DEF JustOK, Versions
        <4>2. QED
          BY <1>2, <4>1, UnseenOrGone
      <3>2. QED
        BY <1>1, <1>2, <2>1, <1>8, <2>3, <3>1 DEF JustOK
    <2>4. CASE FetchError(c, q)
      BY <1>1, <1>2, <2>1, <1>9, <2>4 DEF JustOK
    <2>5. QED
      BY <1>10, <2>2, <2>3, <2>4 DEF Fetch
  <1>11. ASSUME NEW input \in Inputs, EnrichLogs(c, input)
         PROVE  /\ askedVer[d][p]' <= ver[p]'
                /\ pc[d]' = "idle" =>
                     fetched[d][p]' = 0 /\ p \notin failed[d]'
                /\ fetched[d][p]' # 0 => fetched[d][p]' >= askedVer[d][p]'
                /\ p \in failed[d]' \ errs[d]' =>
                     askedVer[d][p]' = 0 \/ gone[p]'
    <2>1. CASE d = c
      BY <1>1, <1>2, <1>3, <1>11, <2>1 DEF JustOK
    <2>2. CASE d # c
      BY <1>1, <1>3, <1>11, <2>2 DEF JustOK
    <2>3. QED
      BY <2>1, <2>2
  <1>12. QED
    BY <1>1, <1>4, <1>5, <1>10, <1>11 DEF Work, JustOK

\* Whatever a call fetched is at least as fresh as its beginning, and a pod
\* it could not find had an error or was missing at the beginning or the end.
THEOREM AnswersCorrect == Spec => []AnswersJustified
  <1>1. TypeOK /\ JustInv /\ [Next]_vars => JustInv'
    <2> SUFFICES ASSUME TypeOK, JustInv, [Next]_vars
                 PROVE  JustInv'
      OBVIOUS
    <2>1. CASE Next
      BY <2>1, JustWorld, JustCall DEF Next, World
    <2>2. CASE UNCHANGED vars
      BY <2>2 DEF JustInv, JustOK, vars, clusterVars, callVars
    <2>3. QED
      BY <2>1, <2>2
  <1>2. JustInv => AnswersJustified
    BY DEF JustInv, JustOK, AnswersJustified
  <1>3. QED
    BY TypeCorrect, JustInit, <1>1, <1>2, PTL DEF Spec

-----------------------------------------------------------------------------
(* Every pod of a call is accounted for *)

\* the pods the fetch loop found
Fetched(c) == {p \in Pods : fetched[c][p] # 0}

\* Where the pods of a call are in each of its loops.
ShapeOK(c) ==
    /\ failed[c] \subseteq misses[c]
    /\ misses[c] \subseteq want[c]
    /\ pc[c] = "idle" =>
         /\ want[c] = {}
         /\ Answered(c) = {}
         /\ Fetched(c) = {}
    /\ pc[c] = "lookup" =>
         /\ failed[c] = {}
         /\ Fetched(c) = {}
         /\ todo[c] \subseteq want[c] \ misses[c]
         /\ Answered(c) = want[c] \ (todo[c] \cup misses[c])
    /\ pc[c] = "fetch" =>
         /\ todo[c] \subseteq misses[c]
         /\ failed[c] \cap todo[c] = {}
         /\ Fetched(c) = misses[c] \ (todo[c] \cup failed[c])
         /\ Answered(c) = want[c] \ misses[c]
    /\ pc[c] = "publish" =>
         /\ todo[c] \subseteq Fetched(c)
         /\ Fetched(c) = misses[c] \ failed[c]
         /\ Answered(c) = want[c] \ (failed[c] \cup todo[c])
    /\ pc[c] \in {"record", "done"} =>
         /\ Fetched(c) = misses[c] \ failed[c]
         /\ Answered(c) = want[c] \ failed[c]

\* What the two counters of a call count.
CountOK(c) ==
    /\ hits[c] = Cardinality(Answered(c) \ misses[c])
    /\ api[c] = Cardinality(Fetched(c))

CallInv == \A c \in Calls : ShapeOK(c) /\ CountOK(c)

\* Initially no call has begun.
LEMMA CallInvInit == Init => CallInv
  <1> SUFFICES ASSUME Init, NEW c \in Calls
               PROVE  ShapeOK(c) /\ CountOK(c)
    BY DEF CallInv
  <1>1. Answered(c) = {} /\ Fetched(c) = {} /\ misses[c] = {}
    BY DEF Init, Answered, Fetched, Nothing
  <1>2. ShapeOK(c)
    BY <1>1 DEF Init, ShapeOK
  <1>3. CountOK(c)
    BY <1>1, FS_EmptySet DEF Init, CountOK
  <1>4. QED
    BY <1>2, <1>3

\* A step that changes nothing of a call keeps what is known about it.
LEMMA CallFrame ==
    ASSUME NEW c \in Calls, ShapeOK(c), CountOK(c),
           pc[c]' = pc[c], want[c]' = want[c], todo[c]' = todo[c],
           misses[c]' = misses[c], meta[c]' = meta[c], hits[c]' = hits[c],
           fetched[c]' = fetched[c], failed[c]' = failed[c], api[c]' = api[c]
    PROVE  ShapeOK(c)' /\ CountOK(c)'
  <1>1. Answered(c)' = Answered(c) /\ Fetched(c)' = Fetched(c)
    BY DEF Answered, Fetched
  <1>2. ShapeOK(c)'
    BY <1>1 DEF ShapeOK
  <1>3. CountOK(c)'
    BY <1>1 DEF CountOK
  <1>4. QED
    BY <1>2, <1>3

\* The work of one call does not touch another.
LEMMA CallOthers ==
    ASSUME TypeOK, CallInv, NEW c \in Calls, NEW d \in Calls, c # d,
           (\E input \in Inputs : EnrichLogs(c, input)) \/ Work(c)
    PROVE  ShapeOK(d)' /\ CountOK(d)'
  <1> USE DEF TypeOK, CallTypeOK
  <1>1. ShapeOK(d) /\ CountOK(d)
    BY DEF CallInv
  <1>2. ASSUME NEW input \in Inputs, EnrichLogs(c, input)
        PROVE  ShapeOK(d)' /\ CountOK(d)'
    BY <1>1, <1>2, CallFrame DEF EnrichLogs
  <1>3. ASSUME NEW p \in Pods, LookUp(c, p)
        PROVE  ShapeOK(d)' /\ CountOK(d)'
    <2>1. CASE Hit(c, p)
      BY <1>1, <2>1, CallFrame DEF Hit, NextLookUp
    <2>2. CASE Miss(c, p)
      BY <1>1, <2>2, CallFrame DEF Miss, NextLookUp
    <2>3. QED
      BY <1>3, <2>1, <2>2 DEF LookUp
  <1>4. ASSUME NEW p \in Pods, Fetch(c, p)
        PROVE  ShapeOK(d)' /\ CountOK(d)'
    <2>1. CASE FetchFound(c, p)
      BY <1>1, <2>1, CallFrame DEF FetchFound, NextFetch
    <2>2. CASE FetchMissing(c, p)
      BY <1>1, <2>2, CallFrame DEF FetchMissing, NextFetch
    <2>3. CASE FetchError(c, p)
      BY <1>1, <2>3, CallFrame DEF FetchError, NextFetch
    <2>4. QED
      BY <1>4, <2>1, <2>2, <2>3 DEF Fetch
  <1>5. ASSUME NEW p \in Pods, Publish(c, p)
        PROVE  ShapeOK(d)' /\ CountOK(d)'
    BY <1>1, <1>5, CallFrame DEF Publish
  <1>6. CASE RecordEnrichment(c)
    BY <1>1, <1>6, CallFrame DEF RecordEnrichment
  <1>7. QED
    BY <1>2, <1>3, <1>4, <1>5, <1>6 DEF Work

\* The beginning of a call.
LEMMA CallBegin ==
    ASSUME TypeOK, CallInv, NEW c \in Calls,
           NEW input \in Inputs, EnrichLogs(c, input)
    PROVE  ShapeOK(c)' /\ CountOK(c)'
  <1> USE DEF TypeOK, CallTypeOK
  <1>1. ShapeOK(c) /\ CountOK(c) /\ pc[c] = "idle"
    BY DEF CallInv, EnrichLogs
  <1>2. /\ UNCHANGED <<misses, meta, fetched, failed, hits, api>>
        /\ want[c]' = todo[c]'
        /\ pc[c]' = IF want[c]' = {} THEN "done" ELSE "lookup"
    BY DEF EnrichLogs
  <1>3. /\ misses[c] = {} /\ failed[c] = {}
        /\ Answered(c) = {} /\ Fetched(c) = {}
    BY <1>1 DEF ShapeOK
  <1>4. Answered(c)' = Answered(c) /\ Fetched(c)' = Fetched(c)
    BY <1>2 DEF Answered, Fetched
  <1>5. ShapeOK(c)'
    BY <1>2, <1>3, <1>4 DEF ShapeOK
  <1>6. CountOK(c)'
    BY <1>1, <1>2, <1>4 DEF CountOK
  <1>7. QED
    BY <1>5, <1>6

\* A turn of the lookup loop.
LEMMA CallLookUp ==
    ASSUME TypeOK, CallInv, NEW c \in Calls, NEW p \in Pods, LookUp(c, p)
    PROVE  ShapeOK(c)' /\ CountOK(c)'
  <1> USE DEF TypeOK, CallTypeOK
  <1>1. /\ ShapeOK(c) /\ CountOK(c)
        /\ pc[c] = "lookup" /\ p \in todo[c]
        /\ UNCHANGED <<want, fetched, failed, api>>
    BY DEF CallInv, LookUp, Hit, Miss
  <1>2. Fetched(c)' = Fetched(c)
    BY <1>1 DEF Fetched
  <1>3. /\ todo[c]' = IF todo[c] = {p} THEN misses[c]' ELSE todo[c] \ {p}
        /\ pc[c]' = IF todo[c] # {p} THEN "lookup"
                    ELSE IF misses[c]' = {} THEN "record" ELSE "fetch"
    BY DEF LookUp, Hit, Miss, NextLookUp
  <1>4. CASE Hit(c, p)
    <2>1. /\ Answered(c)' = Answered(c) \cup {p}
          /\ misses[c]' = misses[c]
          /\ hits[c]' = hits[c] + 1
      BY <1>4 DEF Hit, Answered
    <2>2. ShapeOK(c)'
      <3>1. CASE todo[c] = {p}
        BY <1>1, <1>2, <1>3, <2>1, <3>1 DEF ShapeOK
      <3>2. CASE todo[c] # {p}
        BY <1>1, <1>2, <1>3, <2>1, <3>2 DEF ShapeOK
      <3>3. QED
        BY <3>1, <3>2
    <2>3. CountOK(c)'
      <3>1. /\ p \notin misses[c] /\ p \notin Answered(c)
            /\ Answered(c) \in SUBSET Pods
        BY <1>1 DEF ShapeOK, Answered
      <3>2. Answered(c)' \ misses[c]' = (Answered(c) \ misses[c]) \cup {p}
        BY <2>1, <3>1
      <3>3. Cardinality(Answered(c)' \ misses[c]')
              = Cardinality(Answered(c) \ misses[c]) + 1
        BY <3>1, <3>2, PodsCount, FS_AddElement
      <3>4. QED
        BY <1>1, <1>2, <2>1, <3>3 DEF CountOK
    <2>4. QED
      BY <2>2, <2>3
  <1>5. CASE Miss(c, p)
    <2>1. /\ meta' = meta /\ hits' = hits
          /\ misses[c]' = misses[c] \cup {p}
      BY <1>5 DEF Miss
    <2>2. Answered(c)' = Answered(c) /\ p \notin Answered(c)
      BY <1>1, <2>1 DEF Answered, ShapeOK
    <2>3. ShapeOK(c)'
      <3>1. CASE todo[c] = {p}
        BY <1>1, <1>2, <1>3, <2>1, <2>2, <3>1 DEF ShapeOK
      <3>2. CASE todo[c] # {p}
        BY <1>1, <1>2, <1>3, <2>1, <2>2, <3>2 DEF ShapeOK
      <3>3. QED
        BY <3>1, <3>2
    <2>4. Answered(c)' \ misses[c]' = Answered(c) \ misses[c]
      BY <2>1, <2>2
    <2>5. CountOK(c)'
      BY <1>1, <1>2, <2>1, <2>4 DEF CountOK
    <2>6. QED
      BY <2>3, <2>5
  <1>6. QED
    BY <1>4, <1>5 DEF LookUp

\* A turn of the fetch loop.
LEMMA CallFetch ==
    ASSUME TypeOK, CallInv, NEW c \in Calls, NEW p \in Pods, Fetch(c, p)
    PROVE  ShapeOK(c)' /\ CountOK(c)'
  <1> USE DEF TypeOK, CallTypeOK
  <1>1. /\ ShapeOK(c) /\ CountOK(c)
        /\ pc[c] = "fetch" /\ p \in todo[c]
        /\ UNCHANGED <<want, misses, meta, hits>>
        /\ NextFetch(c, p)
    BY DEF CallInv, Fetch, FetchFound, FetchMissing, FetchError
  <1>2. Answered(c)' = Answered(c)
    BY <1>1 DEF Answered
  <1>3. /\ todo[c]' = IF todo[c] = {p} THEN misses[c] \ failed[c]'
                                       ELSE todo[c] \ {p}
        /\ pc[c]' = IF todo[c] # {p} THEN "fetch"
                    ELSE IF misses[c] \ failed[c]' = {} THEN "record"
                                                        ELSE "publish"
    BY <1>1 DEF NextFetch
  <1>4. CASE FetchFound(c, p)
    <2>1. Live(p) /\ ver[p] # 0
      BY <1>4 DEF FetchFound, Live, ClusterTypeOK, Versions
    <2>2. /\ Fetched(c)' = Fetched(c) \cup {p}
          /\ failed' = failed
          /\ api[c]' = api[c] + 1
      BY <1>4, <2>1 DEF FetchFound, Fetched
    <2>3. ShapeOK(c)'
      BY <1>1, <1>2, <1>3, <2>2 DEF ShapeOK
    <2>4. CountOK(c)'
      <3>1. p \notin Fetched(c) /\ Fetched(c) \in SUBSET Pods
        BY <1>1 DEF ShapeOK, Fetched
      <3>2. Cardinality(Fetched(c)') = Cardinality(Fetched(c)) + 1
        BY <2>2, <3>1, PodsCount, FS_AddElement
      <3>3. QED
        BY <1>1, <1>2, <2>2, <3>2 DEF CountOK
    <2>5. QED
      BY <2>3, <2>4
  <1>5. CASE FetchMissing(c, p) \/ FetchError(c, p)
    <2>1. /\ fetched' = fetched /\ api' = api
          /\ failed[c]' = failed[c] \cup {p}
      BY <1>5 DEF FetchMissing, FetchError
    <2>2. Fetched(c)' = Fetched(c)
      BY <2>1 DEF Fetched
    <2>3. ShapeOK(c)'
      BY <1>1, <1>2, <1>3, <2>1, <2>2 DEF ShapeOK
    <2>4. CountOK(c)'
      BY <1>1, <1>2, <2>1, <2>2 DEF CountOK
    <2>5. QED
      BY <2>3, <2>4
  <1>6. QED
    BY <1>4, <1>5 DEF Fetch

\* A turn of the publish loop.
LEMMA CallPublish ==
    ASSUME TypeOK, CallInv, NEW c \in Calls, NEW p \in Pods, Publish(c, p)
    PROVE  ShapeOK(c)' /\ CountOK(c)'
  <1> USE DEF TypeOK, CallTypeOK
  <1>1. /\ ShapeOK(c) /\ CountOK(c)
        /\ pc[c] = "publish" /\ p \in todo[c]
        /\ UNCHANGED <<want, misses, fetched, failed, hits, api>>
        /\ todo[c]' = todo[c] \ {p}
        /\ pc[c]' = IF todo[c] = {p} THEN "record" ELSE "publish"
    BY DEF CallInv, Publish
  <1>2. Fetched(c)' = Fetched(c) /\ p \in Fetched(c) /\ p \in misses[c]
    BY <1>1 DEF ShapeOK, Fetched
  <1>3. Answered(c)' = Answered(c) \cup {p}
    BY <1>2 DEF Publish, Answered, Fetched
  <1>4. ShapeOK(c)'
    BY <1>1, <1>2, <1>3 DEF ShapeOK
  <1>5. Answered(c)' \ misses[c]' = Answered(c) \ misses[c]
    BY <1>1, <1>2, <1>3
  <1>6. CountOK(c)'
    BY <1>1, <1>2, <1>5 DEF CountOK
  <1>7. QED
    BY <1>4, <1>6

\* Whatever steps, every call keeps its shape and its counts.
LEMMA CallInvStep ==
    ASSUME TypeOK, CallInv, [Next]_vars
    PROVE  CallInv'
  <1> SUFFICES ASSUME NEW d \in Calls
               PROVE  ShapeOK(d)' /\ CountOK(d)'
    BY DEF CallInv
  <1>1. ShapeOK(d) /\ CountOK(d)
    BY DEF CallInv
  <1>2. CASE UNCHANGED callVars
    BY <1>1, <1>2, CallFrame DEF callVars
  <1>3. CASE RecordEnrichment(d)
    <2>1. /\ UNCHANGED <<want, todo, misses, meta, fetched, failed, hits, api>>
          /\ pc[d] = "record" /\ pc[d]' = "done"
      BY <1>3 DEF RecordEnrichment, TypeOK, CallTypeOK
    <2>2. Answered(d)' = Answered(d) /\ Fetched(d)' = Fetched(d)
      BY <2>1 DEF Answered, Fetched
    <2>3. QED
      BY <1>1, <2>1, <2>2 DEF ShapeOK, CountOK
  <1>4. ASSUME NEW c \in Calls,
               (\E input \in Inputs : EnrichLogs(c, input)) \/ Work(c)
        PROVE  ShapeOK(d)' /\ CountOK(d)'
    <2>1. CASE c = d
      BY <1>3, <1>4, <2>1, CallBegin, CallLookUp, CallFetch, CallPublish
        DEF Work
    <2>2. CASE c # d
      BY <1>4, <2>2, CallOthers
    <2>3. QED
      BY <2>1, <2>2
  <1>5. CASE World
    BY <1>2, <1>5, WorldStep
  <1>6. QED
    BY <1>2, <1>4, <1>5 DEF Next, World, vars

\* A finished call: the counts it reports are those of its answer.
LEMMA DoneCounts ==
    ASSUME TypeOK, NEW c \in Calls, ShapeOK(c), CountOK(c),
           pc[c] \in {"record", "done"}
    PROVE  hits[c] + api[c] = Cardinality(Answered(c))
  <1> DEFINE H == Answered(c) \ misses[c]
             F == Fetched(c)
  <1>1. H \in SUBSET Pods /\ F \in SUBSET Pods
    BY DEF Answered, Fetched
  <1>2. Answered(c) = H \cup F /\ H \cap F = {}
    BY DEF ShapeOK
  <1>3. hits[c] = Cardinality(H) /\ api[c] = Cardinality(F)
    BY DEF CountOK
  <1> HIDE DEF H, F
  <1>4. /\ IsFiniteSet(H) /\ IsFiniteSet(F)
        /\ Cardinality(H) \in Nat /\ Cardinality(F) \in Nat
    BY <1>1, PodsCount
  <1>5. Cardinality(H \cup F)
          = Cardinality(H) + Cardinality(F) - Cardinality(H \cap F)
    BY <1>4, FS_Union
  <1>6. Cardinality(H \cap F) = 0
    BY <1>2, FS_EmptySet
  <1>7. Cardinality(H \cup F) = Cardinality(H) + Cardinality(F)
    BY <1>4, <1>5, <1>6
  <1>8. QED
    BY <1>2, <1>3, <1>7

\* A finished call has each of its pods either in Metadata or among the
\* failed ones, and its two counters add up to the pods it found.
THEOREM AccountsCorrect == Spec => []ResultAccounted
  <1>1. TypeOK /\ CallInv => ResultAccounted
    <2> SUFFICES ASSUME TypeOK, CallInv, NEW c \in Calls, pc[c] = "done"
                 PROVE  /\ Answered(c) \cup failed[c] = want[c]
                        /\ Answered(c) \cap failed[c] = {}
                        /\ hits[c] + api[c] = Cardinality(Answered(c))
      BY DEF ResultAccounted
    <2>1. ShapeOK(c) /\ CountOK(c)
      BY DEF CallInv
    <2>2. hits[c] + api[c] = Cardinality(Answered(c))
      BY <2>1, DoneCounts
    <2>3. QED
      BY <2>1, <2>2 DEF ShapeOK
  <1>2. QED
    BY TypeCorrect, CallInvInit, CallInvStep, <1>1, PTL DEF Spec

-----------------------------------------------------------------------------
(* The service's totals add up *)

\* the calls that RecordEnrichment has counted, and their failed pods
Recorded == {c \in Calls : pc[c] = "done" /\ want[c] # {}}
Failures == {cp \in Recorded \X Pods : cp[2] \in failed[cp[1]]}

\* A call in one of its loops was asked for a pod; the totals count the calls
\* that are over, which are finitely many at any time, however many there are.
TotalInv ==
    /\ \A c \in Calls : pc[c] \notin {"idle", "done"} => want[c] # {}
    /\ IsFiniteSet(Recorded)
    /\ IsFiniteSet(Failures)
    /\ metrics.enrichments = Cardinality(Recorded)
    /\ metrics.failures = Cardinality(Failures)

\* Initially there is nothing to count.
LEMMA TotalInit == Init => TotalInv
  <1> SUFFICES ASSUME Init
               PROVE  TotalInv
    OBVIOUS
  <1>1. Recorded = {} /\ Failures = {}
    BY DEF Init, Recorded, Failures
  <1>2. metrics.enrichments = 0 /\ metrics.failures = 0
    BY DEF Init
  <1>3. \A c \in Calls : pc[c] = "idle"
    BY DEF Init
  <1>4. QED
    BY <1>1, <1>2, <1>3, FS_EmptySet DEF TotalInv

\* A step that ends no call with a pod leaves the totals right.
LEMMA TotalFrame ==
    ASSUME TotalInv, metrics' = metrics,
           \A c \in Calls :
               /\ pc[c]' = "done" /\ want[c]' # {}
                    <=> pc[c] = "done" /\ want[c] # {}
               /\ pc[c] = "done" => failed[c]' = failed[c]
               /\ pc[c]' \notin {"idle", "done"} => want[c]' # {}
    PROVE  TotalInv'
  <1>1. Recorded' = Recorded
    BY DEF Recorded
  <1>2. Failures' = Failures
    BY <1>1 DEF Failures, Recorded
  <1>3. QED
    BY <1>1, <1>2 DEF TotalInv

\* What RecordEnrichment works out by subtraction is the number of the
\* call's failed pods: those asked for, less those found in the cache and
\* those fetched; and when all were fetched none was missed or lost.
LEMMA LostCount ==
    ASSUME TypeOK, NEW c \in Calls, ShapeOK(c), CountOK(c), pc[c] = "record"
    PROVE  /\ IsFiniteSet(failed[c])
           /\ Cardinality(failed[c]) =
                IF api[c] < Cardinality(want[c])
                  THEN Cardinality(want[c]) - hits[c] - api[c]
                  ELSE 0
  <1> DEFINE A == Answered(c)
             L == failed[c]
             W == want[c]
  <1>1. A \in SUBSET Pods /\ L \in SUBSET Pods /\ W \in SUBSET Pods
    BY DEF Answered, TypeOK, CallTypeOK
  <1>2. W = A \cup L /\ A \cap L = {}
    BY DEF ShapeOK
  <1>3. hits[c] + api[c] = Cardinality(A)
    BY DoneCounts
  <1>4. hits[c] \in Nat /\ api[c] \in Nat
    BY DEF TypeOK, CallTypeOK
  <1> HIDE DEF A, L, W
  <1>5. /\ IsFiniteSet(A) /\ IsFiniteSet(L)
        /\ Cardinality(A) \in Nat /\ Cardinality(L) \in Nat
    BY <1>1, PodsCount
  <1>6. Cardinality(W) = Cardinality(A) + Cardinality(L)
    <2>1. Cardinality(A \cup L)
            = Cardinality(A) + Cardinality(L) - Cardinality(A \cap L)
      BY <1>5, FS_Union
    <2>2. Cardinality(A \cap L) = 0
      BY <1>2, FS_EmptySet
    <2>3. QED
      BY <1>2, <1>5, <2>1, <2>2
  <1>7. Cardinality(L) = IF api[c] < Cardinality(W)
                           THEN Cardinality(W) - hits[c] - api[c]
                           ELSE 0
    BY <1>3, <1>4, <1>5, <1>6
  <1>8. QED
    BY <1>5, <1>7 DEF L, W

\* RecordEnrichment adds the call and its failed pods to the totals.
LEMMA TotalRecord ==
    ASSUME TypeOK, CallInv, TotalInv, NEW c \in Calls, RecordEnrichment(c)
    PROVE  TotalInv'
  <1> DEFINE L == {c} \X failed[c]
  <1>1. /\ pc[c] = "record" /\ pc' = [pc EXCEPT ![c] = "done"]
        /\ UNCHANGED <<want, failed>>
        /\ c \notin Recorded /\ want[c] # {}
        /\ failed[c] \subseteq Pods
    BY DEF RecordEnrichment, TotalInv, Recorded, TypeOK, CallTypeOK
  <1>2. Recorded' = Recorded \cup {c}
    BY <1>1 DEF Recorded, TypeOK, CallTypeOK
  <1>3. Failures' = Failures \cup L /\ Failures \cap L = {}
    BY <1>1, <1>2 DEF Failures
  <1>4. /\ IsFiniteSet(L)
        /\ Cardinality(L) = IF api[c] < Cardinality(want[c])
                              THEN Cardinality(want[c]) - hits[c] - api[c]
                              ELSE 0
    <2>1. ShapeOK(c) /\ CountOK(c)
      BY DEF CallInv
    <2>2. IsFiniteSet(failed[c]) /\ Cardinality(failed[c]) \in Nat
      BY <1>1, <2>1, LostCount, FS_CardinalityType
    <2>3. IsFiniteSet({c}) /\ Cardinality({c}) = 1
      BY FS_Singleton
    <2>4. IsFiniteSet(L) /\ Cardinality(L) = 1 * Cardinality(failed[c])
      BY <2>2, <2>3, FS_Product
    <2>5. QED
      BY <1>1, <2>1, <2>2, <2>4, LostCount
  <1> HIDE DEF L
  <1>5. /\ metrics.failures \in Int
        /\ metrics'.enrichments = metrics.enrichments + 1
        /\ metrics'.failures = metrics.failures + Cardinality(L)
    BY <1>4 DEF RecordEnrichment, TypeOK, ServiceTypeOK
  <1>6. /\ IsFiniteSet(Recorded')
        /\ Cardinality(Recorded') = Cardinality(Recorded) + 1
    BY <1>1, <1>2, FS_AddElement DEF TotalInv
  <1>7. /\ IsFiniteSet(Failures')
        /\ Cardinality(Failures') = Cardinality(Failures) + Cardinality(L)
    <2>1. /\ IsFiniteSet(Failures \cup L)
          /\ Cardinality(Failures \cup L)
               = Cardinality(Failures) + Cardinality(L)
                   - Cardinality(Failures \cap L)
      BY <1>4, FS_Union DEF TotalInv
    <2>2. Cardinality(Failures \cap L) = 0
      BY <1>3, FS_EmptySet
    <2>3. Cardinality(Failures) \in Nat /\ Cardinality(L) \in Nat
      BY <1>4, FS_CardinalityType DEF TotalInv
    <2>4. QED
      BY <1>3, <2>1, <2>2, <2>3
  <1>8. \A d \in Calls : pc[d]' \notin {"idle", "done"} => want[d]' # {}
    BY <1>1 DEF TotalInv, TypeOK, CallTypeOK
  <1>9. QED
    BY <1>5, <1>6, <1>7, <1>8 DEF TotalInv

\* Whatever steps, the totals stay right.
LEMMA TotalStep ==
    ASSUME TypeOK, CallInv, TotalInv, [Next]_vars
    PROVE  TotalInv'
  <1> USE DEF TypeOK, CallTypeOK
  <1>1. ASSUME NEW c \in Calls, NEW input \in Inputs, EnrichLogs(c, input)
        PROVE  TotalInv'
    BY <1>1, TotalFrame DEF EnrichLogs, TotalInv
  <1>2. ASSUME NEW c \in Calls, NEW p \in Pods, LookUp(c, p)
        PROVE  TotalInv'
    <2>1. /\ metrics' = metrics /\ want' = want /\ failed' = failed
          /\ pc[c] = "lookup" /\ pc[c]' # "done"
          /\ \A d \in Calls \ {c} : pc[d]' = pc[d]
      BY <1>2 DEF LookUp, Hit, Miss, NextLookUp
    <2>2. QED
      BY <2>1, TotalFrame DEF TotalInv
  <1>3. ASSUME NEW c \in Calls, NEW p \in Pods, Fetch(c, p)
        PROVE  TotalInv'
    <2>1. /\ metrics' = metrics /\ want' = want
          /\ pc[c] = "fetch" /\ pc[c]' # "done"
          /\ \A d \in Calls \ {c} : pc[d]' = pc[d] /\ failed[d]' = failed[d]
      BY <1>3 DEF Fetch, FetchFound, FetchMissing, FetchError, NextFetch
    <2>2. QED
      BY <2>1, TotalFrame DEF TotalInv
  <1>4. ASSUME NEW c \in Calls, NEW p \in Pods, Publish(c, p)
        PROVE  TotalInv'
    <2>1. /\ metrics' = metrics /\ want' = want /\ failed' = failed
          /\ pc[c] = "publish" /\ pc[c]' # "done"
          /\ \A d \in Calls \ {c} : pc[d]' = pc[d]
      BY <1>4 DEF Publish
    <2>2. QED
      BY <2>1, TotalFrame DEF TotalInv
  <1>5. CASE World
    <2>1. metrics' = metrics
      BY <1>5 DEF World, Cluster, PodCreate, PodUpdate, PodDelete,
                  StartTimeAges, Informer, WatchBreaks, Relist, Observe,
                  Resync, Handler, OnStore, OnDelete, OnTombstone, Cleanup,
                  Shutdown
    <2>2. QED
      BY <1>5, <2>1, WorldStep, TotalFrame DEF TotalInv, callVars
  <1>6. CASE UNCHANGED vars
    BY <1>6, TotalFrame DEF TotalInv, vars, callVars
  <1>7. QED
    BY <1>1, <1>2, <1>3, <1>4, <1>5, <1>6, TotalRecord DEF Next, World, Work

\* Over all the recorded calls, however many and in whatever order they end,
\* RecordEnrichment's subtraction totals the pods that failed.
THEOREM FailuresCorrect == Spec => []FailuresCounted
  <1>1. TotalInv => FailuresCounted
    BY DEF TotalInv, FailuresCounted, Recorded, Failures
  <1>2. QED
    BY TypeCorrect, CallInvInit, CallInvStep, TotalInit, TotalStep, <1>1, PTL
       DEF Spec

-----------------------------------------------------------------------------
(* Nothing holds a state that a pod has not had *)

PodPast(p) ==
    /\ cache[p] <= ver[p]
    /\ \A i \in 1 .. Len(events[p]) : events[p][i].ver <= ver[p]
    /\ \A c \in Calls : fetched[c][p] <= ver[p] /\ meta[c][p] <= ver[p]

PastInv == \A p \in Pods : PodPast(p)

\* Initially no call holds a state of a pod.
LEMMA PastInit == Init => PastInv
  BY DEF Init, PastInv, PodPast, Nothing

\* The states are numbers.
LEMMA PastTypes ==
    ASSUME TypeOK, NEW p \in Pods
    PROVE  /\ ver[p] \in Int /\ cache[p] \in Int /\ watched[p] \in Int
           /\ events[p] \in Seq(Event)
           /\ \A i \in 1 .. Len(events[p]) : events[p][i].ver \in Int
           /\ \A c \in Calls : fetched[c][p] \in Int /\ meta[c][p] \in Int
  <1> USE DEF TypeOK
  <1>1. ver[p] \in Int /\ cache[p] \in Int /\ watched[p] \in Int
    BY DEF ClusterTypeOK, ServiceTypeOK, InformerTypeOK, Versions
  <1>2. events[p] \in Seq(Event)
    BY DEF InformerTypeOK
  <1>3. \A i \in 1 .. Len(events[p]) : events[p][i].ver \in Int
    <2>1. \A i \in 1 .. Len(events[p]) : events[p][i] \in Event
      BY <1>2
    <2>2. \A e \in Event : e.ver \in Int
      BY DEF Event, Versions
    <2>3. QED
      BY <2>1, <2>2
  <1>4. \A c \in Calls : fetched[c][p] \in Int /\ meta[c][p] \in Int
    BY DEF CallTypeOK, Versions
  <1>5. QED
    BY <1>1, <1>2, <1>3, <1>4

\* The cluster only adds states.
LEMMA PastCluster ==
    ASSUME TypeOK, PastInv, Cluster
    PROVE  PastInv'
  <1> SUFFICES ASSUME NEW p \in Pods
               PROVE  PodPast(p)'
    BY DEF PastInv
  <1>1. UNCHANGED <<informerVars, cacheVars, callVars>>
    BY DEF Cluster, PodCreate, PodUpdate, PodDelete, StartTimeAges
  <1>2. ver[p] <= ver[p]' /\ ver[p]' \in Int
    BY WorldStep, TypeCluster DEF World, TypeOK, ClusterTypeOK, Versions
  <1>3. PodPast(p)
    BY DEF PastInv
  <1>4. QED
    BY <1>1, <1>2, <1>3, PastTypes
      DEF PodPast, informerVars, cacheVars, callVars

\* The number after one that a pod has passed is one of its states.
LEMMA NextVersion ==
    ASSUME NEW v \in Int, NEW w \in Versions, v >= 0, v < w
    PROVE  v + 1 \in Versions /\ v + 1 <= w
  BY BoundsAssumption DEF BoundsAssumption, Versions

\* The informer notifies of states its store has seen.
LEMMA PastInformer ==
    ASSUME TypeOK, InformerInv, PastInv, Informer
    PROVE  PastInv'
  <1> SUFFICES ASSUME NEW p \in Pods
               PROVE  PodPast(p)'
    BY DEF PastInv
  <1> USE DEF TypeOK, InformerTypeOK
  <1>1. UNCHANGED <<clusterVars, cacheVars, callVars>>
    BY DEF Informer, WatchBreaks, Relist, Observe, Resync
  <1>2. PodPast(p) /\ StoreOK(p)
    BY DEF PastInv, InformerInv
  <1>3. /\ ver[p] \in Versions /\ ver[p] \in Int /\ ver[p] >= 0
        /\ watched[p] \in Int /\ watched[p] >= 0
        /\ events[p] \in Seq(Event)
    BY DEF ClusterTypeOK, Versions
  <1>4. CASE events[p]' = events[p]
    BY <1>1, <1>2, <1>4 DEF PodPast, clusterVars, cacheVars, callVars
  <1>5. ASSUME NEW e \in Event, e.ver <= ver[p],
               events[p]' = Append(events[p], e)
        PROVE  PodPast(p)'
    <2>1. \A i \in 1 .. Len(events[p]') : events[p]'[i].ver <= ver[p]
      BY <1>2, <1>3, <1>5 DEF PodPast
    <2>2. QED
      BY <1>1, <1>2, <2>1 DEF PodPast, clusterVars, cacheVars, callVars
  <1>6. \A v \in Versions : Store(v) \in Event /\ Store(v).ver = v
    BY EventType DEF Store
  <1>7. \A kind \in Kinds : Removal(kind) \in Event /\ Removal(kind).ver = 0
    BY EventType DEF Removal
  <1>8. Known(p) \in Versions /\ Known(p) <= ver[p] /\ ver[p] \in Versions
    <2>1. Known(p) <= ver[p]
      BY <1>3 DEF Known
    <2>2. QED
      BY <1>3, <2>1, KnownType
  <1>9. CASE WatchBreaks
    BY <1>4, <1>9 DEF WatchBreaks
  <1>10. CASE Relist
    <2>1. \/ events[p]' = Append(events[p], Store(ver[p]))
          \/ events[p]' = Append(events[p], Removal("tombstone"))
          \/ events[p]' = events[p]
      BY <1>10 DEF Relist
    <2>2. Store(ver[p]) \in Event /\ Store(ver[p]).ver <= ver[p]
      BY <1>3, <1>6
    <2>3. /\ Removal("tombstone") \in Event
          /\ Removal("tombstone").ver <= ver[p]
      BY <1>3, <1>7 DEF Kinds
    <2>4. QED
      BY <1>4, <1>5, <2>1, <2>2, <2>3
  <1>11. ASSUME NEW q \in Pods, Observe(q)
         PROVE  PodPast(p)'
    <2>1. CASE p # q
      BY <1>4, <1>11, <2>1 DEF Observe
    <2>2. CASE p = q /\ watched[p] < ver[p]
      <3>1. events[p]' = Append(events[p], Store(watched[p] + 1))
        BY <1>11, <2>2 DEF Observe
      <3>2. watched[p] + 1 \in Versions /\ watched[p] + 1 <= ver[p]
        BY <1>3, <2>2, NextVersion
      <3>3. QED
        BY <1>5, <1>6, <3>1, <3>2
    <2>3. CASE p = q /\ ~(watched[p] < ver[p])
      <3>1. events[p]' = Append(events[p], Removal("delete"))
        BY <1>11, <2>3 DEF Observe
      <3>2. QED
        BY <1>3, <1>5, <1>7, <3>1 DEF Kinds
    <2>4. QED
      BY <2>1, <2>2, <2>3
  <1>12. ASSUME NEW q \in Pods, Resync(q)
         PROVE  PodPast(p)'
    <2>1. CASE p # q
      BY <1>4, <1>12, <2>1 DEF Resync
    <2>2. CASE p = q
      <3>1. events[p] = <<>> /\ events[p]' = <<Store(Known(p))>>
        BY <1>12, <2>2 DEF Resync
      <3>2. Store(Known(p)) \in Event
        BY <1>6, <1>8
      <3>3. events[p]' = Append(events[p], Store(Known(p)))
        BY <3>1, <3>2
      <3>4. QED
        BY <1>5, <1>6, <1>8, <3>2, <3>3
    <2>3. QED
      BY <2>1, <2>2
  <1>13. QED
    BY <1>9, <1>10, <1>11, <1>12 DEF Informer

\* The handlers, the janitor and Shutdown store what they were told.
LEMMA PastService ==
    ASSUME TypeOK, PastInv, (\E p \in Pods : Handler(p)) \/ Cleanup \/ Shutdown
    PROVE  PastInv'
  <1> SUFFICES ASSUME NEW p \in Pods
               PROVE  PodPast(p)'
    BY DEF PastInv
  <1> USE DEF TypeOK, InformerTypeOK
  <1>1. UNCHANGED <<clusterVars, callVars>>
    BY DEF Handler, OnStore, OnDelete, OnTombstone, Cleanup, Shutdown
  <1>2. PodPast(p)
    BY DEF PastInv
  <1>3. ver[p] \in Int /\ ver[p] >= 0 /\ events[p] \in Seq(Event)
    BY DEF ClusterTypeOK, Versions
  <1>4. ASSUME NEW q \in Pods, Handler(q)
        PROVE  PodPast(p)'
    <2>1. CASE p # q
      <3>1. cache[p]' = cache[p] /\ events[p]' = events[p]
        BY <1>4, <2>1
          DEF Handler, OnStore, OnDelete, OnTombstone, cacheVars, ServiceTypeOK
      <3>2. QED
        BY <1>1, <1>2, <3>1 DEF PodPast, clusterVars, callVars
    <2>2. CASE p = q
      <3>1. events[p] # <<>> /\ events[p]' = Tail(events[p])
        BY <1>4, <2>2 DEF Handler, OnStore, OnDelete, OnTombstone
      <3>2. \A i \in 1 .. Len(events[p]') : events[p]'[i].ver <= ver[p]
        BY <1>2, <1>3, <3>1 DEF PodPast
      <3>3. cache[p]' \in {cache[p], 0, Head(events[p]).ver}
        BY <1>4, <2>2
          DEF Handler, OnStore, OnDelete, OnTombstone, cacheVars, ServiceTypeOK
      <3>4. Head(events[p]).ver <= ver[p]
        BY <1>2, <1>3, <3>1 DEF PodPast
      <3>5. cache[p]' <= ver[p]
        BY <1>2, <1>3, <3>3, <3>4 DEF PodPast
      <3>6. QED
        BY <1>1, <1>2, <3>2, <3>5 DEF PodPast, clusterVars, callVars
    <2>3. QED
      BY <2>1, <2>2
  <1>5. CASE Cleanup
    <2>1. cache[p]' \in {cache[p], 0} /\ events[p]' = events[p]
      BY <1>5 DEF Cleanup, informerVars
    <2>2. QED
      BY <1>1, <1>2, <1>3, <2>1 DEF PodPast, clusterVars, callVars
  <1>6. CASE Shutdown
    <2>1. cache[p]' = cache[p] /\ events[p]' = <<>>
      BY <1>6 DEF Shutdown, cacheVars
    <2>2. QED
      BY <1>1, <1>2, <2>1 DEF PodPast, clusterVars, callVars
  <1>7. QED
    BY <1>4, <1>5, <1>6

\* A call copies entries, and reads the cluster.
LEMMA PastCall ==
    ASSUME TypeOK, PastInv, NEW c \in Calls,
           (\E input \in Inputs : EnrichLogs(c, input)) \/ Work(c)
    PROVE  PastInv'
  <1> SUFFICES ASSUME NEW p \in Pods
               PROVE  PodPast(p)'
    BY DEF PastInv
  <1> USE DEF TypeOK, CallTypeOK
  <1>1. UNCHANGED <<clusterVars, informerVars>>
    BY DEF EnrichLogs, Work, LookUp, Hit, Miss, Fetch, FetchFound,
           FetchMissing, FetchError, Publish, RecordEnrichment
  <1>2. PodPast(p) /\ ver[p] \in Int
    BY PastTypes DEF PastInv
  <1>3. ASSUME \/ cache[p]' = cache[p]
               \/ \E d \in Calls : cache[p]' = fetched[d][p],
               \A d \in Calls :
                 /\ fetched[d][p]' \in {fetched[d][p], ver[p]}
                 /\ meta[d][p]' \in {meta[d][p], cache[p], fetched[d][p]}
        PROVE  PodPast(p)'
    <2>1. ver[p]' = ver[p] /\ events[p]' = events[p]
      BY <1>1 DEF clusterVars, informerVars
    <2>2. /\ cache[p] <= ver[p]
          /\ \A d \in Calls : fetched[d][p] <= ver[p] /\ meta[d][p] <= ver[p]
      BY <1>2 DEF PodPast
    <2>3. cache[p]' <= ver[p]
      BY <1>3, <2>2
    <2>4. ASSUME NEW d \in Calls
          PROVE  fetched[d][p]' <= ver[p] /\ meta[d][p]' <= ver[p]
      <3>1. fetched[d][p]' = fetched[d][p] \/ fetched[d][p]' = ver[p]
        BY <1>3
      <3>2. \/ meta[d][p]' = meta[d][p]
            \/ meta[d][p]' = cache[p]
            \/ meta[d][p]' = fetched[d][p]
        BY <1>3
      <3>3. ver[p] <= ver[p]
        BY <1>2
      <3>4. QED
        BY <2>2, <3>1, <3>2, <3>3
    <2>5. QED
      BY <1>2, <2>1, <2>3, <2>4 DEF PodPast
  <1>4. ASSUME NEW q \in Pods, Hit(c, q)
        PROVE  PodPast(p)'
    BY <1>3, <1>4 DEF Hit, cacheVars
  <1>5. ASSUME NEW q \in Pods, FetchFound(c, q)
        PROVE  PodPast(p)'
    BY <1>3, <1>5 DEF FetchFound, cacheVars
  <1>6. ASSUME NEW q \in Pods, Publish(c, q)
        PROVE  PodPast(p)'
    BY <1>3, <1>6 DEF Publish, ServiceTypeOK
  <1>7. CASE UNCHANGED <<cacheVars, meta, fetched>>
    BY <1>3, <1>7 DEF cacheVars
  <1>8. \/ UNCHANGED <<cacheVars, meta, fetched>>
        \/ \E q \in Pods : Hit(c, q) \/ FetchFound(c, q) \/ Publish(c, q)
    BY DEF EnrichLogs, Work, LookUp, Miss, Fetch, FetchMissing, FetchError,
           RecordEnrichment
  <1>9. QED
    BY <1>4, <1>5, <1>6, <1>7, <1>8

\* Everything that the refinement below needs to know of a reachable state.
AllInv == TypeOK /\ InformerInv /\ JustInv /\ CallInv /\ PastInv

\* The three invariants together, as the refinement uses them.
LEMMA AllInvariant == Spec => []AllInv
  <1>1. Init => AllInv
    BY TypeInit, InformerInvInit, JustInit, CallInvInit, PastInit DEF AllInv
  <1>2. AllInv /\ [Next]_vars => AllInv'
    <2> SUFFICES ASSUME AllInv, [Next]_vars
                 PROVE  AllInv'
      OBVIOUS
    <2> USE DEF AllInv
    <2>1. CallInv'
      BY CallInvStep
    <2>2. CASE Next
      <3>1. TypeOK'
        BY <2>2, TypeCluster, TypeInformer, TypeService, TypeCall DEF Next
      <3>2. InformerInv'
        BY <2>2, InformerInvCluster, InformerInvInformer, InformerInvService
          DEF Next
      <3>3. JustInv'
        BY <2>2, JustWorld, JustCall DEF Next, World
      <3>4. PastInv'
        BY <2>2, PastCluster, PastInformer, PastService, PastCall DEF Next
      <3>5. QED
        BY <2>1, <3>1, <3>2, <3>3, <3>4
    <2>3. CASE UNCHANGED vars
      <3>1. TypeOK'
        BY <2>3, TypeUnchanged DEF vars, TypeOK
      <3>2. InformerInv'
        BY <2>3, PodFrame
          DEF InformerInv, vars, clusterVars, informerVars, cacheVars
      <3>3. JustInv'
        BY <2>3 DEF JustInv, JustOK, vars, clusterVars, callVars
      <3>4. PastInv'
        BY <2>3 DEF PastInv, PodPast, vars, clusterVars, informerVars,
                    cacheVars, callVars
      <3>5. QED
        BY <2>1, <3>1, <3>2, <3>3, <3>4
    <2>4. QED
      BY <2>2, <2>3
  <1>3. QED
    BY <1>1, <1>2, PTL DEF Spec

-----------------------------------------------------------------------------
(* The refinement *)

\* The abstract module counts as this one does.
LEMMA SameCardinality == \A S : Promise!Cardinality(S) = Cardinality(S)
  BY Zenon DEF Promise!Cardinality, Cardinality

\* The initial state is one of the promise.
LEMMA RefineInit == Init => Promise!Init
  BY DEF Init, Promise!Init, Promise!Nothing, Nothing, StatusOf, AnswerOf,
         EnrichedOf, LostOf

\* What the reader of the promise sees of a call that takes no part in a step.
LEMMA ViewFrame ==
    ASSUME NEW c \in Calls, pc[c]' = pc[c], meta[c]' = meta[c],
           hits[c]' = hits[c], api[c]' = api[c], failed[c]' = failed[c]
    PROVE  /\ StatusOf(c)' = StatusOf(c)
           /\ AnswerOf(c)' = AnswerOf(c)
           /\ EnrichedOf(c)' = EnrichedOf(c)
           /\ LostOf(c)' = LostOf(c)
  BY DEF StatusOf, AnswerOf, EnrichedOf, LostOf, Nothing

\* A step of the world is one of the abstract cluster, or none.
LEMMA RefineWorld ==
    ASSUME AllInv, World
    PROVE  [Promise!Next]_(Promise!vars)
  <1> USE DEF AllInv
  <1>1. UNCHANGED callVars
    BY WorldStep
  <1>2. /\ [c \in Calls |-> StatusOf(c)]' = [c \in Calls |-> StatusOf(c)]
        /\ [c \in Calls |-> AnswerOf(c)]' = [c \in Calls |-> AnswerOf(c)]
        /\ [c \in Calls |-> EnrichedOf(c)]' = [c \in Calls |-> EnrichedOf(c)]
        /\ [c \in Calls |-> LostOf(c)]' = [c \in Calls |-> LostOf(c)]
    BY <1>1, ViewFrame DEF callVars
  <1>3. UNCHANGED <<want, askedVer, errs>>
    BY <1>1 DEF callVars
  <1>4. CASE UNCHANGED <<ver, gone>>
    BY <1>2, <1>3, <1>4 DEF Promise!vars
  <1>5. ASSUME NEW p \in Pods, PodCreate(p) \/ PodUpdate(p) \/ PodDelete(p)
        PROVE  Promise!Cluster
    <2>1. ver[p] \in Int /\ gone[p] \in BOOLEAN /\ (gone[p] => ver[p] > 0)
      BY DEF TypeOK, ClusterTypeOK, Versions, InformerInv, StoreOK
    <2>2. CASE PodCreate(p)
      <3>1. ver[p] = 0 /\ MaxVersion > 0 /\ UNCHANGED gone
            /\ ver' = [ver EXCEPT ![p] = @ + 1]
        BY <2>2 DEF PodCreate
      <3>2. ver[p] < MaxVersion /\ ~gone[p]
        BY <2>1, <3>1
      <3>3. QED
        BY <1>2, <1>3, <3>1, <3>2 DEF Promise!Cluster, Promise!callVars
    <2>3. CASE PodUpdate(p)
      BY <1>2, <1>3, <2>3 DEF PodUpdate, Live, Promise!Cluster, Promise!callVars
    <2>4. CASE PodDelete(p)
      BY <1>2, <1>3, <2>4 DEF PodDelete, Live, Promise!Cluster, Promise!callVars
    <2>5. QED
      BY <1>5, <2>2, <2>3, <2>4
  <1>6. \/ UNCHANGED <<ver, gone>>
        \/ \E p \in Pods : PodCreate(p) \/ PodUpdate(p) \/ PodDelete(p)
    BY DEF World, Cluster, StartTimeAges, Informer, WatchBreaks, Relist,
           Observe, Resync, Handler, OnStore, OnDelete, OnTombstone, Cleanup,
           Shutdown, clusterVars
  <1>7. QED
    BY <1>4, <1>5, <1>6 DEF Promise!Next

\* The work of one call is not seen in another.
LEMMA ViewOthers ==
    ASSUME TypeOK, NEW c \in Calls, NEW d \in Calls, d # c,
           (\E input \in Inputs : EnrichLogs(c, input)) \/ Work(c)
    PROVE  /\ StatusOf(d)' = StatusOf(d)
           /\ AnswerOf(d)' = AnswerOf(d)
           /\ EnrichedOf(d)' = EnrichedOf(d)
           /\ LostOf(d)' = LostOf(d)
  <1> USE DEF TypeOK, CallTypeOK
  <1>1. ASSUME NEW input \in Inputs, EnrichLogs(c, input)
        PROVE  /\ pc[d]' = pc[d]
               /\ UNCHANGED <<meta[d], hits[d], api[d], failed[d]>>
    BY <1>1 DEF EnrichLogs
  <1>2. ASSUME NEW p \in Pods, LookUp(c, p)
        PROVE  /\ pc[d]' = pc[d]
               /\ UNCHANGED <<meta[d], hits[d], api[d], failed[d]>>
    BY <1>2 DEF LookUp, Hit, Miss, NextLookUp
  <1>3. ASSUME NEW p \in Pods, Fetch(c, p)
        PROVE  /\ pc[d]' = pc[d]
               /\ UNCHANGED <<meta[d], hits[d], api[d], failed[d]>>
    BY <1>3 DEF Fetch, FetchFound, FetchMissing, FetchError, NextFetch
  <1>4. ASSUME NEW p \in Pods, Publish(c, p)
        PROVE  /\ pc[d]' = pc[d]
               /\ UNCHANGED <<meta[d], hits[d], api[d], failed[d]>>
    BY <1>4 DEF Publish
  <1>5. ASSUME RecordEnrichment(c)
        PROVE  /\ pc[d]' = pc[d]
               /\ UNCHANGED <<meta[d], hits[d], api[d], failed[d]>>
    BY <1>5 DEF RecordEnrichment
  <1>6. /\ pc[d]' = pc[d]
        /\ UNCHANGED <<meta[d], hits[d], api[d], failed[d]>>
    BY <1>1, <1>2, <1>3, <1>4, <1>5 DEF Work
  <1>7. QED
    BY <1>6, ViewFrame

\* The view of all calls after a step of c alone.
LEMMA ViewStep ==
    ASSUME TypeOK, NEW c \in Calls,
           (\E input \in Inputs : EnrichLogs(c, input)) \/ Work(c)
    PROVE  /\ [d \in Calls |-> StatusOf(d)]'
                = [[d \in Calls |-> StatusOf(d)] EXCEPT ![c] = StatusOf(c)']
           /\ [d \in Calls |-> AnswerOf(d)]'
                = [[d \in Calls |-> AnswerOf(d)] EXCEPT ![c] = AnswerOf(c)']
           /\ [d \in Calls |-> EnrichedOf(d)]'
                = [[d \in Calls |-> EnrichedOf(d)] EXCEPT ![c] = EnrichedOf(c)']
           /\ [d \in Calls |-> LostOf(d)]'
                = [[d \in Calls |-> LostOf(d)] EXCEPT ![c] = LostOf(c)']
  BY ViewOthers

\* A finished call: its answer is one that the promise allows.
LEMMA LegalAnswer ==
    ASSUME AllInv, NEW c \in Calls, pc[c] \in {"record", "done"}
    PROVE  /\ meta[c] \in [Pods -> 0 .. MaxVersion]
           /\ Promise!Legal(c, meta[c])
           /\ {p \in want[c] : meta[c][p] # 0} = Answered(c)
           /\ want[c] \ Answered(c) = failed[c]
  <1> USE DEF AllInv
  <1>1. ShapeOK(c) /\ JustOK(c)
    BY DEF CallInv, JustInv
  <1>2. /\ Answered(c) = want[c] \ failed[c]
        /\ failed[c] \subseteq want[c]
        /\ want[c] \subseteq Pods
    BY <1>1 DEF ShapeOK, TypeOK, CallTypeOK
  <1>3. \A p \in Pods : meta[c][p] # 0 <=> p \in Answered(c)
    BY DEF Answered
  <1>4. meta[c] \in [Pods -> 0 .. MaxVersion]
    BY DEF TypeOK, CallTypeOK, Versions
  <1>5. \A p \in Pods : meta[c][p] <= ver[p]
    BY DEF PastInv, PodPast
  <1>6. \A p \in Pods \ want[c] : meta[c][p] = 0
    BY <1>2, <1>3
  <1>7. \A p \in want[c] : meta[c][p] = 0 => Promise!MayFail(c, p)
    <2>1. \A p \in want[c] : meta[c][p] = 0 => p \in failed[c]
      BY <1>2, <1>3
    <2>2. \A p \in failed[c] : p \in errs[c] \/ askedVer[c][p] = 0 \/ gone[p]
      BY <1>1, <1>2 DEF JustOK
    <2>3. QED
      BY <2>1, <2>2 DEF Promise!MayFail
  <1>8. QED
    BY <1>2, <1>3, <1>4, <1>5, <1>6, <1>7 DEF Promise!Legal

\* A call that begins asks, one that gets a List error is refused, one that is
\* recorded replies, and all other steps of a call go unseen.
LEMMA RefineCall ==
    ASSUME AllInv, NEW c \in Calls,
           (\E input \in Inputs : EnrichLogs(c, input)) \/ Work(c)
    PROVE  [Promise!Next]_(Promise!vars)
  <1> USE DEF AllInv
  <1>1. UNCHANGED <<ver, gone>>
    BY DEF EnrichLogs, Work, LookUp, Hit, Miss, Fetch, FetchFound,
           FetchMissing, FetchError, Publish, RecordEnrichment, clusterVars
  <1>2. ShapeOK(c) /\ CountOK(c)
    BY DEF CallInv
  <1>3. pc \in [Calls -> Steps]
    BY DEF TypeOK, CallTypeOK
  <1>4. ASSUME NEW input \in Inputs, EnrichLogs(c, input)
        PROVE  Promise!Ask(c, DeduplicatePodUIDs(input))
    <2> DEFINE unique == DeduplicatePodUIDs(input)
    <2>1. /\ pc[c] = "idle"
          /\ pc[c]' = IF unique = {} THEN "done" ELSE "lookup"
          /\ want' = [want EXCEPT ![c] = unique]
          /\ askedVer' = [askedVer EXCEPT ![c] = ver]
          /\ UNCHANGED <<errs, meta, hits, api, failed>>
      BY <1>3, <1>4 DEF EnrichLogs
    <2>2. /\ failed[c] = {} /\ Answered(c) = {} /\ Fetched(c) = {}
          /\ misses[c] = {}
      BY <1>2, <2>1 DEF ShapeOK
    <2>3. hits[c] = 0 /\ api[c] = 0 /\ Cardinality(failed[c]) = 0
      BY <1>2, <2>2, FS_EmptySet DEF CountOK
    <2>4. meta[c] = Nothing
      BY <2>2 DEF Answered, Nothing, TypeOK, CallTypeOK
    <2>5. /\ StatusOf(c) = "idle"
          /\ StatusOf(c)' = IF unique = {} THEN "answered" ELSE "asked"
      BY <2>1 DEF StatusOf
    <2>6. /\ AnswerOf(c)' = AnswerOf(c)
          /\ EnrichedOf(c)' = EnrichedOf(c)
          /\ LostOf(c)' = LostOf(c)
      BY <2>1, <2>3, <2>4 DEF AnswerOf, EnrichedOf, LostOf
    <2>7. QED
      BY <1>1, <1>4, <2>1, <2>5, <2>6, ViewStep DEF Promise!Ask
  <1>5. ASSUME NEW p \in Pods, FetchError(c, p)
        PROVE  Promise!Refuse(c, p)
    <2>1. /\ pc[c] = "fetch" /\ pc[c]' \in {"fetch", "record", "publish"}
          /\ errs' = [errs EXCEPT ![c] = @ \cup {p}]
          /\ UNCHANGED <<want, askedVer>>
      BY <1>3, <1>5 DEF FetchError, NextFetch
    <2>2. StatusOf(c) = "asked" /\ StatusOf(c)' = "asked"
      BY <2>1 DEF StatusOf
    <2>3. /\ AnswerOf(c)' = AnswerOf(c)
          /\ EnrichedOf(c)' = EnrichedOf(c)
          /\ LostOf(c)' = LostOf(c)
      BY <2>1 DEF AnswerOf, EnrichedOf, LostOf, Nothing
    <2>4. QED
      BY <1>1, <1>5, <2>1, <2>2, <2>3, ViewStep DEF Promise!Refuse, Work, Fetch
  <1>6. ASSUME NEW p \in Pods,
               \/ LookUp(c, p)
               \/ FetchFound(c, p)
               \/ FetchMissing(c, p)
               \/ Publish(c, p)
        PROVE  UNCHANGED Promise!vars
    <2>1. /\ pc[c] \notin {"idle", "done"} /\ pc[c]' \notin {"idle", "done"}
          /\ UNCHANGED <<errs, want, askedVer>>
      BY <1>3, <1>6 DEF LookUp, Hit, Miss, NextLookUp, FetchFound,
                        FetchMissing, NextFetch, Publish
    <2>2. /\ StatusOf(c)' = StatusOf(c)
          /\ AnswerOf(c)' = AnswerOf(c)
          /\ EnrichedOf(c)' = EnrichedOf(c)
          /\ LostOf(c)' = LostOf(c)
      BY <2>1 DEF StatusOf, AnswerOf, EnrichedOf, LostOf, Nothing
    <2>3. QED
      BY <1>1, <1>6, <2>1, <2>2, ViewStep DEF Promise!vars, Work, Fetch
  <1>7. CASE RecordEnrichment(c)
    <2>1. /\ pc[c] = "record" /\ pc[c]' = "done"
          /\ UNCHANGED <<errs, want, askedVer, meta, hits, api, failed>>
      BY <1>3, <1>7 DEF RecordEnrichment
    <2>2. StatusOf(c) = "asked" /\ StatusOf(c)' = "answered"
      BY <2>1 DEF StatusOf
    <2>3. /\ AnswerOf(c)' = meta[c]
          /\ EnrichedOf(c)' = Cardinality(Answered(c))
          /\ LostOf(c)' = Cardinality(failed[c])
      BY <1>2, <2>1, DoneCounts DEF AnswerOf, EnrichedOf, LostOf
    <2>4. /\ meta[c] \in [Pods -> 0 .. MaxVersion]
          /\ Promise!Legal(c, meta[c])
          /\ {p \in want[c] : meta[c][p] # 0} = Answered(c)
          /\ want[c] \ Answered(c) = failed[c]
      BY <2>1, LegalAnswer
    <2>5. Promise!Reply(c)
      <3> DEFINE a == meta[c]
                 found == {p \in want[c] : a[p] # 0}
      <3>1. /\ [d \in Calls |-> StatusOf(d)][c] = "asked"
            /\ [d \in Calls |-> StatusOf(d)]'
                 = [[d \in Calls |-> StatusOf(d)] EXCEPT ![c] = "answered"]
        BY <1>7, <2>2, ViewStep DEF Work
      <3>2. [d \in Calls |-> AnswerOf(d)]'
              = [[d \in Calls |-> AnswerOf(d)] EXCEPT ![c] = a]
        BY <1>7, <2>3, ViewStep DEF Work
      <3>3. [d \in Calls |-> EnrichedOf(d)]'
              = [[d \in Calls |-> EnrichedOf(d)] EXCEPT ![c] = Cardinality(found)]
        BY <1>7, <2>3, <2>4, ViewStep DEF Work
      <3>4. [d \in Calls |-> LostOf(d)]'
              = [[d \in Calls |-> LostOf(d)]
                   EXCEPT ![c] = Cardinality(want[c] \ found)]
        BY <1>7, <2>3, <2>4, ViewStep DEF Work
      <3>5. a \in [Pods -> 0 .. MaxVersion] /\ Promise!Legal(c, a)
        BY <2>4
      <3>6. \E x \in [Pods -> 0 .. MaxVersion] :
              LET f == {p \in want[c] : x[p] # 0}
              IN  /\ Promise!Legal(c, x)
                  /\ [d \in Calls |-> AnswerOf(d)]'
                       = [[d \in Calls |-> AnswerOf(d)] EXCEPT ![c] = x]
                  /\ [d \in Calls |-> EnrichedOf(d)]'
                       = [[d \in Calls |-> EnrichedOf(d)]
                            EXCEPT ![c] = Promise!Cardinality(f)]
                  /\ [d \in Calls |-> LostOf(d)]'
                       = [[d \in Calls |-> LostOf(d)]
                            EXCEPT ![c] = Promise!Cardinality(want[c] \ f)]
        <4> USE <3>5
        <4> WITNESS a \in [Pods -> 0 .. MaxVersion]
        <4> QED
          BY <3>2, <3>3, <3>4, <3>5, SameCardinality
      <3>7. UNCHANGED <<ver, gone, want, askedVer, errs>>
        BY <1>1, <2>1
      <3>8. QED
        BY <3>1, <3>6, <3>7, Zenon DEF Promise!Reply
    <2>6. QED
      BY <2>5 DEF Promise!Next
  <1>8. QED
    BY <1>4, <1>5, <1>6, <1>7, DeduplicateType DEF Work, Fetch, Promise!Next

\* Calls of EnrichLogs, whatever they are interleaved with, are calls that get
\* one legal answer at one moment.
THEOREM PromiseKept == Spec => KeepsPromise
  <1>1. AllInv /\ [Next]_vars => [Promise!Next]_(Promise!vars)
    <2> SUFFICES ASSUME AllInv, [Next]_vars
                 PROVE  [Promise!Next]_(Promise!vars)
      OBVIOUS
    <2>1. CASE Next
      BY <2>1, RefineWorld, RefineCall DEF Next, World
    <2>2. CASE UNCHANGED vars
      <3>1. UNCHANGED <<ver, gone, want, askedVer, errs>>
        BY <2>2 DEF vars, clusterVars, callVars
      <3>2. \A c \in Calls : /\ StatusOf(c)' = StatusOf(c)
                             /\ AnswerOf(c)' = AnswerOf(c)
                             /\ EnrichedOf(c)' = EnrichedOf(c)
                             /\ LostOf(c)' = LostOf(c)
        BY <2>2, ViewFrame DEF vars, callVars
      <3>3. QED
        BY <3>1, <3>2 DEF Promise!vars
    <2>3. QED
      BY <2>1, <2>2
  <1>2. QED
    BY RefineInit, AllInvariant, <1>1, PTL DEF Spec, KeepsPromise, Promise!Spec

=============================================================================
