-------------------------- MODULE EnrichmentPromise -------------------------
(***************************************************************************)
(* What a query may expect of pod metadata enrichment, without the cache,  *)
(* the informer and the loops: a call names pods and gets one answer, at   *)
(* one moment.  Every pod it asked for is answered with a state the pod    *)
(* has had, or is reported as failed; and a pod fails for a cause, which   *)
(* is a refused List, or that the pod was not there for the whole call.    *)
(***************************************************************************)
EXTENDS Integers, FiniteSets

CONSTANTS Pods, Calls, MaxVersion

VARIABLES
    ver, gone,   \* the cluster, as in MetadataEnrichment
    status,      \* status[c]: idle, asked or answered
    want,        \* want[c]: the pods c asked for
    askedVer,    \* askedVer[c]: the states of the pods when c asked
    errs,        \* errs[c]: the pods whose List was refused to c
    answer,      \* answer[c][p]: the state p is answered with, 0 for none
    enriched,    \* enriched[c]: how many pods the answer reports as found
    lost         \* lost[c]: how many it reports as failed

vars == <<ver, gone, status, want, askedVer, errs, answer, enriched, lost>>

Nothing == [p \in Pods |-> 0]

Init ==
    /\ ver = Nothing
    /\ gone = [p \in Pods |-> FALSE]
    /\ status = [c \in Calls |-> "idle"]
    /\ want = [c \in Calls |-> {}]
    /\ askedVer = [c \in Calls |-> Nothing]
    /\ errs = [c \in Calls |-> {}]
    /\ answer = [c \in Calls |-> Nothing]
    /\ enriched = [c \in Calls |-> 0]
    /\ lost = [c \in Calls |-> 0]

callVars == <<status, want, askedVer, errs, answer, enriched, lost>>

\* A pod is created, changes, or is deleted for good.
Cluster ==
    /\ \E p \in Pods :
         \/ /\ ~gone[p]
            /\ ver[p] < MaxVersion
            /\ ver' = [ver EXCEPT ![p] = @ + 1]
            /\ UNCHANGED gone
         \/ /\ ~gone[p]
            /\ ver[p] > 0
            /\ gone' = [gone EXCEPT ![p] = TRUE]
            /\ UNCHANGED ver
    /\ UNCHANGED callVars

\* A call without a pod is answered as it is made.
Ask(c, pods) ==
    /\ status[c] = "idle"
    /\ status' = [status EXCEPT ![c] = IF pods = {} THEN "answered"
                                                    ELSE "asked"]
    /\ want' = [want EXCEPT ![c] = pods]
    /\ askedVer' = [askedVer EXCEPT ![c] = ver]
    /\ UNCHANGED <<ver, gone, errs, answer, enriched, lost>>

Refuse(c, p) ==
    /\ status[c] = "asked"
    /\ errs' = [errs EXCEPT ![c] = @ \cup {p}]
    /\ UNCHANGED <<ver, gone, status, want, askedVer, answer, enriched, lost>>

\* p may be missing from an answer to c
MayFail(c, p) == p \in errs[c] \/ askedVer[c][p] = 0 \/ gone[p]

\* a is an answer c may get now
Legal(c, a) ==
    /\ \A p \in Pods : a[p] <= ver[p]
    /\ \A p \in Pods \ want[c] : a[p] = 0
    /\ \A p \in want[c] : a[p] = 0 => MayFail(c, p)

Reply(c) ==
    /\ status[c] = "asked"
    /\ status' = [status EXCEPT ![c] = "answered"]
    /\ \E a \in [Pods -> 0 .. MaxVersion] :
         LET found == {p \in want[c] : a[p] # 0}
         IN  /\ Legal(c, a)
             /\ answer' = [answer EXCEPT ![c] = a]
             /\ enriched' = [enriched EXCEPT ![c] = Cardinality(found)]
             /\ lost' = [lost EXCEPT ![c] = Cardinality(want[c] \ found)]
    /\ UNCHANGED <<ver, gone, want, askedVer, errs>>

Next ==
    \/ Cluster
    \/ \E c \in Calls : \/ \E pods \in SUBSET Pods : Ask(c, pods)
                        \/ \E p \in Pods : Refuse(c, p)
                        \/ Reply(c)

Spec == Init /\ [][Next]_vars

=============================================================================
