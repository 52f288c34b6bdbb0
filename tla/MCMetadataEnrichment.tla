----------------------- MODULE MCMetadataEnrichment -------------------------
(* Small values of the constants of MetadataEnrichment for TLC. *)
EXTENDS MetadataEnrichment, TLC

\* A list without a pod, one with a pod twice, one with two pods: what
\* deduplication leaves of any list over two pods, up to their names.
TwoPodInputs ==
    LET p == CHOOSE q \in Pods : TRUE
        r == CHOOSE q \in Pods : q # p
    IN  {<<NoUID>>, <<p, NoUID, p>>, <<p, r>>}

\* the calls are interchangeable
CallSymmetry == Permutations(Calls)

\* the list of a query whose rows come from one pod
OnePodInputs == {<<p>> : p \in Pods}

=============================================================================
