----------------------- MODULE MCEnrichmentOptimizer ------------------------
(* Small values of the constants of EnrichmentOptimizer for TLC. *)
EXTENDS EnrichmentOptimizer

Config(b, n, p, l) == [batching |-> b, batchSize |-> n, parallel |-> p, limit |-> l]

\* batches of two and goroutines behind a limit of one; both switched off and
\* no batch size; batches of one and another limit
MixedConfigs == {Config(TRUE, 2, TRUE, 1), Config(FALSE, 0, FALSE, 1),
                 Config(TRUE, 1, FALSE, 2)}

ParallelConfigs == {Config(FALSE, 1, TRUE, 1), Config(FALSE, 1, TRUE, 2)}

\* two pods, a pod twice and another, and nothing but an empty UID
MixedInputs ==
    LET p == CHOOSE q \in Pods : TRUE
        r == CHOOSE q \in Pods : q # p
    IN  {<<NoUID>>, <<p, r>>, <<p, p, r>>}

TwoPods ==
    LET p == CHOOSE q \in Pods : TRUE
        r == CHOOSE q \in Pods : q # p
    IN  {<<p, r>>}

=============================================================================
