-------------------------- MODULE MCConnectionPool --------------------------
(* Small values of the constants of ConnectionPool for TLC. *)
EXTENDS ConnectionPool

\* two limits and two frequencies
SmallConfigs == {[open |-> 2, freq |-> 1], [open |-> 1, freq |-> 2]}

=============================================================================
