------------------------ MODULE MCConnectionManager -------------------------
(* The module under which TLC runs ConnectionManager. *)
EXTENDS ConnectionManager

=============================================================================
