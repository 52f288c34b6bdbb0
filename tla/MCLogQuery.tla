----------------------------- MODULE MCLogQuery -----------------------------
(***************************************************************************)
(* Values for the constants of LogQuery: a handful of rows, some with the  *)
(* same service, stamp or namespace, and one request per kind.             *)
(***************************************************************************)
EXTENDS LogQuery

Row(i, d, svc, t, n) ==
    [id |-> i, dataset |-> d, service |-> svc, stamp |-> t, ns |-> n]

\* three rows of dataset "a", of which two share a service, and one of "b"
FourRows == {Row(1, "a", 1, 0, 1), Row(2, "a", 2, 1, 1), Row(3, "a", 1, 1, 2),
             Row(4, "b", 1, 1, 1)}

TwoRows == {Row(1, "a", 1, 0, 1), Row(2, "a", 2, 1, 1)}

Request(d, s, e, b, dir, sz, form) ==
    [dataset |-> d, start |-> s, end |-> e, builder |-> b, direction |-> dir,
     pageSize |-> sz, form |-> form, match |-> Rows]

\* walks with both times, one, or none; pages of one row, two, and the default;
\* a walk whose rows tie, and one whose start float64 moves
GoodRequests ==
    {Request("a", {0}, {2}, "time", "asc", 1, "ok"),
     Request("a", {1}, {}, "time", "desc", 2, "ok"),
     Request("a", {}, {2}, "k8s", "asc", 1, "ok"),
     Request("a", {}, {}, "time", "desc", 1, "ok"),
     Request("a", {0}, {1}, "content", "asc", 1, "ok"),
     [Request("a", {0}, {1}, "content", "desc", 0, "ok")
        EXCEPT !.match = {r \in Rows : r.id # 3}]}

\* a range that is too long, one that may be in the future, and a request for
\* each of the checks that refuse one
BadRequests ==
    {Request("a", {0}, {3}, "time", "asc", 1, "ok"),
     Request("a", {1}, {0}, "time", "asc", 1, "ok"),
     Request("a", {1}, {2}, "time", "asc", 3, "ok"),
     Request("a", {1}, {2}, "k8s", "asc", 1, "badK8s"),
     Request("b", {1}, {1}, "content", "asc", 1, "badFilter"),
     Request("b", {}, {}, "time", "asc", 1, "badParameter")}

WalkRequests == GoodRequests \cup BadRequests

\* requests for the runs about other things than walks
FewRequests ==
    {Request("a", {0}, {1}, "time", "asc", 2, "ok"),
     Request("a", {}, {}, "time", "desc", 1, "ok"),
     Request("a", {1}, {}, "k8s", "asc", 1, "badK8s")}
=============================================================================
