------------------------------- MODULE MCEdge -------------------------------
(***************************************************************************)
(* EdgeRouting for TLC: one slot sends a request of every kind that the    *)
(* rules tell apart, and changes product p; the other reads p and q, of    *)
(* which q is never made, through the caches.                              *)
(***************************************************************************)
EXTENDS EdgeRouting, TLC

CONSTANTS e1, p, q, r1, r2

AnyCall(where, methods, paths, signs) ==
    [edge : where, method : methods, path : paths, id : {p}, sign : signs]

MCEdge == {e1}
MCId == {p, q}
MCReq == {r1, r2}

MCCalls ==
    r1 :> ( AnyCall({e1}, {"POST"}, Path \ {"/v1/product"}, {"none", "scanner agent", "payload"})
            \cup AnyCall({e1}, {"POST"}, {"/v1/user", "/healthcheck"}, Sign)
            \cup AnyCall({e1}, {"GET"}, {"/images/x"}, {"none"})
            \cup AnyCall({NoWhere}, {"GET"}, Path, {"none"})
            \cup AnyCall({e1}, {"POST", "PUT"}, {"/v1/product"}, {"none", "payload"}) )
    @@ r2 :> [edge : {e1}, method : {"GET"}, path : {"/v1/product"}, id : MCId, sign : {"none"}]

=============================================================================
