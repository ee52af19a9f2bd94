---------------------------- MODULE MCApiGateway ----------------------------
(***************************************************************************)
(* A gateway before a cluster of two nodes.                                *)
(***************************************************************************)
EXTENDS ApiGateway

CONSTANTS s1, s2, a, b

AllLinks == Server \X Server
\* s1 leads first, then s2 may.
Handover == {<<s1, 1>>, <<s2, 2>>}

InOrder    == << s1, s2 >>
LostCall   == {<<a, s1>>}
Submitted  == Call \X Server
Changes    == {[kind |-> k, id |-> s2] : k \in {"add", "remove"}}
Operations == [c \in Call |-> IF c = a THEN {[kind |-> "write"], [kind |-> "remove", id |-> s2]}
                              ELSE {[kind |-> "none"], [kind |-> "read"]} \cup Changes]

\* Bound: the second election happens to a write, with no other call; or the two calls are
\* a write and a read, or two membership changes.
OneOrTheOther ==
    /\ \A i \in Server : current_term[i] = 2 => op[b].kind = "none"
    /\ op[a].kind = "write" <=> op[b].kind \in {"none", "read"}
=============================================================================
