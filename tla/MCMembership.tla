---------------------------- MODULE MCMembership ----------------------------
(***************************************************************************)
(* Small instances of Raft whose cluster changes while it runs.            *)
(***************************************************************************)
EXTENDS RaftMembership

CONSTANTS s1, s2, s3

AllLinks == Server \X Server

RemoveAdd == {[kind |-> k, id |-> s2] : k \in {"add", "remove"}}
RemoveTwo == {[kind |-> "remove", id |-> p] : p \in {s2, s3}}

OneLeader == {<<s1, 1>>}
Successor == {<<s1, 1>>, <<s1, 2>>, <<s2, 2>>}
=============================================================================
