--------------------------- MODULE RaftMembership ---------------------------
(***************************************************************************)
(* Raft with membership changes: what must hold between the peer set a     *)
(* node works with, the entries it has applied, and its progress maps.     *)
(***************************************************************************)
EXTENDS Raft

CONSTANT Reconfig   \* membership payloads that may be submitted

ASSUME ReconfigType == Reconfig \subseteq [kind : {"add", "remove"}, id : Server]

MembershipNext ==
    \/ Next
    \/ \E i \in Server : \E p \in Reconfig : ClientCommand(i, p)

MembershipSpec == Init /\ [][MembershipNext]_vars

\* The peers of node i after the membership entries es, taken one after another: the last
\* that names a node decides.
PeersAfter(i, es) ==
    LET Names(k, p) == es[k].payload.kind # "command" /\ es[k].payload.id = p
        Last(k, p)  == Names(k, p) /\ \A j \in k + 1 .. Len(es) : ~Names(j, p)
    IN  {p \in Server \ {i} :
            \/ p \in Members /\ \A k \in DOMAIN es : ~Names(k, p)
            \/ \E k \in DOMAIN es : Last(k, p) /\ es[k].payload.kind = "add"}

\* The peers a node counts majorities of are those of the entries it has applied, in order:
\* however apply_committed_entries split them into calls, and whether the node led or
\* followed when they were applied, no change is missed, done twice or undone.
PeersFollowEntries == \A i \in Server : peers[i] = PeersAfter(i, applied[i])

\* A leader has a next_index for every one of its peers, so that the heartbeat after a
\* membership change (make_append_entries) does not die for the lack of one.
ProgressForPeers ==
    \A i \in Server : role[i] = Leader => \A p \in peers[i] : next_index[i][p] > 0
=============================================================================
