------------------------------- MODULE MCRaft -------------------------------
(***************************************************************************)
(* Three-node instances of Raft for TLC.  A run bounds the elections that  *)
(* may be started, the connections that are up and the length of the log.  *)
(***************************************************************************)
EXTENDS RaftSafety

CONSTANTS s1, s2, s3

AllLinks == Server \X Server
\* Every connection is up but one: what s2 sends to s1 is dropped.
HalfOpen == AllLinks \ {<<s2, s1>>}

\* Two nodes campaign in the same term, one of them again in the next.
SplitVote == {<<s1, 1>>, <<s2, 1>>, <<s2, 2>>}
\* A leader is replaced by a leader that was itself replaced before.
ReturningLeader == {<<s1, 3>>, <<s2, 4>>}

(* A state two elections into a run: s1 led term 1 and s2 led term 2 (elected  *)
(* by s3), each appended one command that it could not replicate, s1 then      *)
(* campaigned in vain in term 2, and all were restarted.                       *)
DivergedInit ==
    /\ current_term = [i \in Server |-> 2]
    /\ voted_for = [i \in Server |-> IF i = s1 THEN s1 ELSE s2]
    /\ log \in {[i \in Server |-> IF i = s3 THEN << >>
                                ELSE << [term |-> IF i = s1 THEN 1 ELSE 2,
                                         payload |-> CommandPayload(c)] >>] : c \in Command}
    /\ commit_index = [i \in Server |-> 0]
    /\ last_applied = [i \in Server |-> 0]
    /\ applied = [i \in Server |-> << >>]
    /\ role = [i \in Server |-> Follower]
    /\ votes_received = [i \in Server |-> {}]
    /\ leader_id = [i \in Server |-> None]
    /\ peers = [i \in Server |-> Members \ {i}]
    /\ next_index = [i \in Server |-> [p \in Server |-> 0]]
    /\ match_index = [i \in Server |-> [p \in Server |-> 0]]
    /\ pending_requests = [i \in Server |-> {}]
    /\ panicked = {}
    /\ requestVotes = {} /\ voteResponses = {}
    /\ appendEntries = {} /\ appendResponses = {}
    /\ forwarded = {} /\ clientResponses = {}

DivergedSpec == DivergedInit /\ [][Next]_vars
=============================================================================
