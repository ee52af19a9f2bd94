-------------------------------- MODULE Raft --------------------------------
(***************************************************************************)
(* The consensus part of a KVRaft node: RaftNode with its election,        *)
(* replication, commit, membership and client-write handlers, and the      *)
(* messages between the nodes.  One action is one call of a handler by the *)
(* Runtime loop, together with the flush_outbox that follows every call.   *)
(*                                                                         *)
(* The network keeps every message ever sent and a handler may be called   *)
(* with any of them at any time: messages are lost (never handled),        *)
(* duplicated (handled again), delayed and reordered.                      *)
(*                                                                         *)
(* The code's log starts with a sentinel at index 0 whose term is 0.  Here *)
(* the sentinel is implicit: log[i][k] is the code's log[k] for k >= 1,    *)
(* and the code's log.len() is Len(log[i]) + 1.                            *)
(***************************************************************************)
EXTENDS Integers, Sequences, FiniteSets

CONSTANTS
    Server,      \* node ids
    Members,     \* the bootstrap cluster: the peers every node is started with
    Command,     \* commands without a responder (Message::ClientCommand)
    Request,     \* client writes with a responder (StoreRequest)
    Gateway,     \* the nodes that clients contact
    Links,       \* the connections that are up, as <<from, to>> pairs
    None,        \* Option::None
    Campaign,    \* bound: the elections that may be started, as <<node, term>> pairs
    Restartable, \* bound: the nodes that may be restarted
    MaxLogLen    \* bound: a leader's log grows no longer than this

Follower  == "Follower"
Candidate == "Candidate"
Leader    == "Leader"

\* EntryPayload: a command, or a change of the peer set.
Payload == [kind : {"command", "add", "remove"}, id : Command \cup Request \cup Server]

CommandPayload(c) == [kind |-> "command", id |-> c]

ASSUME ServerFinite   == IsFiniteSet(Server) /\ None \notin Server
ASSUME MembersServer  == Members \subseteq Server
ASSUME GatewayServer  == Gateway \subseteq Server
ASSUME LogBoundNat    == MaxLogLen \in Nat

VARIABLES
    current_term, voted_for, log,                    \* RaftNode's persistent fields
    commit_index, last_applied, applied,             \* applied: the entries applied so far, in order
    role, votes_received, leader_id, peers,
    next_index, match_index,                         \* next_index = 0: no entry in the HashMap
    pending_requests,
    panicked,                                        \* nodes whose process died on an expect or assert
    requestVotes, voteResponses,                     \* messages sent so far
    appendEntries, appendResponses,
    forwarded, clientResponses

termVars   == <<current_term, voted_for>>
stateVars  == <<commit_index, last_applied, applied, peers>>
leaderVars == <<next_index, match_index>>
clientVars == <<pending_requests, clientResponses>>
raftMsgs   == <<requestVotes, voteResponses, appendEntries, appendResponses>>
vars == <<current_term, voted_for, log, commit_index, last_applied, applied, role,
          votes_received, leader_id, peers, next_index, match_index,
          pending_requests, panicked, requestVotes, voteResponses,
          appendEntries, appendResponses, forwarded, clientResponses>>

-----------------------------------------------------------------------------
(* Logs and messages                                                       *)

TermAt(l, k) == IF k = 0 THEN 0 ELSE l[k].term
LastTerm(l)  == TermAt(l, Len(l))

Entry == [term : Nat, payload : Payload]

RequestVoteMsg == [term : Nat, candidate_id : Server, last_log_index : Nat,
                   last_log_term : Nat, to : Server]
VoteResponseMsg == [term : Nat, voter_id : Server, vote_granted : BOOLEAN, to : Server]
AppendEntriesMsg == [term : Nat, leader_id : Server, prev_log_index : Nat,
                     prev_log_term : Nat, entries : Seq(Entry),
                     leader_commit : Nat, to : Server]
AppendResponseMsg == [term : Nat, follower_id : Server, success : BOOLEAN,
                      match_index : Nat, to : Server]

\* make_append_entries: everything from next on, in one message.
MakeAppendEntries(i, p, t, l, next, commit) ==
    [term |-> t, leader_id |-> i, to |-> p,
     prev_log_index |-> next - 1, prev_log_term |-> TermAt(l, next - 1),
     entries |-> SubSeq(l, next, Len(l)), leader_commit |-> commit]

\* flush_outbox, and NetworkTransport::send: a message of node i to a node it has no
\* connection to is dropped.
Sent(i, msgs) == {m \in msgs : <<i, m.to>> \in Links}

\* Mutant: half of the cluster is taken for a majority.
HalfIsEnough(i) == (Cardinality(peers[i]) + 1) \div 2

Majority(i) == (Cardinality(peers[i]) + 1) \div 2 + 1

-----------------------------------------------------------------------------
Init ==
    /\ current_term = [i \in Server |-> 0]
    /\ voted_for = [i \in Server |-> None]
    /\ log = [i \in Server |-> << >>]
    /\ commit_index = [i \in Server |-> 0]
    /\ last_applied = [i \in Server |-> 0]
    /\ applied = [i \in Server |-> << >>]
    /\ role = [i \in Server |-> Follower]
    /\ votes_received = [i \in Server |-> {}]
    /\ leader_id = [i \in Server |-> None]
    /\ peers = [i \in Server |-> Members \ {i}]
    /\ next_index = [i \in Server |-> [p \in Server |-> 0]]
    /\ match_index = [i \in Server |-> [p \in Server |-> 0]]
    /\ pending_requests = [i \in Server |-> {}]
    /\ panicked = {}
    /\ requestVotes = {} /\ voteResponses = {}
    /\ appendEntries = {} /\ appendResponses = {}
    /\ forwarded = {} /\ clientResponses = {}

-----------------------------------------------------------------------------
(* Parts shared by the handlers.  The operators below are conjoined to an  *)
(* action; those that come after an assignment in the code read the primed *)
(* variable the assignment produced.                                       *)

Response(x, ok, k, t) == [request |-> x, success |-> ok, index |-> k, term |-> t]

\* The failure answers step_down gives to the requests it drains.
Drained(i, t) == {Response(x.request, FALSE, 0, t) : x \in pending_requests[i]}

\* Mutant: the leader of the old term is still named in the new one.
AdoptTermKeepLeader(i, t) ==
    /\ current_term' = [current_term EXCEPT ![i] = t]
    /\ role' = [role EXCEPT ![i] = Follower]
    /\ clientResponses' = clientResponses \cup Drained(i, t)
    /\ pending_requests' = [pending_requests EXCEPT ![i] = {}]
    /\ UNCHANGED leader_id

\* Mutant: a node that learns of a newer term keeps its role in it.
AdoptTermKeepRole(i, t) ==
    /\ current_term' = [current_term EXCEPT ![i] = t]
    /\ leader_id' = [leader_id EXCEPT ![i] = None]
    /\ clientResponses' = clientResponses \cup Drained(i, t)
    /\ pending_requests' = [pending_requests EXCEPT ![i] = {}]
    /\ UNCHANGED role

\* step_down(new_term), but for the vote it clears
AdoptTerm(i, t) ==
    /\ current_term' = [current_term EXCEPT ![i] = t]
    /\ role' = [role EXCEPT ![i] = Follower]
    /\ leader_id' = [leader_id EXCEPT ![i] = None]
    /\ clientResponses' = clientResponses \cup Drained(i, t)
    /\ pending_requests' = [pending_requests EXCEPT ![i] = {}]

\* step_down(new_term)
StepDown(i, t) ==
    /\ AdoptTerm(i, t)
    /\ voted_for' = [voted_for EXCEPT ![i] = None]

\* become_leader: fresh progress for every peer, and an empty AppendEntries to each.
BecomeLeader(i) ==
    LET next == Len(log[i]) + 1 IN
    /\ role' = [role EXCEPT ![i] = Leader]
    /\ leader_id' = [leader_id EXCEPT ![i] = i]
    /\ next_index' = [next_index EXCEPT ![i] =
          [p \in Server |-> IF p \in peers[i] THEN next ELSE next_index[i][p]]]
    /\ match_index' = [match_index EXCEPT ![i] =
          [p \in Server |-> IF p \in peers[i] THEN 0 ELSE match_index[i][p]]]
    /\ appendEntries' = appendEntries \cup Sent(i,
          {MakeAppendEntries(i, p, current_term'[i], log[i], next, commit_index[i])
             : p \in peers[i]})

\* An AppendEntries to every peer in ps.  make_append_entries dies when a peer
\* has no next_index, or one outside the log; nothing of the outbox is sent then.
SendAppends(i, ps, next) ==
    IF \A p \in ps : next[p] \in 1 .. Len(log'[i]) + 1
    THEN /\ appendEntries' = appendEntries \cup Sent(i,
              {MakeAppendEntries(i, p, current_term[i], log'[i], next[p], commit_index[i])
                 : p \in ps})
         /\ UNCHANGED panicked
    ELSE /\ panicked' = panicked \cup {i}
         /\ UNCHANGED appendEntries

\* Mutant: an addition counts even if a removal follows it.
AddsAnywhere(l, ks, p) == \E k \in ks : l[k].payload = [kind |-> "add", id |-> p]

\* Among the entries of l at the indices ks, p is removed; p is added for good.
Removes(l, ks, p) == \E k \in ks : l[k].payload = [kind |-> "remove", id |-> p]
Adds(l, ks, p) ==
    \E k \in ks : /\ l[k].payload = [kind |-> "add", id |-> p]
                  /\ ~Removes(l, {j \in ks : j > k}, p)

\* Mutant: a leader does not start tracking a peer that is added.
NextNotInserted(leads, l, ks, next, p) == IF Removes(l, ks, p) THEN 0 ELSE next

\* p's next_index after the entries at ks: a leader starts tracking a peer that is
\* added, everyone forgets a peer that is removed.
NextAfter(leads, l, ks, next, p) ==
    IF leads /\ Adds(l, ks, p) /\ (next = 0 \/ Removes(l, ks, p)) THEN Len(l) + 1
    ELSE IF Removes(l, ks, p) THEN 0 ELSE next

\* apply_committed_entries: entries last_applied + 1 .. commit_index, in order.
\* Membership entries change the peer set (and a leader's progress maps) as they
\* are applied; a pending request is answered when its own entry is applied.
ApplyCommittedEntries(i, next, match, pending, responses) ==
    LET l        == log'[i]
        ks       == last_applied[i] + 1 .. commit_index'[i]
        answered == {x \in pending : x.index \in ks /\ l[x.index].term = x.term}
    IN
    /\ last_applied' = [last_applied EXCEPT ![i] =
          IF commit_index'[i] > @ THEN commit_index'[i] ELSE @]
    /\ applied' = [applied EXCEPT ![i] =
          @ \o SubSeq(l, last_applied[i] + 1, commit_index'[i])]
    /\ peers' = [peers EXCEPT ![i] =
          {p \in Server \ {i} : Adds(l, ks, p) \/ (p \in peers[i] /\ ~Removes(l, ks, p))}]
    /\ next_index' = [next_index EXCEPT ![i] =
          [p \in Server |-> NextAfter(role'[i] = Leader, l, ks, next[p], p)]]
    /\ match_index' = [match_index EXCEPT ![i] = [p \in Server |->
          IF Removes(l, ks, p) THEN 0 ELSE match[p]]]
    /\ pending_requests' = [pending_requests EXCEPT ![i] = pending \ answered]
    /\ clientResponses' = responses \cup
          {Response(x.request, TRUE, x.index, x.term) : x \in answered}

\* Mutants: an entry of an earlier term is committed by counting copies; the
\* leader's own copy is counted twice.
CommittableAnyTerm(i, l, match, k) ==
    Cardinality({p \in Server : match[p] >= k}) + 1 >= Majority(i)
CommittableTooSoon(i, l, match, k) ==
    /\ l[k].term = current_term[i]
    /\ Cardinality({p \in Server : match[p] >= k}) + 2 >= Majority(i)

\* An entry of the leader's own term that it counts on a majority.
Committable(i, l, match, k) ==
    /\ l[k].term = current_term[i]
    /\ Cardinality({p \in Server : match[p] >= k}) + 1 >= Majority(i)

\* update_commit_index: the last committable index, and everything up to it applied.
UpdateCommitIndex(i, next, match, pending) ==
    \E c \in commit_index[i] .. Len(log'[i]) :
        /\ c # commit_index[i] => Committable(i, log'[i], match, c)
        /\ \A k \in c + 1 .. Len(log'[i]) : ~Committable(i, log'[i], match, k)
        /\ commit_index' = [commit_index EXCEPT ![i] = c]
        /\ ApplyCommittedEntries(i, next, match, pending, clientResponses)

-----------------------------------------------------------------------------
(* Elections                                                               *)

\* start_election
StartElection(i) ==
    /\ i \notin panicked
    /\ <<i, current_term[i] + 1>> \in Campaign
    /\ current_term' = [current_term EXCEPT ![i] = @ + 1]
    /\ voted_for' = [voted_for EXCEPT ![i] = i]
    /\ votes_received' = [votes_received EXCEPT ![i] = {i}]
    /\ IF 1 >= Majority(i)
       THEN BecomeLeader(i) /\ UNCHANGED requestVotes
       ELSE /\ role' = [role EXCEPT ![i] = Candidate]
            /\ leader_id' = [leader_id EXCEPT ![i] = None]
            /\ requestVotes' = requestVotes \cup Sent(i,
                 {[term |-> current_term[i] + 1, candidate_id |-> i,
                   last_log_index |-> Len(log[i]), last_log_term |-> LastTerm(log[i]),
                   to |-> p] : p \in peers[i]})
            /\ UNCHANGED <<leaderVars, appendEntries>>
    /\ UNCHANGED <<log, stateVars, clientVars, panicked, voteResponses,
                   appendResponses, forwarded>>

\* tick on a follower or candidate whose election deadline has passed
ElectionTimeout(i) == role[i] # Leader /\ StartElection(i)

\* Message::Timeout starts an election whatever the role is.
TimeoutMessage(i) == role[i] = Leader /\ StartElection(i)

\* Mutant: any candidate's log will do.
UpToDateAlways(m, l) == TRUE

\* The candidate's log is at least as up to date as l.
UpToDate(m, l) ==
    \/ m.last_log_term > LastTerm(l)
    \/ m.last_log_term = LastTerm(l) /\ m.last_log_index >= Len(l)

\* Mutant: a vote is given to whoever asks.
CanVoteAgain(vote, c) == TRUE

\* can_vote: no vote given in this term, or to this candidate
CanVote(vote, c) == vote \in {None, c}

\* handle_request_vote
HandleRequestVote(m) ==
    LET i     == m.to
        newer == m.term > current_term[i]
        vote  == IF newer THEN None ELSE voted_for[i]
        grant == /\ m.term >= current_term[i]
                 /\ CanVote(vote, m.candidate_id)
                 /\ UpToDate(m, log[i])
    IN
    /\ i \notin panicked
    /\ IF newer THEN AdoptTerm(i, m.term)
       ELSE UNCHANGED <<current_term, role, leader_id, clientVars>>
    /\ voted_for' = [voted_for EXCEPT ![i] = IF grant THEN m.candidate_id ELSE vote]
    /\ voteResponses' = voteResponses \cup Sent(i,
         {[term |-> current_term'[i], voter_id |-> i, vote_granted |-> grant,
           to |-> m.candidate_id]})
    /\ UNCHANGED <<log, stateVars, votes_received, leaderVars, panicked,
                   requestVotes, appendEntries, appendResponses, forwarded>>

\* handle_vote_response
HandleVoteResponse(m) ==
    LET i == m.to
        votes == votes_received[i] \cup (IF m.vote_granted THEN {m.voter_id} ELSE {})
    IN
    /\ i \notin panicked
    /\ \/ /\ m.term > current_term[i]
          /\ StepDown(i, m.term)
          /\ UNCHANGED <<votes_received, leaderVars, appendEntries>>
       \/ /\ m.term = current_term[i]
          /\ role[i] = Candidate
          /\ votes_received' = [votes_received EXCEPT ![i] = votes]
          /\ UNCHANGED <<termVars, clientVars>>
          /\ IF Cardinality(votes) >= Majority(i)
             THEN BecomeLeader(i)
             ELSE UNCHANGED <<role, leader_id, leaderVars, appendEntries>>
    /\ UNCHANGED <<log, stateVars, panicked, requestVotes, voteResponses,
                   appendResponses, forwarded>>

-----------------------------------------------------------------------------
(* Replication                                                             *)

\* tick on a leader whose heartbeat deadline has passed: send_heartbeats
SendHeartbeats(i) ==
    /\ i \notin panicked
    /\ role[i] = Leader
    /\ UNCHANGED log
    /\ SendAppends(i, peers[i], next_index[i])
    /\ UNCHANGED <<termVars, stateVars, role, votes_received, leader_id, leaderVars,
                   clientVars, requestVotes, voteResponses, appendResponses, forwarded>>

\* Mutant: whatever follows prev is cut before the leader's entries are appended.
MergedLogCut(l, prev, es) == SubSeq(l, 1, prev) \o es

\* The log after the loop of handle_append_entries: entries that are already there
\* with the same term are kept; from the first missing or conflicting one on, the
\* log is cut and the leader's entries take its place.
MergedLog(l, prev, es) ==
    LET Present(k) == k <= Len(l) /\ l[k].term = es[k - prev].term
    IN  IF \A k \in prev + 1 .. prev + Len(es) : Present(k)
        THEN l
        ELSE [k \in 1 .. prev + Len(es) |->
                IF \A j \in prev + 1 .. k : Present(j) THEN l[k] ELSE es[k - prev]]

\* The commit index a follower takes from a leader's message: min(leader_commit, last index).
FollowerCommit(m, l) == IF m.leader_commit < Len(l) THEN m.leader_commit ELSE Len(l)

\* Mutant: the reply reports one entry too few.
AppendReplyShort(m, t, ok, k) ==
    appendResponses' = appendResponses \cup Sent(m.to,
        {[term |-> t, follower_id |-> m.to, success |-> ok, match_index |-> k - 1,
          to |-> m.leader_id]})

\* The AppendEntriesResponse a follower sends.
AppendReply(m, t, ok, k) ==
    appendResponses' = appendResponses \cup Sent(m.to,
        {[term |-> t, follower_id |-> m.to, success |-> ok, match_index |-> k,
          to |-> m.leader_id]})

\* Mutant: the entry before the new ones must be there, whatever its term.
PrevPresent(m, l) == m.prev_log_index <= Len(l)

\* The consistency check: the entry before the new ones is there, with the same term.
PrevMatches(m, l) ==
    /\ m.prev_log_index <= Len(l)
    /\ TermAt(l, m.prev_log_index) = m.prev_log_term

\* handle_append_entries
HandleAppendEntries(m) ==
    LET i         == m.to
        newer     == m.term > current_term[i]
        pending   == IF newer THEN {} ELSE pending_requests[i]
        responses == clientResponses \cup (IF newer THEN Drained(i, m.term) ELSE {})
    IN
    /\ i \notin panicked
    /\ \/ /\ m.term < current_term[i]
          /\ AppendReply(m, current_term[i], FALSE, Len(log[i]))
          /\ UNCHANGED <<termVars, role, leader_id, log, stateVars, leaderVars, clientVars>>
       \/ /\ m.term >= current_term[i]
          /\ current_term' = [current_term EXCEPT ![i] = m.term]
          /\ voted_for' = [voted_for EXCEPT ![i] = IF newer THEN None ELSE @]
          /\ role' = [role EXCEPT ![i] = Follower]
          /\ leader_id' = [leader_id EXCEPT ![i] = m.leader_id]
          /\ IF PrevMatches(m, log[i])
             THEN /\ log' = [log EXCEPT ![i] = MergedLog(@, m.prev_log_index, m.entries)]
                  /\ commit_index' = [commit_index EXCEPT ![i] = FollowerCommit(m, log'[i])]
                  /\ ApplyCommittedEntries(i, next_index[i], match_index[i], pending, responses)
                  /\ AppendReply(m, m.term, TRUE, m.prev_log_index + Len(m.entries))
             ELSE /\ pending_requests' = [pending_requests EXCEPT ![i] = pending]
                  /\ clientResponses' = responses
                  /\ AppendReply(m, m.term, FALSE, Len(log[i]))
                  /\ UNCHANGED <<log, stateVars, leaderVars>>
    /\ UNCHANGED <<votes_received, panicked, requestVotes, voteResponses,
                   appendEntries, forwarded>>

\* Mutant: next_index goes down to the sentinel.
StepBackToZero(next) == next - 1

\* After a refusal the leader tries one entry earlier, down to the first.
StepBack(next) == IF next > 1 THEN next - 1 ELSE next

\* handle_append_entries_response
HandleAppendResponse(m) ==
    LET i == m.to
        p == m.follower_id
        next == [next_index[i] EXCEPT ![p] = StepBack(@)]
    IN
    /\ i \notin panicked
    /\ \/ /\ m.term > current_term[i]
          /\ StepDown(i, m.term)
          /\ UNCHANGED <<log, stateVars, leaderVars, panicked, appendEntries>>
       \/ /\ m.term = current_term[i] /\ role[i] = Leader
          /\ m.success
          /\ UNCHANGED <<termVars, role, leader_id, log, panicked, appendEntries>>
          /\ UpdateCommitIndex(i, [next_index[i] EXCEPT ![p] = m.match_index + 1],
                               [match_index[i] EXCEPT ![p] = m.match_index],
                               pending_requests[i])
       \/ /\ m.term = current_term[i] /\ role[i] = Leader
          /\ ~m.success
          /\ UNCHANGED <<termVars, role, leader_id, log, stateVars, match_index, clientVars>>
          /\ next_index' = [next_index EXCEPT ![i] = next]
          /\ SendAppends(i, {p}, next)
    /\ UNCHANGED <<votes_received, requestVotes, voteResponses, appendResponses, forwarded>>

-----------------------------------------------------------------------------
(* Clients                                                                 *)

\* append_command and append_membership_change on the leader.
AppendEntry(i, payload, pending) ==
    /\ Len(log[i]) < MaxLogLen
    /\ log' = [log EXCEPT ![i] = Append(@, [term |-> current_term[i], payload |-> payload])]
    /\ UNCHANGED <<termVars, role, votes_received, leader_id, requestVotes,
                   voteResponses, appendResponses>>
    /\ IF peers[i] = {}
       THEN /\ UpdateCommitIndex(i, next_index[i], match_index[i], pending)
            /\ UNCHANGED <<panicked, appendEntries>>
       ELSE /\ SendAppends(i, peers[i], next_index[i])
            /\ pending_requests' = [pending_requests EXCEPT ![i] = pending]
            /\ UNCHANGED <<stateVars, leaderVars, clientResponses>>

\* handle_message of ClientCommand, AddNode or RemoveNode: appended by the leader,
\* passed on to the leader a follower knows, dropped otherwise.
Propose(i, payload) ==
    /\ i \notin panicked
    /\ \/ /\ role[i] = Leader
          /\ AppendEntry(i, payload, pending_requests[i])
          /\ UNCHANGED forwarded
       \/ /\ role[i] # Leader /\ leader_id[i] # None
          /\ forwarded' = forwarded \cup Sent(i, {[to |-> leader_id[i], payload |-> payload]})
          /\ UNCHANGED <<termVars, log, stateVars, role, votes_received, leader_id,
                         leaderVars, clientVars, panicked, raftMsgs>>

\* A client's command or membership change reaches node i.
ClientCommand(i, payload) == i \in Gateway /\ Propose(i, payload)

\* A command that a follower passed on arrives.
HandleForwarded(m) == Propose(m.to, m.payload)

\* submit_store_write: refused with a leader hint by a follower; otherwise appended
\* and kept pending until it is applied.  (A node without peers applies it at once
\* and answers at once, which is what adding it to pending first amounts to.)
SubmitStoreWrite(i, x) ==
    /\ i \notin panicked
    /\ \/ /\ role[i] = Leader
          /\ AppendEntry(i, CommandPayload(x), pending_requests[i] \cup
               {[index |-> Len(log[i]) + 1, term |-> current_term[i], request |-> x]})
       \/ /\ role[i] # Leader
          /\ clientResponses' = clientResponses \cup {Response(x, FALSE, 0, current_term[i])}
          /\ UNCHANGED <<termVars, log, stateVars, role, votes_received, leader_id,
                         leaderVars, pending_requests, panicked, raftMsgs>>
    /\ UNCHANGED forwarded

\* A client's write reaches node i.
ClientRequest(i, x) == i \in Gateway /\ SubmitStoreWrite(i, x)

-----------------------------------------------------------------------------
\* RaftNode::restart: the volatile state is lost; term, vote, log, commit index
\* and database stay.
Restart(i) ==
    /\ i \notin panicked
    /\ i \in Restartable
    /\ role' = [role EXCEPT ![i] = Follower]
    /\ leader_id' = [leader_id EXCEPT ![i] = None]
    /\ votes_received' = [votes_received EXCEPT ![i] = {}]
    /\ next_index' = [next_index EXCEPT ![i] = [p \in Server |-> 0]]
    /\ match_index' = [match_index EXCEPT ![i] = [p \in Server |-> 0]]
    /\ pending_requests' = [pending_requests EXCEPT ![i] = {}]
    /\ UNCHANGED <<termVars, log, stateVars, panicked, raftMsgs, forwarded, clientResponses>>

\* What the nodes do by themselves and with each other's messages.
NodeStep ==
    \/ \E i \in Server : ElectionTimeout(i)
    \/ \E i \in Server : TimeoutMessage(i)
    \/ \E i \in Server : SendHeartbeats(i)
    \/ \E i \in Server : Restart(i)
    \/ \E m \in requestVotes : HandleRequestVote(m)
    \/ \E m \in voteResponses : HandleVoteResponse(m)
    \/ \E m \in appendEntries : HandleAppendEntries(m)
    \/ \E m \in appendResponses : HandleAppendResponse(m)
    \/ \E m \in forwarded : HandleForwarded(m)

Next ==
    \/ NodeStep
    \/ \E i \in Server : \E c \in Command : ClientCommand(i, CommandPayload(c))
    \/ \E i \in Server : \E x \in Request : ClientRequest(i, x)

Spec == Init /\ [][Next]_vars

-----------------------------------------------------------------------------
(* Properties                                                              *)

\* Types of the node's fields and of the messages; a follower's reply in particular
\* never has a negative match_index, however short the AppendEntries it answers.
TypeOK ==
    /\ current_term \in [Server -> Nat]
    /\ voted_for \in [Server -> Server \cup {None}]
    /\ log \in [Server -> Seq(Entry)]
    /\ commit_index \in [Server -> Nat]
    /\ last_applied \in [Server -> Nat]
    /\ applied \in [Server -> Seq(Entry)]
    /\ role \in [Server -> {Follower, Candidate, Leader}]
    /\ votes_received \in [Server -> SUBSET Server]
    /\ leader_id \in [Server -> Server \cup {None}]
    /\ peers \in [Server -> SUBSET Server]
    /\ next_index \in [Server -> [Server -> Nat]]
    /\ match_index \in [Server -> [Server -> Nat]]
    /\ pending_requests \in [Server -> SUBSET [index : Nat, term : Nat, request : Request]]
    /\ panicked \subseteq Server
    /\ requestVotes \subseteq RequestVoteMsg
    /\ voteResponses \subseteq VoteResponseMsg
    /\ appendEntries \subseteq AppendEntriesMsg
    /\ appendResponses \subseteq AppendResponseMsg
    /\ forwarded \subseteq [to : Server, payload : Payload]
    /\ clientResponses \subseteq [request : Request, success : BOOLEAN, index : Nat, term : Nat]

\* s is a prefix of t.
Prefix(s, t) == Len(s) <= Len(t) /\ \A k \in 1 .. Len(s) : s[k] = t[k]

\* The commit index never points past the log, whatever leader_commit says: applying
\* entries reads log[commit_index] without a bounds check of its own.
CommitInLog == \A i \in Server : commit_index[i] <= Len(log[i])

\* Election Safety (Simulation::check_invariants): never two leaders in one term.
ElectionSafety ==
    \A i, j \in Server :
        role[i] = Leader /\ role[j] = Leader /\ current_term[i] = current_term[j] => i = j

\* Log Matching (check_invariants): two logs with an entry of the same term at the
\* same index are the same, payloads included, up to that index.
LogMatching ==
    \A i, j \in Server : \A k \in 1 .. Len(log[i]) :
        k <= Len(log[j]) /\ log[i][k].term = log[j][k].term
            => \A n \in 1 .. k : log[i][n] = log[j][n]

\* A leader's log loses entries only to a leader of a later term: as long as it hears of
\* none, no AppendEntries, however late or from whomever, makes truncate_log cut it.
LeaderAppendOnly ==
    [][\A i \in Server :
          role[i] = Leader /\ ~Prefix(log[i], log'[i]) => current_term'[i] > current_term[i]]_vars

\* State Machine Safety: the sequences of entries two nodes have applied to their
\* databases never differ; one is a prefix of the other.
StateMachineSafety ==
    \A i, j \in Server : Prefix(applied[i], applied[j]) \/ Prefix(applied[j], applied[i])

\* truncate_log never cuts away, and a leader's entries never replace, what this node has
\* already applied to its database; and nothing is applied twice or passed over, also when
\* a late heartbeat has lowered commit_index below last_applied.
AppliedInLog ==
    \A i \in Server : Len(applied[i]) = last_applied[i] /\ Prefix(applied[i], log[i])

\* Leader Completeness: whatever any node has applied is in the log of every leader
\* whose term is not behind that node's.
LeaderCompleteness ==
    \A i, j \in Server :
        role[i] = Leader /\ current_term[j] <= current_term[i] => Prefix(applied[j], log[i])

\* A client write answered with success is at its index in the log of every leader
\* that no node is ahead of: the acknowledged write is never lost.
AcknowledgedWriteDurable ==
    \A r \in clientResponses : \A i \in Server :
        r.success /\ role[i] = Leader /\ (\A j \in Server : current_term[j] <= current_term[i]) =>
            /\ r.index \in 1 .. Len(log[i])
            /\ log[i][r.index] = [term |-> r.term, payload |-> CommandPayload(r.request)]

\* Nodes of one term that know a leader know the same one: the hint given to clients
\* and the target of a forwarded command is never a leader of an earlier term.
LeaderHintAgreement ==
    \A i, j \in Server :
        current_term[i] = current_term[j] /\ leader_id[i] # None /\ leader_id[j] # None
            => leader_id[i] = leader_id[j]

\* What a leader counts towards a majority is really there: up to match_index the
\* follower's log is the leader's, as long as the follower has not left the term.
MatchIndexTruthful ==
    \A i, p \in Server :
        role[i] = Leader /\ current_term[p] = current_term[i] /\ match_index[i][p] > 0 =>
            /\ match_index[i][p] <= Len(log[i])
            /\ Prefix(SubSeq(log[i], 1, match_index[i][p]), log[p])

\* No handler reaches a failing expect or assert (next_index present and within the
\* log in make_append_entries and handle_append_entries_response).
NoPanic == panicked = {}
=============================================================================
