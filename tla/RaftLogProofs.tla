--------------------------- MODULE RaftLogProofs ---------------------------
(***************************************************************************)
(* Log Matching and the replication bookkeeping of Raft, for a fixed       *)
(* cluster of any size.                                                    *)
(***************************************************************************)
EXTENDS RaftCells

\* A leaf that names no prover is tried with each of these, in this order.
USE SMT, Zenon, SMTT(60), ZenonT(60)

-----------------------------------------------------------------------------
(* Every step of a node has one of the shapes                              *)

\* The messages that BecomeLeader and SendAppends add.
LEMMA BecomeLeaderAppends ==
    ASSUME Base, NEW i \in Server, current_term'[i] = current_term[i], BecomeLeader(i)
    PROVE  NewAppends(i, log[i]) /\ appendEntries \subseteq appendEntries'
<1> DEFINE next == Len(log[i]) + 1
           Msg(p) == MakeAppendEntries(i, p, current_term'[i], log[i], next, commit_index[i])
<1>1. next \in 1 .. Len(log[i]) + 1 /\ peers[i] = Server \ {i}
  BY DEF Base, Typed, TypeOK, ElectionInv, CommandsOnly
<1>2. appendEntries' = appendEntries \cup Sent(i, {Msg(p) : p \in peers[i]})
  BY DEF BecomeLeader
<1>3. \A m \in appendEntries' \ appendEntries : \E p \in Server \ {i} : m = Msg(p)
  BY <1>1, <1>2 DEF Sent
<1>4. QED
  BY <1>1, <1>2, <1>3 DEF NewAppends, IsAppend

LEMMA StartElectionShape ==
    ASSUME Base, NEW i \in Server, StartElection(i)
    PROVE  Grows /\ Campaigns(i)
<1> USE DEF Follower, Candidate, Leader
<1>1. /\ current_term \in [Server -> Nat] /\ role \in [Server -> {Follower, Candidate, Leader}]
      /\ voted_for \in [Server -> Server \cup {None}] /\ peers[i] = Server \ {i}
  BY DEF Base, Typed, TypeOK, ElectionInv, CommandsOnly
<1>2. /\ current_term' = [current_term EXCEPT ![i] = @ + 1]
      /\ voted_for' = [voted_for EXCEPT ![i] = i]
      /\ UNCHANGED <<log, voteResponses, appendResponses>>
  BY DEF StartElection
<1>3. \A j \in Server :
         /\ current_term[j] <= current_term'[j]
         /\ current_term'[j] = current_term[j] => j # i
         /\ j # i => voted_for'[j] = voted_for[j]
  BY <1>1, <1>2
<1>4. voted_for'[i] = i
  BY <1>1, <1>2
<1>5. CASE 1 >= Majority(i)
  <2>1. BecomeLeader(i) /\ requestVotes' = requestVotes
    BY <1>5 DEF StartElection
  <2>2. IsQuorum({i})
    <3>1. Majority(i) = Cardinality(Server) \div 2 + 1 /\ Cardinality({i}) = 1
      BY MajorityOfCluster DEF Base, Quorums
    <3>2. QED
      BY <1>5, <3>1 DEF IsQuorum
  <2>3. Server = {i} /\ peers[i] = {}
    BY <1>1, <2>2 DEF Base, Quorums
  <2>4. appendEntries' = appendEntries
    BY <2>1, <2>3 DEF BecomeLeader, Sent
  <2>5. role' = [role EXCEPT ![i] = Leader]
    BY <2>1 DEF BecomeLeader
  <2>6. Campaigns(i)
    BY <1>2, <1>4, <2>1, <2>3, <2>4, <2>5 DEF Campaigns
  <2>7. \A j \in Server : j # i => role'[j] = role[j]
    BY <1>1, <2>5
  <2>8. QED
    BY <1>2, <1>3, <2>1, <2>4, <2>6, <2>7 DEF Grows
<1>6. CASE ~(1 >= Majority(i))
  <2> DEFINE Ask(p) == [term |-> current_term[i] + 1, candidate_id |-> i,
                        last_log_index |-> Len(log[i]), last_log_term |-> LastTerm(log[i]),
                        to |-> p]
  <2>1. /\ role' = [role EXCEPT ![i] = Candidate]
        /\ requestVotes' = requestVotes \cup Sent(i, {Ask(p) : p \in peers[i]})
        /\ appendEntries' = appendEntries
    BY <1>6 DEF StartElection
  <2>2. \A r \in requestVotes' \ requestVotes : \E p \in peers[i] : r = Ask(p)
    BY <2>1 DEF Sent
  <2>3. \A r \in requestVotes' \ requestVotes :
           /\ r.candidate_id = i /\ r.term = current_term[i] + 1
           /\ r.last_log_index = Len(log[i]) /\ r.last_log_term = LastTerm(log[i])
    BY <2>2
  <2>4. Campaigns(i)
    BY <1>2, <1>4, <2>1, <2>3 DEF Campaigns
  <2>5. \A j \in Server : j # i => role'[j] = role[j]
    BY <1>1, <2>1
  <2>6. QED
    BY <1>2, <1>3, <2>1, <2>4, <2>5 DEF Grows
<1>7. QED
  BY <1>5, <1>6

LEMMA HandleRequestVoteShape ==
    ASSUME Base, NEW m \in requestVotes, HandleRequestVote(m)
    PROVE  Grows /\ Casts(m)
<1> USE DEF Follower, Candidate, Leader
<1> DEFINE i == m.to
           newer == m.term > current_term[i]
           vote  == IF newer THEN None ELSE voted_for[i]
           grant == /\ m.term >= current_term[i]
                    /\ CanVote(vote, m.candidate_id)
                    /\ UpToDate(m, log[i])
           v == [term |-> current_term'[i], voter_id |-> i, vote_granted |-> grant,
                 to |-> m.candidate_id]
<1>1. /\ current_term \in [Server -> Nat] /\ role \in [Server -> {Follower, Candidate, Leader}]
      /\ voted_for \in [Server -> Server \cup {None}] /\ i \in Server /\ m.term \in Nat
      /\ m.candidate_id \in Server
  BY Zenon DEF Base, Typed, TypeOK, RequestVoteMsg
<1>2. /\ UNCHANGED <<log, requestVotes, appendEntries, appendResponses>>
      /\ voted_for' = [voted_for EXCEPT ![i] = IF grant THEN m.candidate_id ELSE vote]
      /\ voteResponses' = voteResponses \cup Sent(i, {v})
  BY DEF HandleRequestVote
<1>3. \/ /\ newer /\ current_term' = [current_term EXCEPT ![i] = m.term]
         /\ role' = [role EXCEPT ![i] = Follower]
      \/ ~newer /\ UNCHANGED <<current_term, role>>
  BY DEF HandleRequestVote, AdoptTerm
<1>4. NoNewLeader /\ NoNewCandidate
  BY <1>1, <1>3 DEF NoNewLeader, NoNewCandidate
<1>5. \A w \in voteResponses' \ voteResponses : w = v
  BY <1>2 DEF Sent
<1>6. grant => current_term'[i] = m.term
  BY <1>1, <1>3
<1>7. grant /\ m.term = current_term[i] => voted_for[i] \in {None, m.candidate_id}
  BY <1>1 DEF CanVote
<1>8. Casts(m)
  <2>1. /\ v.voter_id = i /\ v.term = current_term'[i] /\ v.to = m.candidate_id
        /\ v.vote_granted => grant
    OBVIOUS
  <2> HIDE DEF v
  <2>2. v.vote_granted =>
          /\ v.voter_id = m.to /\ v.term = m.term /\ v.to = m.candidate_id
          /\ m.term >= current_term[m.to]
          /\ m.term = current_term[m.to] => voted_for[m.to] \in {None, m.candidate_id}
          /\ UpToDate(m, log[m.to])
    BY <1>6, <1>7, <2>1
  <2>3. QED
    BY <1>2, <1>4, <1>5, <2>2 DEF Casts
<1>9. ASSUME NEW j \in Server
      PROVE  /\ current_term[j] <= current_term'[j]
             /\ current_term'[j] = current_term[j] =>
                  /\ role'[j] = Candidate => role[j] = Candidate
                  /\ voted_for[j] = j => voted_for'[j] = j
  <2>1. CASE j # i
    BY <1>1, <1>2, <1>3, <2>1
  <2>2. CASE j = i
    <3>1. current_term[i] <= current_term'[i]
          /\ (current_term'[i] = current_term[i] => ~newer /\ role'[i] = role[i])
      BY <1>1, <1>3
    <3>2. ~newer /\ voted_for[i] = i => voted_for'[i] = i
      <4>1. ASSUME ~newer, voted_for[i] = i PROVE voted_for'[i] = i
        <5>1. vote = i
          BY <4>1
        <5>2. grant => m.candidate_id = i
          BY <1>1, <5>1, ServerFinite DEF CanVote
        <5>3. QED
          BY <1>1, <1>2, <5>1, <5>2
      <4>2. QED
        BY <4>1
    <3>3. QED
      BY <2>2, <3>1, <3>2
  <2>3. QED
    BY <2>1, <2>2
<1>10. QED
  BY <1>2, <1>8, <1>9 DEF Grows
\* A node that becomes a follower, in its term or a later one, and touches no log.
LEMMA RetireShape ==
    ASSUME Base, NEW i \in Server, NEW t \in Nat, t >= current_term[i], NEW w,
           current_term' = [current_term EXCEPT ![i] = t],
           role' = [role EXCEPT ![i] = Follower],
           voted_for' = [voted_for EXCEPT ![i] = w],
           t = current_term[i] => w = voted_for[i],
           UNCHANGED <<log, requestVotes, voteResponses, appendEntries>>,
           appendResponses \subseteq appendResponses',
           \A a \in appendResponses' \ appendResponses :
              ~a.success /\ \E m \in appendEntries : a.follower_id = m.to /\ a.to = m.leader_id
    PROVE  Grows /\ Rests
<1> USE DEF Follower, Candidate, Leader
<1>1. /\ current_term \in [Server -> Nat] /\ role \in [Server -> {Follower, Candidate, Leader}]
      /\ voted_for \in [Server -> Server \cup {None}]
  BY DEF Base, Typed, TypeOK
<1>2. \A j \in Server :
         /\ current_term[j] <= current_term'[j]
         /\ current_term'[j] = current_term[j] =>
              /\ role'[j] = Candidate => role[j] = Candidate
              /\ voted_for[j] = j => voted_for'[j] = j
  BY <1>1
<1>3. NoNewLeader /\ NoNewCandidate
  BY <1>1 DEF NoNewLeader, NoNewCandidate
<1>4. QED
  BY <1>2, <1>3 DEF Grows, Rests

LEMMA HandleVoteResponseShape ==
    ASSUME Base, NEW m \in voteResponses, HandleVoteResponse(m)
    PROVE  Grows /\ (Rests \/ Wins(m.to))
<1> USE DEF Follower, Candidate, Leader
<1> DEFINE i == m.to
           votes == votes_received[i] \cup (IF m.vote_granted THEN {m.voter_id} ELSE {})
<1>1. /\ current_term \in [Server -> Nat] /\ role \in [Server -> {Follower, Candidate, Leader}]
      /\ voted_for \in [Server -> Server \cup {None}] /\ votes_received \in [Server -> SUBSET Server]
      /\ i \in Server /\ m.term \in Nat /\ m.voter_id \in Server
  BY Zenon DEF Base, Typed, TypeOK, VoteResponseMsg
<1>2. UNCHANGED <<log, requestVotes, voteResponses, appendResponses>>
  BY DEF HandleVoteResponse
<1>3. CASE m.term > current_term[i] /\ StepDown(i, m.term) /\ UNCHANGED appendEntries
  <2>1. /\ current_term' = [current_term EXCEPT ![i] = m.term]
        /\ role' = [role EXCEPT ![i] = Follower]
        /\ voted_for' = [voted_for EXCEPT ![i] = None]
        /\ m.term >= current_term[i] /\ m.term # current_term[i]
    BY <1>1, <1>3 DEF StepDown, AdoptTerm
  <2>2. QED
    BY <1>1, <1>2, <1>3, <2>1, RetireShape, Zenon
<1>4. CASE UNCHANGED <<termVars, role, appendEntries>>
  BY <1>2, <1>4, SameTermsGrow DEF Rests, termVars
<1>5. CASE /\ m.term = current_term[i] /\ role[i] = Candidate
           /\ Cardinality(votes) >= Majority(i) /\ BecomeLeader(i) /\ UNCHANGED termVars
  <2>1. UNCHANGED <<current_term, voted_for>> /\ role' = [role EXCEPT ![i] = Leader]
    BY <1>5 DEF termVars, BecomeLeader
  <2>2. NewAppends(i, log[i]) /\ appendEntries \subseteq appendEntries'
    BY <1>1, <1>5, <2>1, BecomeLeaderAppends
  <2>3. Elected(i, current_term[i])
    <3>1. votes \in SUBSET Server
      BY <1>1
    <3>2. IsQuorum(votes)
      BY <1>1, <1>5, MajorityOfCluster DEF Base, ElectionInv, IsQuorum
    <3>3. \A v \in votes_received[i] : v # i =>
             \E n \in voteResponses : /\ n.vote_granted /\ n.voter_id = v
                                      /\ n.term = current_term[i] /\ n.to = i
      BY <1>1, <1>5 DEF Base, ElectionInv, VoteInv, VotesCounted
    <3>4. votes \subseteq Voters(i, current_term[i])
      BY <1>1, <1>5, <3>3 DEF Voters
    <3>5. QED
      BY <1>1, <3>1, <3>2, <3>4, VotersServer, LargerQuorum DEF Elected
  <2>4. Wins(i)
    BY <1>2, <1>5, <2>1, <2>2, <2>3 DEF Wins
  <2>5. \A j \in Server :
           /\ current_term[j] <= current_term'[j]
           /\ role'[j] = Candidate => role[j] = Candidate
    BY <1>1, <2>1
  <2>6. QED
    BY <1>2, <2>1, <2>2, <2>4, <2>5 DEF Grows
<1>6. QED
  BY <1>3, <1>4, <1>5 DEF HandleVoteResponse

LEMMA HandleAppendEntriesShape ==
    ASSUME Base, NEW m \in appendEntries, HandleAppendEntries(m)
    PROVE  Grows /\ (Rests \/ Receives(m))
<1> USE DEF Follower, Candidate, Leader
<1> DEFINE i == m.to
<1>1. /\ current_term \in [Server -> Nat] /\ role \in [Server -> {Follower, Candidate, Leader}]
      /\ voted_for \in [Server -> Server \cup {None}]
      /\ i \in Server /\ m.term \in Nat
  BY Zenon DEF Base, Typed, TypeOK, AppendEntriesMsg
<1>2. UNCHANGED <<requestVotes, voteResponses, appendEntries>>
  BY Zenon DEF HandleAppendEntries
<1>3. ASSUME NEW t, NEW ok, NEW k, AppendReply(m, t, ok, k)
      PROVE  /\ appendResponses \subseteq appendResponses'
             /\ \A a \in appendResponses' \ appendResponses :
                   /\ a.term = t /\ a.follower_id = m.to /\ a.to = m.leader_id
                   /\ a.match_index = k /\ a.success = ok
  BY <1>3 DEF AppendReply, Sent
<1>4. CASE /\ m.term < current_term[i]
           /\ AppendReply(m, current_term[i], FALSE, Len(log[i]))
           /\ UNCHANGED <<termVars, role, leader_id, log, stateVars, leaderVars, clientVars>>
  <2>1. UNCHANGED <<current_term, voted_for, role, log>>
    BY <1>4 DEF termVars
  <2>2. /\ appendResponses \subseteq appendResponses'
        /\ \A a \in appendResponses' \ appendResponses :
              ~a.success /\ a.follower_id = m.to /\ a.to = m.leader_id
    BY <1>3, <1>4, Zenon
  <2>3. Grows /\ NoNewLeader /\ NoNewCandidate
    BY <1>2, <2>1, <2>2, SameTermsGrow
  <2>4. QED
    BY <1>2, <2>1, <2>2, <2>3 DEF Rests
<1>5. CASE /\ m.term >= current_term[i]
           /\ current_term' = [current_term EXCEPT ![i] = m.term]
           /\ voted_for' = [voted_for EXCEPT ![i] = IF m.term > current_term[i] THEN None ELSE @]
           /\ role' = [role EXCEPT ![i] = Follower]
           /\ IF PrevMatches(m, log[i])
              THEN /\ log' = [log EXCEPT ![i] = MergedLog(@, m.prev_log_index, m.entries)]
                   /\ AppendReply(m, m.term, TRUE, m.prev_log_index + Len(m.entries))
              ELSE /\ AppendReply(m, m.term, FALSE, Len(log[i]))
                   /\ UNCHANGED log
  <2> DEFINE w == IF m.term > current_term[i] THEN None ELSE voted_for[i]
  <2>1. /\ voted_for' = [voted_for EXCEPT ![i] = w]
        /\ m.term = current_term[i] => w = voted_for[i]
    BY <1>1, <1>5
  <2>2. CASE ~PrevMatches(m, log[i])
    <3>1. /\ appendResponses \subseteq appendResponses'
          /\ \A a \in appendResponses' \ appendResponses :
                ~a.success /\ a.follower_id = m.to /\ a.to = m.leader_id
      BY <1>3, <1>5, <2>2, Zenon
    <3>2. UNCHANGED log
      BY <1>5, <2>2
    <3>3. \A a \in appendResponses' \ appendResponses :
             ~a.success /\ \E n \in appendEntries : a.follower_id = n.to /\ a.to = n.leader_id
      BY <3>1
    <3>4. /\ m.term >= current_term[i]
          /\ current_term' = [current_term EXCEPT ![i] = m.term]
          /\ role' = [role EXCEPT ![i] = Follower]
      BY <1>5
    <3>5. UNCHANGED <<log, requestVotes, voteResponses, appendEntries>>
      BY <1>2, <3>2
    <3> HIDE DEF w, i
    <3>6. Grows /\ Rests
      BY <1>1, <2>1, <3>1, <3>3, <3>4, <3>5, RetireShape, Zenon
    <3>7. QED
      BY <3>6
  <2>3. CASE PrevMatches(m, log[i])
    <3>1. /\ appendResponses \subseteq appendResponses'
          /\ \A a \in appendResponses' \ appendResponses :
                /\ a.term = m.term /\ a.follower_id = m.to /\ a.to = m.leader_id
                /\ a.match_index = LastIndex(m)
      <4>1. AppendReply(m, m.term, TRUE, LastIndex(m))
        BY <1>5, <2>3, Zenon DEF LastIndex
      <4>2. QED
        BY <4>1 DEF AppendReply, Sent
    <3>2. log' = [log EXCEPT ![i] = MergedLog(@, m.prev_log_index, m.entries)]
      BY <1>5, <2>3
    <3>3. Receives(m)
      BY <1>2, <1>5, <2>3, <3>1, <3>2 DEF Receives
    <3>4. \A j \in Server :
             /\ current_term[j] <= current_term'[j]
             /\ role'[j] = Candidate => role[j] = Candidate
      BY <1>1, <1>5
    <3>5. \A j \in Server : current_term'[j] = current_term[j] /\ voted_for[j] = j
             => voted_for'[j] = j
      <4> HIDE DEF w
      <4>1. QED
        BY <1>1, <1>5, <2>1
    <3>6. QED
      BY <1>2, <3>1, <3>3, <3>4, <3>5 DEF Grows
  <2>4. QED
    BY <2>2, <2>3
<1>6. QED
  BY <1>4, <1>5, Zenon DEF HandleAppendEntries

LEMMA HandleAppendResponseShape ==
    ASSUME Base, NEW m \in appendResponses, m.follower_id # m.to, HandleAppendResponse(m)
    PROVE  Grows /\ (Rests \/ Ships(m.to))
<1> USE DEF Follower, Candidate, Leader
<1> DEFINE i == m.to
           p == m.follower_id
           next == [next_index[i] EXCEPT ![p] = StepBack(@)]
<1>1. /\ current_term \in [Server -> Nat] /\ role \in [Server -> {Follower, Candidate, Leader}]
      /\ voted_for \in [Server -> Server \cup {None}]
      /\ i \in Server /\ p \in Server /\ m.term \in Nat
  BY Zenon DEF Base, Typed, TypeOK, AppendResponseMsg
<1>2. UNCHANGED <<requestVotes, voteResponses, appendResponses>>
  BY DEF HandleAppendResponse
<1>3. CASE m.term > current_term[i] /\ StepDown(i, m.term) /\ UNCHANGED <<log, appendEntries>>
  <2>1. /\ current_term' = [current_term EXCEPT ![i] = m.term]
        /\ role' = [role EXCEPT ![i] = Follower]
        /\ voted_for' = [voted_for EXCEPT ![i] = None]
        /\ m.term >= current_term[i] /\ m.term # current_term[i]
    BY <1>1, <1>3 DEF StepDown, AdoptTerm
  <2>2. QED
    BY <1>1, <1>2, <1>3, <2>1, RetireShape, Zenon
<1>4. CASE UNCHANGED <<termVars, role, log, appendEntries>>
  BY <1>2, <1>4, SameTermsGrow DEF Rests, termVars
<1>5. CASE /\ role[i] = Leader /\ UNCHANGED <<termVars, role, log>>
           /\ SendAppends(i, {p}, next)
  <2>1. UNCHANGED <<current_term, voted_for, role, log>>
    BY <1>5 DEF termVars
  <2>2. NewAppends(i, log'[i]) /\ appendEntries \subseteq appendEntries'
    <3>1. {p} \in SUBSET (Server \ {i})
      BY <1>1
    <3> HIDE DEF next
    <3>2. QED
      BY <1>1, <1>5, <3>1, SendAppendsAppends
  <2>3. Ships(i)
    BY <1>2, <1>5, <2>1, <2>2 DEF Ships
  <2>4. QED
    BY <1>2, <2>1, <2>2, <2>3, SameTermsGrow
<1>6. QED
  BY <1>3, <1>4, <1>5 DEF HandleAppendResponse
\* Every step has one of the shapes.
LEMMA StepShape ==
    ASSUME Base, RepliesFromOthers, [Next]_vars
    PROVE  Grows /\ Shape
<1>1. ASSUME NEW i \in Server, StartElection(i) PROVE Grows /\ Shape
  BY <1>1, StartElectionShape DEF Shape
<1>2. ASSUME NEW i \in Server, SendHeartbeats(i) PROVE Grows /\ Shape
  <2>1. /\ role[i] = Leader
        /\ UNCHANGED <<current_term, voted_for, role, log, requestVotes, voteResponses,
                       appendResponses>>
        /\ SendAppends(i, peers[i], next_index[i])
    BY <1>2 DEF SendHeartbeats, termVars
  <2>2. peers[i] \in SUBSET (Server \ {i})
    BY DEF Base, ElectionInv, CommandsOnly
  <2>3. NewAppends(i, log'[i]) /\ appendEntries \subseteq appendEntries'
    BY <2>1, <2>2, SendAppendsAppends
  <2>4. Ships(i)
    BY <2>1, <2>3 DEF Ships
  <2>5. QED
    BY <2>1, <2>3, <2>4, SameTermsGrow DEF Shape
<1>3. ASSUME NEW i \in Server, Restart(i) PROVE Grows /\ Shape
  <2>1. /\ UNCHANGED <<current_term, voted_for, log, requestVotes, voteResponses, appendEntries>>
        /\ appendResponses' = appendResponses
        /\ role' = [role EXCEPT ![i] = Follower]
    BY <1>3 DEF Restart, termVars, raftMsgs
  <2>2. /\ current_term \in [Server -> Nat] /\ voted_for \in [Server -> Server \cup {None}]
        /\ current_term[i] \in Nat /\ current_term[i] >= current_term[i]
    BY DEF Base, Typed, TypeOK
  <2>3. /\ current_term' = [current_term EXCEPT ![i] = current_term[i]]
        /\ voted_for' = [voted_for EXCEPT ![i] = voted_for[i]]
    BY <2>1, <2>2
  <2>4. Grows /\ Rests
    BY <2>1, <2>2, <2>3, RetireShape, Zenon
  <2>5. QED
    BY <2>4 DEF Shape
<1>4. ASSUME NEW m \in requestVotes, HandleRequestVote(m) PROVE Grows /\ Shape
  BY <1>4, HandleRequestVoteShape DEF Shape
<1>5. ASSUME NEW m \in voteResponses, HandleVoteResponse(m) PROVE Grows /\ Shape
  <2>1. m.to \in Server
    BY DEF Base, Typed, TypeOK, VoteResponseMsg
  <2>2. QED
    BY <1>5, <2>1, HandleVoteResponseShape DEF Shape
<1>6. ASSUME NEW m \in appendEntries, HandleAppendEntries(m) PROVE Grows /\ Shape
  BY <1>6, HandleAppendEntriesShape DEF Shape
<1>7. ASSUME NEW m \in appendResponses, HandleAppendResponse(m) PROVE Grows /\ Shape
  <2>1. m.to \in Server /\ m.follower_id # m.to
    BY DEF Base, Typed, TypeOK, AppendResponseMsg, RepliesFromOthers
  <2>2. QED
    BY <1>7, <2>1, HandleAppendResponseShape DEF Shape
<1>8. ASSUME NEW i \in Server, NEW payload \in Payload, NEW pending, role[i] = Leader,
             AppendEntry(i, payload, pending)
      PROVE  Grows /\ Shape
  <2> DEFINE e == [term |-> current_term[i], payload |-> payload]
  <2>1. e \in Entry
    BY DEF Base, Typed, TypeOK, Entry
  <2>2. Grows /\ Extends(i, e)
    BY <1>8, AppendEntryShape, Zenon
  <2> HIDE DEF e
  <2>3. QED
    BY <2>1, <2>2 DEF Shape
<1>9. CASE UNCHANGED <<current_term, role, voted_for, log, raftMsgs>>
  BY <1>9, SameTermsGrow, Zenon DEF Shape, Rests, raftMsgs
<1>10. ASSUME NEW i \in Server, NEW payload \in Payload, Propose(i, payload)
       PROVE  Grows /\ Shape
  BY <1>8, <1>9, <1>10 DEF Propose, termVars
<1>11. ASSUME NEW i \in Server, NEW x \in Request, ClientRequest(i, x) PROVE Grows /\ Shape
  <2>1. CommandPayload(x) \in Payload
    BY DEF CommandPayload, Payload
  <2>2. QED
    BY <1>8, <1>9, <1>11, <2>1, Zenon DEF ClientRequest, SubmitStoreWrite, termVars
<1>12. ASSUME NEW m \in forwarded, HandleForwarded(m) PROVE Grows /\ Shape
  <2>1. m.to \in Server /\ m.payload \in Payload
    BY DEF Base, Typed, TypeOK
  <2>2. QED
    BY <1>10, <1>12, <2>1 DEF HandleForwarded
<1>13. ASSUME NEW i \in Server, NEW c \in Command, ClientCommand(i, CommandPayload(c))
       PROVE  Grows /\ Shape
  <2>1. CommandPayload(c) \in Payload
    BY DEF CommandPayload, Payload
  <2>2. QED
    BY <1>10, <1>13, <2>1 DEF ClientCommand
<1>14. CASE UNCHANGED vars
  BY <1>9, <1>14 DEF vars, raftMsgs
<1>15. QED
  BY <1>1, <1>2, <1>3, <1>4, <1>5, <1>6, <1>7, <1>11, <1>12, <1>13, <1>14
     DEF Next, NodeStep, ElectionTimeout, TimeoutMessage
-----------------------------------------------------------------------------
(* Log Matching: the invariant is kept                                     *)

LEMMA RequestStep ==
    ASSUME Base, Base', RequestInv, Grows, Shape
    PROVE  RequestInv'
<1>1. /\ current_term \in [Server -> Nat] /\ current_term' \in [Server -> Nat]
      /\ requestVotes \subseteq RequestVoteMsg /\ requestVotes' \subseteq RequestVoteMsg
      /\ voteResponses' \subseteq VoteResponseMsg
  BY DEF Base, Typed, TypeOK
<1>2. \A r \in requestVotes' : r.candidate_id \in Server /\ r.term \in Nat
  BY <1>1 DEF RequestVoteMsg
<1>3. \A v \in voteResponses : v.vote_granted => v.term <= current_term[v.voter_id]
  BY Zenon DEF Base, ElectionInv, VoteInv, VotesRemembered
<1>4. \A r \in requestVotes :
         /\ r.term <= current_term'[r.candidate_id]
         /\ r.term = current_term'[r.candidate_id]
              => voted_for'[r.candidate_id] = r.candidate_id
  <2> SUFFICES ASSUME NEW r \in requestVotes
               PROVE  /\ r.term <= current_term'[r.candidate_id]
                      /\ r.term = current_term'[r.candidate_id]
                            => voted_for'[r.candidate_id] = r.candidate_id
    OBVIOUS
  <2> DEFINE c == r.candidate_id
  <2>1. /\ c \in Server /\ r.term \in Nat /\ current_term[c] \in Nat /\ current_term'[c] \in Nat
        /\ r.term <= current_term[c] /\ current_term[c] <= current_term'[c]
    BY <1>1, <1>2 DEF Grows, RequestInv, RequestsRemembered
  <2>2. r.term = current_term[c] => voted_for[c] = c
    BY DEF RequestInv, RequestsRemembered
  <2>3. current_term'[c] = current_term[c] => (voted_for[c] = c => voted_for'[c] = c)
    BY <2>1, Zenon DEF Grows
  <2>4. QED
    BY <2>1, <2>2, <2>3
<1>5. CASE \E i \in Server : Campaigns(i)
  <2>1. PICK i \in Server : Campaigns(i)
    BY <1>5
  <2>2. \A r \in requestVotes' \ requestVotes : r.candidate_id = i /\ r.term = current_term[i] + 1
    BY <2>1 DEF Campaigns
  <2>3. /\ voteResponses' = voteResponses /\ voted_for'[i] = i
        /\ current_term'[i] = current_term[i] + 1
    BY <1>1, <2>1 DEF Campaigns
  <2>4. RequestsRemembered'
    <3>1. \A r \in requestVotes' \ requestVotes :
             /\ r.term <= current_term'[r.candidate_id]
             /\ voted_for'[r.candidate_id] = r.candidate_id
      BY <1>1, <2>2, <2>3
    <3>2. QED
      BY <1>4, <3>1 DEF RequestsRemembered
  <2>5. CandidateVotesForItself'
    <3>1. ASSUME NEW r \in requestVotes' \ requestVotes, NEW v \in voteResponses,
                 v.vote_granted, v.voter_id = r.candidate_id, v.term = r.term
          PROVE  FALSE
      BY <1>1, <1>3, <2>2, <3>1
    <3>2. QED
      BY <2>3, <3>1 DEF RequestInv, CandidateVotesForItself
  <2>6. VotesRequested'
    BY <2>3 DEF RequestInv, VotesRequested, Grows
  <2>7. QED
    BY <2>4, <2>5, <2>6 DEF RequestInv
<1>6. CASE \E m \in requestVotes : Casts(m)
  <2>1. PICK m \in requestVotes : Casts(m)
    BY <1>6
  <2>2. requestVotes' = requestVotes
    BY <2>1 DEF Casts
  <2>3. \A v \in voteResponses' \ voteResponses : v.vote_granted =>
           /\ v.voter_id = m.to /\ v.term = m.term /\ v.to = m.candidate_id
           /\ m.term >= current_term[m.to]
           /\ m.term = current_term[m.to] => voted_for[m.to] \in {None, m.candidate_id}
    BY <2>1 DEF Casts
  <2>4. RequestsRemembered'
    BY <1>4, <2>2 DEF RequestsRemembered
  <2>5. CandidateVotesForItself'
    <3>1. ASSUME NEW r \in requestVotes, NEW v \in voteResponses' \ voteResponses,
                 v.vote_granted, v.voter_id = r.candidate_id, v.term = r.term
          PROVE  v.to = r.candidate_id
      <4>1. /\ r.candidate_id = m.to /\ r.term = m.term /\ v.to = m.candidate_id
            /\ m.term >= current_term[m.to]
            /\ m.term = current_term[m.to] => voted_for[m.to] \in {None, m.candidate_id}
        BY <2>3, <3>1
      <4>2. /\ r.term <= current_term[r.candidate_id]
            /\ r.term = current_term[r.candidate_id] => voted_for[r.candidate_id] = r.candidate_id
        BY DEF RequestInv, RequestsRemembered
      <4>3. r.candidate_id \in Server /\ r.term \in Nat /\ current_term[r.candidate_id] \in Nat
        BY <1>1, <1>2, <2>2
      <4>4. m.term = current_term[m.to]
        BY <4>1, <4>2, <4>3
      <4>5. QED
        BY <4>1, <4>2, <4>3, <4>4, ServerFinite
    <3>2. QED
      BY <2>2, <3>1 DEF RequestInv, CandidateVotesForItself
  <2>6. VotesRequested'
    BY <2>2, <2>3 DEF RequestInv, VotesRequested
  <2>7. QED
    BY <2>4, <2>5, <2>6 DEF RequestInv
<1>7. CASE UNCHANGED <<requestVotes, voteResponses>>
  <2>1. RequestsRemembered'
    BY <1>4, <1>7 DEF RequestsRemembered
  <2>2. CandidateVotesForItself' /\ VotesRequested'
    BY <1>7 DEF RequestInv, CandidateVotesForItself, VotesRequested
  <2>3. QED
    BY <2>1, <2>2 DEF RequestInv
<1>8. QED
  BY <1>5, <1>6, <1>7, Zenon DEF Shape, Wins, Ships, Extends, Receives, Rests

LEMMA CellsUniqueStep ==
    ASSUME Base, Base', LogInv, Grows, Shape
    PROVE  CellsUnique' /\ CellsLed'
<1>0. Cells \subseteq Cell /\ \A c \in Cells : c.entry.term \in Nat
  BY PiecesTyped DEF Base, Typed, Cell, Entry
<1>1. \A c \in Cells : \E j \in Server : WasLeader(j, c.entry.term)'
  <2>1. ASSUME NEW c \in Cells PROVE \E j \in Server : WasLeader(j, c.entry.term)'
    <3>1. PICK j \in Server : WasLeader(j, c.entry.term)
      BY DEF LogInv, CellsLed
    <3>2. WasLeader(j, c.entry.term)'
      BY <1>0, <3>1, WasLeaderStays
    <3>3. QED
      BY <3>2
  <2>2. QED
    BY <2>1
<1>2. CASE Cells' \subseteq Cells
  BY <1>1, <1>2 DEF LogInv, CellsUnique, CellsLed
<1>3. ASSUME NEW i \in Server, NEW e \in Entry, Extends(i, e), Cells' = Cells \cup {NewCell(i, e)}
      PROVE  CellsUnique' /\ CellsLed'
  <2> DEFINE new == NewCell(i, e)
  <2>1. log[i] \in Seq(Entry) /\ Len(log[i]) \in Nat /\ current_term[i] \in Nat
    BY DEF Base, Typed, TypeOK
  <2>2. new.index = Len(log[i]) + 1 /\ new.entry.term = current_term[i]
    BY <1>3, Zenon DEF NewCell, Extends
  <2>5. new.entry.term = e.term
    BY DEF NewCell
  <2> HIDE DEF new
  <2>3. ASSUME NEW c \in Cells, c.index = new.index, c.entry.term = new.entry.term PROVE FALSE
    <3>1. c \in CellsOf(LogPiece(log[i]))
      BY <1>3, <2>2, <2>3, Zenon DEF Extends, LogInv, LeaderOwnsTerm
    <3>2. c.index \in 1 .. Len(log[i])
      BY <2>1, <3>1, CellInLog
    <3>3. c.index = Len(log[i]) + 1
      BY <2>2, <2>3, Zenon
    <3>4. QED
      BY <2>1, <3>2, <3>3
  <2>4. WasLeader(i, e.term)'
    BY <1>3, <2>1, LeaderWasLeader, WasLeaderStays, Zenon DEF Extends
  <2>6. Cells' = Cells \cup {new}
    BY <1>3 DEF new
  <2>7. CellsUnique'
    BY <2>3, <2>6 DEF LogInv, CellsUnique
  <2>8. CellsLed'
    <3>1. ASSUME NEW c \in Cells', c = new PROVE \E j \in Server : WasLeader(j, c.entry.term)'
      <4>1. c.entry.term = e.term
        BY <2>5, <3>1
      <4>2. QED
        BY <2>4, <4>1
    <3>2. ASSUME NEW c \in Cells', c \in Cells PROVE \E j \in Server : WasLeader(j, c.entry.term)'
      BY <1>1, <3>2
    <3>3. QED
      BY <2>6, <3>1, <3>2 DEF CellsLed
  <2>9. QED
    BY <2>7, <2>8
<1>4. QED
  BY <1>2, <1>3, CellsStep
LEMMA LeaderOwnsTermStep ==
    ASSUME Base, Base', LogInv, Grows, Shape
    PROVE  LeaderOwnsTerm'
<1> SUFFICES ASSUME NEW j \in Server, NEW c \in Cells',
                    role'[j] = Leader, c.entry.term = current_term'[j]
             PROVE  c \in CellsOf(LogPiece(log'[j]))
  BY DEF LeaderOwnsTerm
<1>1. /\ current_term \in [Server -> Nat] /\ role \in [Server -> {Follower, Candidate, Leader}]
      /\ log \in [Server -> Seq(Entry)]
  BY Zenon DEF Base, Typed, TypeOK
<1>2. ASSUME role[j] = Leader, current_term'[j] = current_term[j], c \in Cells
      PROVE  c \in CellsOf(LogPiece(log[j]))
  BY <1>2 DEF LogInv, LeaderOwnsTerm
<1>3. ASSUME c \in Cells PROVE \E x \in Server : WasLeader(x, c.entry.term)
  BY <1>3 DEF LogInv, CellsLed
<1>4. CASE \E i \in Server : Campaigns(i)
  <2>1. PICK i \in Server : Campaigns(i)
    BY <1>4
  <2>2. c \in Cells /\ log' = log
    BY <2>1, SameCells DEF Campaigns
  <2>3. CASE j = i
    <3>1. Server = {i} /\ current_term'[i] = current_term[i] + 1
      BY <1>1, <2>1, <2>3 DEF Campaigns, Candidate, Leader
    <3>2. WasLeader(i, c.entry.term)
      BY <1>3, <2>2, <3>1
    <3>3. QED
      BY <1>1, <2>3, <3>1, <3>2 DEF WasLeader
  <2>4. CASE j # i
    <3>1. role[j] = Leader /\ current_term'[j] = current_term[j]
      BY <1>1, <2>1, <2>4 DEF Campaigns
    <3>2. QED
      BY <1>2, <2>2, <3>1
  <2>5. QED
    BY <2>3, <2>4
<1>5. CASE (\E m \in requestVotes : Casts(m)) \/ Rests
  <2>1. NoNewLeader /\ UNCHANGED <<log, appendEntries>>
    BY <1>5 DEF Casts, Rests
  <2>2. c \in Cells /\ role[j] = Leader /\ current_term'[j] = current_term[j]
    BY <2>1, SameCells DEF NoNewLeader
  <2>3. QED
    BY <1>2, <2>1, <2>2
<1>6. CASE \E i \in Server : Wins(i)
  <2>1. PICK i \in Server : Wins(i)
    BY <1>6
  <2>2. Cells' = Cells
    BY <2>1, ShippedCells DEF Wins, Grows
  <2>3. current_term' = current_term /\ log' = log
    BY <2>1 DEF Wins
  <2>4. CASE j = i
    <3>1. PICK x \in Server : WasLeader(x, current_term[i])
      BY <1>3, <2>2, <2>3, <2>4
    <3>2. x = i
      BY <2>1, <3>1, LeadersUnique DEF Wins, LogInv
    <3>3. QED
      BY <2>1, <3>1, <3>2, Zenon DEF WasLeader, Wins
  <2>5. CASE j # i
    <3>1. role[j] = Leader
      BY <1>1, <2>1, <2>5 DEF Wins
    <3>2. QED
      BY <1>2, <2>2, <2>3, <3>1
  <2>6. QED
    BY <2>4, <2>5
<1>7. CASE \E i \in Server : Ships(i)
  <2>1. Cells' = Cells /\ UNCHANGED <<current_term, role, log>>
    BY <1>7, ShippedCells DEF Ships, Grows
  <2>2. QED
    BY <1>2, <2>1
<1>8. CASE \E i \in Server : \E e \in Entry : Extends(i, e)
  <2>1. PICK i \in Server, e \in Entry : Extends(i, e)
    BY <1>8
  <2>2. UNCHANGED <<current_term, role>> /\ role[i] = Leader /\ e.term = current_term[i]
    BY <2>1, Zenon DEF Extends
  <2>3. /\ Cells' = Cells \cup {NewCell(i, e)}
        /\ CellsOf(LogPiece(log'[i])) = CellsOf(LogPiece(log[i])) \cup {NewCell(i, e)}
        /\ \A x \in Server \ {i} : log'[x] = log[x]
    BY <2>1, ExtendedCells, Zenon
  <2>4. CASE c \in Cells
    <3>1. c \in CellsOf(LogPiece(log[j]))
      BY <1>2, <2>2, <2>4, Zenon
    <3>2. QED
      BY <2>3, <3>1, Zenon
  <2>5. CASE c = NewCell(i, e)
    <3>1. c.entry.term = current_term[i]
      BY <2>2, <2>5 DEF NewCell
    <3>2. i = j
      BY <2>2, <3>1, LeaderElected, ElectedUnique DEF LogInv
    <3>3. QED
      BY <2>3, <2>5, <3>2, Zenon
  <2>6. QED
    BY <2>3, <2>4, <2>5
<1>9. CASE \E m \in appendEntries : Receives(m)
  <2>1. PICK m \in appendEntries : Receives(m)
    BY <1>9
  <2>2. c \in Cells /\ m.to \in Server /\ \A x \in Server \ {m.to} : log'[x] = log[x]
    BY <2>1, ReceivedCells, Zenon
  <2>3. j # m.to
    BY <1>1, <2>1, <2>2, Zenon DEF Receives, Follower, Leader
  <2>4. role[j] = Leader /\ current_term'[j] = current_term[j]
    BY <1>1, <2>1, <2>3, Zenon DEF Receives
  <2>5. QED
    BY <1>2, <2>2, <2>3, <2>4
<1>10. QED
  BY <1>4, <1>5, <1>6, <1>7, <1>8, <1>9, Zenon DEF Shape

LEMMA AppendsLedStep ==
    ASSUME Base, Base', LogInv, Grows, Shape
    PROVE  AppendsLed' /\ RepliesFromOthers'
<1>1. ASSUME NEW m \in appendEntries PROVE WasLeader(m.leader_id, m.term)' /\ m.leader_id # m.to
  <2>1. m.leader_id \in Server /\ m.term \in Nat
    BY Zenon DEF Base, Typed, TypeOK, AppendEntriesMsg
  <2>2. WasLeader(m.leader_id, m.term) /\ m.leader_id # m.to
    BY DEF LogInv, AppendsLed
  <2>3. QED
    BY <2>1, <2>2, WasLeaderStays
<1>2. (Base => \A i \in Server : role[i] = Leader => WasLeader(i, current_term[i]))'
  BY LeaderWasLeader, PTL
<1>3. ASSUME NEW m \in appendEntries' \ appendEntries
      PROVE  WasLeader(m.leader_id, m.term)' /\ m.leader_id # m.to
  BY <1>2, SenderLeads, Zenon DEF WasLeader
<1>4. AppendsLed'
  BY <1>1, <1>3 DEF AppendsLed
<1>5. ASSUME NEW a \in appendResponses' \ appendResponses PROVE a.follower_id # a.to
  <2>1. \E m \in appendEntries : a.follower_id = m.to /\ a.to = m.leader_id
    BY <1>5, Zenon DEF Shape, Campaigns, Casts, Wins, Ships, Extends, Receives, Rests
  <2>2. QED
    BY <1>1, <2>1
<1>6. RepliesFromOthers'
  BY <1>5 DEF RepliesFromOthers, LogInv
<1>7. QED
  BY <1>4, <1>6
\* The leader a node knows after a step.
LEMMA HintStep ==
    ASSUME Base, [Next]_vars, NEW j \in Server
    PROVE  \/ leader_id'[j] = None
           \/ leader_id'[j] = leader_id[j] /\ current_term'[j] = current_term[j]
           \/ leader_id'[j] = j /\ role'[j] = Leader
           \/ \E m \in appendEntries : leader_id'[j] = m.leader_id /\ current_term'[j] = m.term
<1> DEFINE Kept  == leader_id'[j] = leader_id[j] /\ current_term'[j] = current_term[j]
           Leads == leader_id'[j] = j /\ role'[j] = Leader
<1>1. /\ leader_id \in [Server -> Server \cup {None}] /\ current_term \in [Server -> Nat]
      /\ role \in [Server -> {Follower, Candidate, Leader}]
  BY DEF Base, Typed, TypeOK
<1>2. ASSUME NEW i \in Server, BecomeLeader(i), \A x \in Server \ {i} : current_term'[x] = current_term[x]
      PROVE  Kept \/ Leads
  BY <1>1, <1>2, Zenon DEF BecomeLeader
<1>3. ASSUME NEW i \in Server, NEW t, AdoptTerm(i, t)
      PROVE  Kept \/ leader_id'[j] = None
  BY <1>1, <1>3 DEF AdoptTerm
<1>4. ASSUME NEW i \in Server, StartElection(i)
      PROVE  leader_id'[j] = None \/ Kept \/ Leads
  <2>1. \A x \in Server \ {i} : current_term'[x] = current_term[x]
    BY <1>1, <1>4, Zenon DEF StartElection
  <2>2. BecomeLeader(i) \/ leader_id' = [leader_id EXCEPT ![i] = None]
    BY <1>4, Zenon DEF StartElection
  <2>3. QED
    BY <1>1, <1>2, <2>1, <2>2
<1>5. ASSUME NEW m \in requestVotes, HandleRequestVote(m)
      PROVE  leader_id'[j] = None \/ Kept
  <2>1. m.to \in Server
    BY DEF Base, Typed, TypeOK, RequestVoteMsg
  <2>2. AdoptTerm(m.to, m.term) \/ UNCHANGED <<current_term, leader_id>>
    BY <1>5, Zenon DEF HandleRequestVote
  <2>3. QED
    BY <1>3, <2>1, <2>2
<1>6. ASSUME NEW m \in voteResponses, HandleVoteResponse(m)
      PROVE  leader_id'[j] = None \/ Kept \/ Leads
  <2>1. m.to \in Server
    BY DEF Base, Typed, TypeOK, VoteResponseMsg
  <2>2. \/ StepDown(m.to, m.term)
        \/ UNCHANGED termVars /\ BecomeLeader(m.to)
        \/ UNCHANGED termVars /\ UNCHANGED leader_id
    BY <1>6, Zenon DEF HandleVoteResponse
  <2>3. QED
    BY <1>2, <1>3, <2>1, <2>2, Zenon DEF StepDown, termVars
<1>7. ASSUME NEW m \in appendEntries, HandleAppendEntries(m)
      PROVE  Kept \/ (leader_id'[j] = m.leader_id /\ current_term'[j] = m.term)
  <2>1. m.to \in Server
    BY DEF Base, Typed, TypeOK, AppendEntriesMsg
  <2>2. \/ UNCHANGED <<termVars, leader_id>>
        \/ /\ current_term' = [current_term EXCEPT ![m.to] = m.term]
           /\ leader_id' = [leader_id EXCEPT ![m.to] = m.leader_id]
    BY <1>7, Zenon DEF HandleAppendEntries
  <2>3. QED
    BY <1>1, <2>1, <2>2 DEF termVars
<1>8. ASSUME NEW m \in appendResponses, HandleAppendResponse(m)
      PROVE  leader_id'[j] = None \/ Kept
  <2>1. m.to \in Server
    BY DEF Base, Typed, TypeOK, AppendResponseMsg
  <2>2. StepDown(m.to, m.term) \/ UNCHANGED <<termVars, leader_id>>
    BY <1>8, Zenon DEF HandleAppendResponse
  <2>3. QED
    BY <1>3, <2>1, <2>2, Zenon DEF StepDown, termVars
<1>9. ASSUME NEW i \in Server, NEW payload, Propose(i, payload) PROVE Kept
  BY <1>9, Zenon DEF Propose, AppendEntry, termVars
<1>10. ASSUME NEW i \in Server, NEW x, SubmitStoreWrite(i, x) PROVE Kept
  BY <1>10, Zenon DEF SubmitStoreWrite, AppendEntry, termVars
<1>11. ASSUME NEW i \in Server, SendHeartbeats(i) \/ Restart(i)
       PROVE  leader_id'[j] = None \/ Kept
  BY <1>1, <1>11, Zenon DEF SendHeartbeats, Restart, termVars
<1>12. forwarded \subseteq [to : Server, payload : Payload]
  BY DEF Base, Typed, TypeOK
<1>13. CASE UNCHANGED vars
  BY <1>13, Zenon DEF vars
<1>14. CASE NodeStep
  <2>1. ASSUME NEW m \in forwarded, HandleForwarded(m) PROVE Kept
    BY <1>9, <1>12, <2>1, Zenon DEF HandleForwarded
  <2>2. QED
    BY <1>4, <1>5, <1>6, <1>7, <1>8, <1>11, <1>14, <2>1, Zenon
       DEF NodeStep, ElectionTimeout, TimeoutMessage
<1>15. CASE \E i \in Server : \E c \in Command : ClientCommand(i, CommandPayload(c))
  BY <1>9, <1>15, Zenon DEF ClientCommand
<1>16. CASE \E i \in Server : \E x \in Request : ClientRequest(i, x)
  BY <1>10, <1>16 DEF ClientRequest
<1>17. QED
  BY <1>13, <1>14, <1>15, <1>16, Zenon DEF Next

LEMMA HintLedStep ==
    ASSUME Base, Base', LogInv, Grows, [Next]_vars
    PROVE  HintLed'
<1> SUFFICES ASSUME NEW j \in Server, leader_id'[j] # None
             PROVE  WasLeader(leader_id[j], current_term[j])'
  BY DEF HintLed
<1>1. /\ leader_id \in [Server -> Server \cup {None}] /\ current_term \in [Server -> Nat]
      /\ leader_id' \in [Server -> Server \cup {None}]
  BY Zenon DEF Base, Typed, TypeOK
<1>2. CASE leader_id'[j] = leader_id[j] /\ current_term'[j] = current_term[j]
  <2>1. PICK h \in Server, t \in Nat : h = leader_id[j] /\ t = current_term[j]
    BY <1>1, <1>2
  <2>2. WasLeader(h, t)
    BY <1>2, <2>1 DEF LogInv, HintLed
  <2>3. WasLeader(h, t)'
    BY <2>2, WasLeaderStays
  <2>4. QED
    BY <1>2, <2>1, <2>3, Zenon DEF WasLeader, Elected, Voters
<1>3. CASE leader_id'[j] = j /\ role'[j] = Leader
  <2>1. (Base => \A i \in Server : role[i] = Leader => WasLeader(i, current_term[i]))'
    BY LeaderWasLeader, PTL
  <2>2. WasLeader(j, current_term[j])'
    BY <1>3, <2>1, Zenon
  <2>3. QED
    BY <1>3, <2>2, Zenon DEF WasLeader, Elected, Voters
<1>4. CASE \E m \in appendEntries : leader_id'[j] = m.leader_id /\ current_term'[j] = m.term
  <2>1. PICK m \in appendEntries : leader_id'[j] = m.leader_id /\ current_term'[j] = m.term
    BY <1>4
  <2>2. m.leader_id \in Server /\ m.term \in Nat /\ WasLeader(m.leader_id, m.term)
    BY Zenon DEF LogInv, AppendsLed, Base, Typed, TypeOK, AppendEntriesMsg
  <2>3. WasLeader(m.leader_id, m.term)'
    BY <2>2, WasLeaderStays, Zenon
  <2>4. QED
    BY <2>1, <2>3, Zenon DEF WasLeader, Elected, Voters
<1>5. QED
  BY <1>2, <1>3, <1>4, HintStep, Zenon

\* The invariant holds initially and is kept by every step.
LEMMA LogInvInit == Init => LogInv
<1> SUFFICES ASSUME Init PROVE LogInv
  OBVIOUS
<1>1. /\ requestVotes = {} /\ voteResponses = {} /\ appendEntries = {} /\ appendResponses = {}
      /\ \A i \in Server : log[i] = << >> /\ leader_id[i] = None
  BY DEF Init
<1>2. \A i \in Server : CellsOf(LogPiece(log[i])) = {}
  <2>1. << >> \in Seq(Entry) /\ Len(<< >>) = 0
    OBVIOUS
  <2>2. CellsOf(LogPiece(<< >>)) = {}
    <3>1. 1 .. Len(<< >>) = {}
      BY <2>1
    <3>2. ASSUME NEW c \in CellsOf(LogPiece(<< >>)) PROVE FALSE
      <4>1. c.index \in 1 .. Len(<< >>)
        BY <2>1, CellInLog, Zenon
      <4>2. QED
        BY <3>1, <4>1
    <3>3. QED
      BY <3>2
  <2>3. QED
    BY <1>1, <2>2
<1>3. Cells = {}
  BY <1>1, <1>2, CellOrigin
<1>4. QED
  BY <1>1, <1>3, Zenon
     DEF LogInv, RequestInv, RequestsRemembered, CandidateVotesForItself, VotesRequested,
         CellsUnique, CellsLed, LeaderOwnsTerm, AppendsLed, RepliesFromOthers, HintLed

LEMMA LogInvStep ==
    ASSUME Base, Base', LogInv, [Next]_vars
    PROVE  LogInv'
<1>1. Grows /\ Shape
  BY StepShape DEF LogInv
<1>2. RequestInv'
  BY <1>1, RequestStep DEF LogInv
<1>3. CellsUnique' /\ CellsLed' /\ LeaderOwnsTerm'
  BY <1>1, CellsUniqueStep, LeaderOwnsTermStep
<1>4. AppendsLed' /\ RepliesFromOthers' /\ HintLed'
  BY <1>1, AppendsLedStep, HintLedStep
<1>5. QED
  BY <1>2, <1>3, <1>4 DEF LogInv

LEMMA LogInvMatching == Base /\ LogInv => LogMatching
<1> SUFFICES ASSUME Base, LogInv, NEW i \in Server, NEW j \in Server, NEW k \in 1 .. Len(log[i]),
                    k <= Len(log[j]), log[i][k].term = log[j][k].term
             PROVE  \A n \in 1 .. k : log[i][n] = log[j][n]
  BY DEF LogMatching
<1>1. k \in Nat /\ k # 0
  <2>1. log[i] \in Seq(Entry)
    BY DEF Base, Typed, TypeOK
  <2>2. QED
    BY <2>1
<1>2. TermAt(log[i], k) = TermAt(log[j], k)
  BY <1>1 DEF TermAt
<1>3. QED
  BY <1>1, <1>2, LogsAgree DEF LogInv

LEMMA LogInvHints == Base /\ LogInv => LeaderHintAgreement
<1> SUFFICES ASSUME Base, LogInv, NEW i \in Server, NEW j \in Server,
                    current_term[i] = current_term[j], leader_id[i] # None, leader_id[j] # None
             PROVE  leader_id[i] = leader_id[j]
  BY DEF LeaderHintAgreement
<1>1. leader_id[i] \in Server /\ leader_id[j] \in Server
  BY DEF Base, Typed, TypeOK
<1>2. Elected(leader_id[i], current_term[i]) /\ Elected(leader_id[j], current_term[i])
  BY Zenon DEF LogInv, HintLed, WasLeader
<1>3. QED
  BY <1>1, <1>2, ElectedUnique DEF LogInv

\* A leader whose log is merged has heard of a later term: the sender of an AppendEntries of
\* the leader's own term would be a second leader of it.
LEMMA LeaderKeepsLog ==
    ASSUME Base, LogInv, Shape, NEW i \in Server, role[i] = Leader, ~Prefix(log[i], log'[i])
    PROVE  current_term'[i] > current_term[i]
<1>1. /\ current_term \in [Server -> Nat] /\ log \in [Server -> Seq(Entry)]
      /\ log[i] \in Seq(Entry)
  BY Zenon DEF Base, Typed, TypeOK
<1>2. log'[i] # log[i]
  BY <1>1 DEF Prefix
<1>3. ASSUME NEW j \in Server, NEW e \in Entry, Extends(j, e) PROVE FALSE
  <2>1. log' = [log EXCEPT ![j] = Append(@, e)]
    BY <1>3, Zenon DEF Extends
  <2>2. log'[i] = Append(log[i], e)
    BY <1>1, <1>2, <2>1, Zenon
  <2>3. QED
    BY <1>1, <2>2 DEF Prefix
<1>4. ASSUME NEW m \in appendEntries, Receives(m) PROVE current_term'[i] > current_term[i]
  <2>1. /\ log' = [log EXCEPT ![m.to] = MergedLog(@, m.prev_log_index, m.entries)]
        /\ current_term' = [current_term EXCEPT ![m.to] = m.term]
        /\ m.term >= current_term[m.to]
    BY <1>4, Zenon DEF Receives
  <2>2. i = m.to
    BY <1>1, <1>2, <2>1, Zenon
  <2>3. m.leader_id \in Server /\ m.term \in Nat
    BY Zenon DEF Base, Typed, TypeOK, AppendEntriesMsg
  <2>4. Elected(m.leader_id, m.term) /\ m.leader_id # i
    BY <2>2, Zenon DEF LogInv, AppendsLed, WasLeader
  <2>5. Elected(i, current_term[i])
    BY LeaderElected, Zenon
  <2>6. m.term # current_term[i]
    BY <2>3, <2>4, <2>5, ElectedUnique, Zenon DEF LogInv
  <2>7. QED
    BY <1>1, <2>1, <2>2, <2>3, <2>6
<1>5. QED
  BY <1>2, <1>3, <1>4, Zenon DEF Shape, Campaigns, Casts, Wins, Ships, Rests

-----------------------------------------------------------------------------
(* Progress of the followers: the invariant is kept                        *)

LEMMA AppendsFromLogStep ==
    ASSUME Base, Base', LogInv, AppendsFromLog, Grows, Shape
    PROVE  AppendsFromLog'
<1> SUFFICES ASSUME NEW m \in appendEntries', NEW i, i = m.leader_id,
                    role'[i] = Leader, current_term'[i] = m.term
             PROVE  /\ LastIndex(m) <= Len(log'[i])
                    /\ \A k \in m.prev_log_index .. LastIndex(m) :
                          TermAt(log'[i], k) = PieceTerm(m, k)
  BY Zenon DEF AppendsFromLog
<1>1. log' \in [Server -> Seq(Entry)] /\ m.leader_id \in Server
  BY Zenon DEF Base, Typed, TypeOK, AppendEntriesMsg
<1>2. CASE m \notin appendEntries
  <2>1. EndOfLog(m, log'[i])
    BY <1>2, SenderLeads
  <2>2. log'[i] \in Seq(Entry)
    BY <1>1, Zenon
  <2>3. Len(log'[i]) <= Len(log'[i])
    BY <2>2
  <2>4. QED
    BY <2>1, <2>3, Zenon DEF EndOfLog
<1>3. CASE m \in appendEntries
  <2>1. WasLeader(i, m.term)
    BY <1>3, Zenon DEF LogInv, AppendsLed
  <2>2. /\ role[i] = Leader /\ current_term[i] = m.term
        /\ LogGrows(log[i], log'[i])
    BY <1>1, <2>1, LeaderStep
  <2>3. /\ LastIndex(m) <= Len(log[i])
        /\ \A k \in m.prev_log_index .. LastIndex(m) : TermAt(log[i], k) = PieceTerm(m, k)
    BY <1>3, <2>2, Zenon DEF AppendsFromLog
  <2>4. m.prev_log_index \in Nat /\ LastIndex(m) \in Nat /\ log[i] \in Seq(Entry)
    <3>1. PieceOK(m) /\ log \in [Server -> Seq(Entry)]
      BY <1>3, PiecesTyped, Zenon DEF Base, Typed, TypeOK
    <3>2. QED
      BY <1>1, <3>1, PieceTermType, Zenon DEF PieceOK
  <2>5. log'[i] \in Seq(Entry)
    BY <1>1, Zenon
  <2>6. LastIndex(m) <= Len(log'[i])
    BY <2>2, <2>3, <2>4, <2>5, GrownTerm, Zenon
  <2>7. ASSUME NEW k \in m.prev_log_index .. LastIndex(m)
        PROVE  TermAt(log'[i], k) = PieceTerm(m, k)
    <3>1. Len(log[i]) \in Nat
      BY <2>4
    <3>2. k \in Nat /\ k <= Len(log[i])
      BY <2>3, <2>4, <3>1
    <3>3. QED
      BY <2>2, <2>3, <2>4, <2>5, <3>2, GrownTerm, ZenonT(90)
  <2>8. QED
    BY <2>6, <2>7
<1>4. QED
  BY <1>2, <1>3, Zenon

LEMMA RepliesAddressedStep ==
    ASSUME Base, Base', LogInv, RepliesAddressed, Grows, Shape
    PROVE  RepliesAddressed'
<1> SUFFICES ASSUME NEW a \in appendResponses', a.success
             PROVE  a.term <= current_term'[a.follower_id] /\ WasLeader(a.to, a.term)'
  BY DEF RepliesAddressed
<1>1. /\ current_term \in [Server -> Nat] /\ current_term' \in [Server -> Nat]
      /\ a.term \in Nat /\ a.follower_id \in Server /\ a.to \in Server
  BY Zenon DEF Base, Typed, TypeOK, AppendResponseMsg
<1>2. CASE a \in appendResponses
  <2>1. a.term <= current_term[a.follower_id] /\ WasLeader(a.to, a.term)
    BY <1>2, Zenon DEF RepliesAddressed
  <2>2. current_term[a.follower_id] <= current_term'[a.follower_id]
    BY <1>1 DEF Grows
  <2>3. a.term <= current_term'[a.follower_id]
    BY <1>1, <2>1, <2>2
  <2>4. QED
    BY <1>1, <2>1, <2>3, WasLeaderStays
<1>3. CASE a \notin appendResponses
  <2>1. PICK m \in appendEntries : /\ Receives(m) /\ a.term = m.term /\ a.follower_id = m.to
                                   /\ a.to = m.leader_id
    BY <1>3, NewReply
  <2>2. current_term'[a.follower_id] = a.term
    BY <1>1, <2>1, Zenon DEF Receives
  <2>3. WasLeader(a.to, a.term)
    BY <2>1 DEF LogInv, AppendsLed
  <2>4. a.term <= current_term'[a.follower_id]
    BY <1>1, <2>2
  <2>5. QED
    BY <1>1, <2>3, <2>4, WasLeaderStays
<1>4. QED
  BY <1>2, <1>3

\* What a follower shares with its leader, it keeps when it handles another of its messages.
LEMMA SharedStays ==
    ASSUME Base, Base', LogInv, AppendsFromLog, NEW m \in appendEntries, Receives(m),
           NEW i \in Server, role[i] = Leader, current_term[i] = m.term,
           NEW k \in Nat, k <= Len(log[i]), k <= Len(log[m.to]),
           TermAt(log[m.to], k) = TermAt(log[i], k)
    PROVE  k <= Len(log'[m.to]) /\ TermAt(log'[m.to], k) = TermAt(log[m.to], k)
<1> DEFINE q == m.to
<1>1. /\ q \in Server /\ PieceOK(m) /\ log'[q] = MergedLog(log[q], m.prev_log_index, m.entries)
      /\ log \in [Server -> Seq(Entry)] /\ log' \in [Server -> Seq(Entry)]
  BY ReceivedCells, Zenon DEF Base, Typed, TypeOK
<1>2. CASE k = 0
  <2>1. log'[q] \in Seq(Entry)
    BY <1>1, Zenon
  <2>2. 0 <= Len(log'[q])
    BY <2>1
  <2>3. QED
    BY <1>2, <2>2, Zenon DEF TermAt
<1>3. CASE k # 0
  <2>1. m.leader_id = i
    <3>1. WasLeader(m.leader_id, m.term) /\ m.leader_id \in Server
      BY Zenon DEF LogInv, AppendsLed, Base, Typed, TypeOK, AppendEntriesMsg
    <3>2. Elected(i, m.term)
      BY LeaderElected, Zenon
    <3>3. QED
      BY <3>1, <3>2, LeadersUnique, Zenon DEF LogInv
  <2>2. /\ LastIndex(m) <= Len(log[i])
        /\ \A h \in m.prev_log_index .. LastIndex(m) : TermAt(log[i], h) = PieceTerm(m, h)
    BY <2>1, Zenon DEF AppendsFromLog
  <2>3. \A h \in 0 .. k : TermAt(log[q], h) = TermAt(log[i], h)
    BY <1>1, LogsAgree, Zenon DEF LogInv
  <2>4. m.prev_log_index \in Nat /\ LastIndex(m) \in Nat
    BY <1>1, PieceTermType, Zenon DEF PieceOK
  <2>5. \A h \in m.prev_log_index + 1 .. LastIndex(m) : h <= k => TermAt(log[q], h) = PieceTerm(m, h)
    <3>1. \A h \in m.prev_log_index + 1 .. LastIndex(m) :
             h \in m.prev_log_index .. LastIndex(m) /\ (h <= k => h \in 0 .. k)
      BY <2>4
    <3>2. QED
      BY <2>2, <2>3, <3>1, Zenon
  <2>6. PrevMatches(m, log[q]) /\ k \in 1 .. Len(log[q]) /\ log[q] \in Seq(Entry)
    <3>1. PrevMatches(m, log[q])
      BY Zenon DEF Receives
    <3>2. log[q] \in Seq(Entry)
      BY <1>1, Zenon
    <3>3. k \in 1 .. Len(log[q])
      BY <1>3, <3>2
    <3>4. QED
      BY <3>1, <3>2, <3>3, Zenon
  <2>7. k <= Len(log'[q]) /\ log'[q][k] = log[q][k]
    <3>1. /\ k <= Len(MergedLog(log[q], m.prev_log_index, m.entries))
          /\ MergedLog(log[q], m.prev_log_index, m.entries)[k] = log[q][k]
      BY <1>1, <2>5, <2>6, MergedKeeps, Zenon
    <3>2. QED
      BY <1>1, <3>1, Zenon
  <2>8. QED
    BY <1>3, <2>7, Zenon DEF TermAt
<1>4. QED
  BY <1>2, <1>3

LEMMA RepliesTruthfulStep ==
    ASSUME Base, Base', LogInv, AppendsFromLog, RepliesAddressed, RepliesTruthful, Grows, Shape
    PROVE  RepliesTruthful'
<1> SUFFICES ASSUME NEW a \in appendResponses', NEW i, i = a.to, NEW q, q = a.follower_id,
                    a.success, role'[i] = Leader, current_term'[i] = a.term
             PROVE  /\ a.match_index <= Len(log'[i])
                    /\ current_term'[q] = a.term =>
                          /\ a.match_index <= Len(log'[q])
                          /\ TermAt(log'[q], a.match_index) = TermAt(log'[i], a.match_index)
  BY Zenon DEF RepliesTruthful
<1>1. /\ current_term \in [Server -> Nat] /\ current_term' \in [Server -> Nat]
      /\ log \in [Server -> Seq(Entry)] /\ log' \in [Server -> Seq(Entry)]
      /\ a.term \in Nat /\ q \in Server /\ i \in Server /\ a.match_index \in Nat
  BY Zenon DEF Base, Typed, TypeOK, AppendResponseMsg
<1>2. Len(log[i]) \in Nat /\ Len(log[q]) \in Nat /\ Len(log'[i]) \in Nat /\ Len(log'[q]) \in Nat
  BY <1>1
<1>3. WasLeader(i, a.term) => /\ role[i] = Leader /\ current_term[i] = a.term
                              /\ LogGrows(log[i], log'[i])
  BY <1>1, LeaderStep, Zenon
<1>4. CASE a \in appendResponses
  <2>1. a.term <= current_term[q] /\ WasLeader(i, a.term)
    BY <1>4, Zenon DEF RepliesAddressed
  <2>2. role[i] = Leader /\ current_term[i] = a.term /\ LogGrows(log[i], log'[i])
    BY <1>3, <2>1
  <2>3. /\ a.match_index <= Len(log[i])
        /\ current_term[q] = a.term => /\ a.match_index <= Len(log[q])
                                       /\ TermAt(log[q], a.match_index) = TermAt(log[i], a.match_index)
    BY <1>4, <2>2, Zenon DEF RepliesTruthful
  <2>4. a.match_index <= Len(log'[i]) /\ TermAt(log'[i], a.match_index) = TermAt(log[i], a.match_index)
    <3>1. log[i] \in Seq(Entry) /\ log'[i] \in Seq(Entry)
      BY <1>1, Zenon
    <3>2. QED
      BY <1>1, <2>2, <2>3, <3>1, GrownTerm, Zenon
  <2>5. ASSUME current_term'[q] = a.term
        PROVE  /\ a.match_index <= Len(log'[q])
               /\ TermAt(log'[q], a.match_index) = TermAt(log'[i], a.match_index)
    <3>1. current_term[q] <= current_term'[q]
      BY <1>1, Zenon DEF Grows
    <3>2. current_term[q] = a.term
      BY <1>1, <2>1, <2>5, <3>1
    <3>3. a.match_index <= Len(log[q]) /\ TermAt(log[q], a.match_index) = TermAt(log[i], a.match_index)
      BY <2>3, <3>2
    <3>4. CASE log'[q] = log[q]
      BY <2>4, <3>3, <3>4, Zenon
    <3>5. CASE \E e \in Entry : Extends(q, e)
      <4>1. PICK e \in Entry : Extends(q, e)
        BY <3>5
      <4>2. log'[q] = Append(log[q], e) /\ log[q] \in Seq(Entry)
        BY <1>1, <4>1, ExtendedCells, Zenon
      <4>3. /\ Len(log'[q]) = Len(log[q]) + 1
            /\ \A k \in 0 .. Len(log[q]) : TermAt(log'[q], k) = TermAt(log[q], k)
        <5>1. /\ Len(Append(log[q], e)) = Len(log[q]) + 1
              /\ \A k \in 0 .. Len(log[q]) : TermAt(Append(log[q], e), k) = TermAt(log[q], k)
          BY <4>2, AppendedLog, Zenon
        <5>2. QED
          BY <4>2, <5>1, Zenon
      <4>4. a.match_index \in 0 .. Len(log[q]) /\ a.match_index <= Len(log[q]) + 1
        BY <1>1, <1>2, <3>3
      <4>5. QED
        BY <2>4, <3>3, <4>3, <4>4, Zenon
    <3>6. CASE \E m \in appendEntries : Receives(m) /\ m.to = q
      <4>1. PICK m \in appendEntries : Receives(m) /\ m.to = q
        BY <3>6
      <4>2. m.term = a.term
        BY <1>1, <2>5, <4>1, Zenon DEF Receives
      <4>3. a.match_index <= Len(log'[q]) /\ TermAt(log'[q], a.match_index) = TermAt(log[q], a.match_index)
        BY <1>1, <2>2, <2>3, <3>3, <4>1, <4>2, SharedStays, Zenon
      <4>4. QED
        BY <2>4, <3>3, <4>3, Zenon
    <3>7. QED
      <4>1. CASE \E j \in Server : \E e \in Entry : Extends(j, e)
        BY <1>1, <3>4, <3>5, <4>1, ExtendedCells, Zenon
      <4>2. CASE \E m \in appendEntries : Receives(m)
        BY <1>1, <3>4, <3>6, <4>2, ReceivedCells, Zenon
      <4>3. QED
        BY <3>4, <4>1, <4>2, Zenon DEF Shape, Campaigns, Casts, Wins, Ships, Rests
  <2>6. QED
    BY <2>4, <2>5, Zenon
<1>5. CASE a \notin appendResponses
  <2>1. PICK m \in appendEntries : /\ Receives(m) /\ a.term = m.term /\ a.follower_id = m.to
                                   /\ a.to = m.leader_id /\ a.match_index = LastIndex(m)
    BY <1>5, NewReply, Zenon
  <2>2. WasLeader(i, a.term)
    BY <2>1, Zenon DEF LogInv, AppendsLed
  <2>3. role[i] = Leader /\ current_term[i] = a.term /\ LogGrows(log[i], log'[i])
    BY <1>3, <2>2
  <2>4. /\ LastIndex(m) <= Len(log[i])
        /\ \A k \in m.prev_log_index .. LastIndex(m) : TermAt(log[i], k) = PieceTerm(m, k)
    BY <2>1, <2>3, Zenon DEF AppendsFromLog
  <2>5. /\ PieceOK(m) /\ LastIndex(m) <= Len(log'[q])
        /\ \A k \in m.prev_log_index .. LastIndex(m) : TermAt(log'[q], k) = PieceTerm(m, k)
    BY <2>1, ReceivedCells, Zenon
  <2>6. LastIndex(m) \in m.prev_log_index .. LastIndex(m)
    BY <2>5, PieceBounds, Zenon
  <2>7. TermAt(log'[i], LastIndex(m)) = TermAt(log[i], LastIndex(m)) /\ LastIndex(m) <= Len(log'[i])
    <3>1. LastIndex(m) \in Nat /\ log[i] \in Seq(Entry) /\ log'[i] \in Seq(Entry)
      BY <1>1, <2>5, PieceBounds, Zenon
    <3>2. QED
      BY <2>3, <2>4, <3>1, GrownTerm, Zenon
  <2>8. QED
    BY <2>1, <2>4, <2>5, <2>6, <2>7, Zenon
<1>6. QED
  BY <1>4, <1>5, Zenon

-----------------------------------------------------------------------------
(* Progress of the followers: what a step does to next_index and           *)
(* match_index                                                             *)

Starts(i) ==
    /\ next_index' = [next_index EXCEPT ![i] =
          [p \in Server |-> IF p # i THEN Len(log[i]) + 1 ELSE next_index[i][p]]]
    /\ match_index' = [match_index EXCEPT ![i] =
          [p \in Server |-> IF p # i THEN 0 ELSE match_index[i][p]]]
    /\ \A j \in Server \ {i} :
          role'[j] = Leader => role[j] = Leader /\ current_term'[j] = current_term[j]
    /\ UNCHANGED log

Forgets(i) ==
    /\ NoNewLeader /\ role'[i] = Follower
    /\ next_index' = [next_index EXCEPT ![i] = [p \in Server |-> 0]]
    /\ match_index' = [match_index EXCEPT ![i] = [p \in Server |-> 0]]

Counts(a) ==
    /\ a.success /\ role[a.to] = Leader /\ current_term[a.to] = a.term
    /\ next_index' = [next_index EXCEPT ![a.to] =
                        [next_index[a.to] EXCEPT ![a.follower_id] = a.match_index + 1]]
    /\ match_index' = [match_index EXCEPT ![a.to] =
                        [match_index[a.to] EXCEPT ![a.follower_id] = a.match_index]]
    /\ UNCHANGED <<current_term, role, log>>

Backs(a) ==
    /\ next_index' = [next_index EXCEPT ![a.to] =
                        [next_index[a.to] EXCEPT ![a.follower_id] = StepBack(@)]]
    /\ UNCHANGED <<match_index, current_term, role, log>>

Tracks ==
    \/ NoNewLeader /\ UNCHANGED <<next_index, match_index>>
    \/ \E i \in Server : Starts(i) \/ Forgets(i)
    \/ \E a \in appendResponses : Counts(a) \/ Backs(a)

\* A node that has every peer's next_index within its log does not die in
\* make_append_entries.
LEMMA SendsSafely ==
    ASSUME NEW i \in Server, NEW ps, NEW next, SendAppends(i, ps, next),
           \A p \in ps : next[p] \in 1 .. Len(log'[i]) + 1
    PROVE  panicked' = panicked
BY Zenon DEF SendAppends

LEMMA AppendEntryTracks ==
    ASSUME Base, Base', NextInLog, NEW i \in Server, role[i] = Leader,
           NEW payload \in Payload, NEW pending, AppendEntry(i, payload, pending)
    PROVE  Tracks /\ panicked' = panicked
<1> DEFINE e == [term |-> current_term[i], payload |-> payload]
<1>1. /\ log \in [Server -> Seq(Entry)] /\ next_index \in [Server -> [Server -> Nat]]
      /\ match_index \in [Server -> [Server -> Nat]] /\ peers[i] = Server \ {i}
  BY Zenon DEF Base, Typed, TypeOK, ElectionInv, CommandsOnly
<1>2. log' = [log EXCEPT ![i] = Append(@, e)] /\ UNCHANGED <<current_term, role>>
  BY Zenon DEF AppendEntry, termVars
<1>3. NoNewLeader
  BY <1>2, Zenon DEF NoNewLeader
<1>4. CASE peers[i] = {}
  <2>1. UpdateCommitIndex(i, next_index[i], match_index[i], pending) /\ panicked' = panicked
    BY <1>4, Zenon DEF AppendEntry
  <2>2. ApplyCommittedEntries(i, next_index[i], match_index[i], pending, clientResponses)
    BY <2>1, Zenon DEF UpdateCommitIndex
  <2>3. next_index[i] \in [Server -> Nat] /\ match_index[i] \in [Server -> Nat]
    BY <1>1, Zenon
  <2>4. /\ next_index' = [next_index EXCEPT ![i] = next_index[i]]
        /\ match_index' = [match_index EXCEPT ![i] = match_index[i]]
    BY <2>2, <2>3, ApplyKeepsProgress
  <2>5. UNCHANGED <<next_index, match_index>>
    BY <1>1, <2>4, Zenon
  <2>6. QED
    BY <1>3, <2>1, <2>5, Zenon DEF Tracks
<1>5. CASE peers[i] # {}
  <2>1. SendAppends(i, peers[i], next_index[i]) /\ UNCHANGED <<next_index, match_index>>
    BY <1>5, Zenon DEF AppendEntry, leaderVars
  <2>2. \A p \in peers[i] : next_index[i][p] \in 1 .. Len(log[i]) + 1
    BY <1>1, Zenon DEF NextInLog
  <2>3. Len(log'[i]) = Len(log[i]) + 1 /\ Len(log[i]) \in Nat
    <3>1. log'[i] = Append(log[i], e) /\ log[i] \in Seq(Entry)
      BY <1>1, <1>2, Zenon
    <3>2. QED
      BY <3>1
  <2>4. ASSUME NEW p \in peers[i] PROVE next_index[i][p] \in 1 .. Len(log'[i]) + 1
    <3>1. next_index[i][p] \in 1 .. Len(log[i]) + 1
      BY <2>2, Zenon
    <3>2. QED
      BY <2>3, <3>1
  <2>5. QED
    BY <1>3, <2>1, <2>4, SendsSafely, Zenon DEF Tracks
<1>6. QED
  BY <1>4, <1>5

LEMMA HandleAppendEntriesTracks ==
    ASSUME Base, Base', NEW m \in appendEntries, HandleAppendEntries(m)
    PROVE  Tracks /\ panicked' = panicked
<1> DEFINE i == m.to
<1>1. /\ current_term \in [Server -> Nat] /\ role \in [Server -> {Follower, Candidate, Leader}]
      /\ i \in Server /\ next_index \in [Server -> [Server -> Nat]]
      /\ match_index \in [Server -> [Server -> Nat]]
  BY Zenon DEF Base, Typed, TypeOK, AppendEntriesMsg
<1>2. panicked' = panicked
  BY Zenon DEF HandleAppendEntries
<1>3. CASE UNCHANGED <<current_term, role, next_index, match_index>>
  BY <1>2, <1>3 DEF Tracks, NoNewLeader
<1>4. ASSUME role' = [role EXCEPT ![i] = Follower],
             NEW t, current_term' = [current_term EXCEPT ![i] = t]
      PROVE  NoNewLeader
  BY <1>1, <1>4 DEF NoNewLeader, Follower, Leader
<1>5. ASSUME NEW pending, NEW responses,
             ApplyCommittedEntries(i, next_index[i], match_index[i], pending, responses)
      PROVE  UNCHANGED <<next_index, match_index>>
  <2>1. next_index[i] \in [Server -> Nat] /\ match_index[i] \in [Server -> Nat]
    BY <1>1
  <2>2. /\ next_index' = [next_index EXCEPT ![i] = next_index[i]]
        /\ match_index' = [match_index EXCEPT ![i] = match_index[i]]
    BY <1>1, <1>5, <2>1, ApplyKeepsProgress, Zenon
  <2>3. QED
    BY <1>1, <2>2
<1>6. QED
  BY <1>2, <1>3, <1>4, <1>5, Zenon DEF HandleAppendEntries, Tracks, termVars, leaderVars

LEMMA HandleAppendResponseTracks ==
    ASSUME Base, Base', LogInv, ProgressInv, NEW m \in appendResponses, HandleAppendResponse(m)
    PROVE  Tracks /\ panicked' = panicked
<1> DEFINE i == m.to
           p == m.follower_id
<1>1. /\ current_term \in [Server -> Nat] /\ role \in [Server -> {Follower, Candidate, Leader}]
      /\ i \in Server /\ p \in Server /\ p # i /\ next_index \in [Server -> [Server -> Nat]]
      /\ match_index \in [Server -> [Server -> Nat]] /\ m.match_index \in Nat
      /\ log \in [Server -> Seq(Entry)]
  BY Zenon DEF Base, Typed, TypeOK, AppendResponseMsg, LogInv, RepliesFromOthers
<1>2. CASE StepDown(i, m.term) /\ UNCHANGED <<log, stateVars, leaderVars, panicked, appendEntries>>
  <2>1. /\ role' = [role EXCEPT ![i] = Follower]
        /\ current_term' = [current_term EXCEPT ![i] = m.term]
    BY <1>2, Zenon DEF StepDown, AdoptTerm
  <2>2. NoNewLeader
    BY <1>1, <2>1 DEF NoNewLeader, Follower, Leader
  <2>3. QED
    BY <1>2, <2>2, Zenon DEF Tracks, leaderVars
<1>3. CASE /\ m.term = current_term[i] /\ role[i] = Leader /\ m.success
           /\ UNCHANGED <<termVars, role, leader_id, log, panicked, appendEntries>>
           /\ UpdateCommitIndex(i, [next_index[i] EXCEPT ![p] = m.match_index + 1],
                                [match_index[i] EXCEPT ![p] = m.match_index],
                                pending_requests[i])
  <2> DEFINE next  == [next_index[i] EXCEPT ![p] = m.match_index + 1]
             match == [match_index[i] EXCEPT ![p] = m.match_index]
  <2>1. next \in [Server -> Nat] /\ match \in [Server -> Nat]
    <3>1. next_index[i] \in [Server -> Nat] /\ match_index[i] \in [Server -> Nat]
      BY <1>1, Zenon
    <3>2. m.match_index + 1 \in Nat
      BY <1>1
    <3>3. ASSUME NEW f \in [Server -> Nat], NEW n \in Nat PROVE [f EXCEPT ![p] = n] \in [Server -> Nat]
      BY Zenon
    <3>4. QED
      BY <1>1, <3>1, <3>2, <3>3, Zenon
  <2>2. ApplyCommittedEntries(i, next, match, pending_requests[i], clientResponses)
    BY <1>3, Zenon DEF UpdateCommitIndex
  <2>3. /\ next_index' = [next_index EXCEPT ![i] = next]
        /\ match_index' = [match_index EXCEPT ![i] = match]
    <3> HIDE DEF next, match
    <3>1. QED
      BY <1>1, <2>1, <2>2, ApplyKeepsProgress, Zenon
  <2>4. Counts(m)
    BY <1>3, <2>3, Zenon DEF Counts, termVars
  <2>5. QED
    BY <1>3, <2>4, Zenon DEF Tracks
<1>4. CASE /\ m.term = current_term[i] /\ role[i] = Leader
           /\ UNCHANGED <<termVars, role, leader_id, log, stateVars, match_index, clientVars>>
           /\ next_index' = [next_index EXCEPT ![i] = [next_index[i] EXCEPT ![p] = StepBack(@)]]
           /\ SendAppends(i, {p}, [next_index[i] EXCEPT ![p] = StepBack(@)])
  <2> DEFINE next == [next_index[i] EXCEPT ![p] = StepBack(@)]
  <2>1. next_index[i][p] \in 1 .. Len(log[i]) + 1
    BY <1>1, <1>4, Zenon DEF ProgressInv, NextInLog
  <2>2. next[p] = StepBack(next_index[i][p])
    BY <1>1, Zenon
  <2>3. StepBack(next_index[i][p]) \in 1 .. Len(log[i]) + 1
    <3>1. Len(log[i]) \in Nat
      BY <1>1
    <3>2. QED
      BY <2>1, <3>1 DEF StepBack
  <2>4. log' = log
    BY <1>4
  <2> HIDE DEF next
  <2>5. \A x \in {p} : next[x] \in 1 .. Len(log'[i]) + 1
    BY <2>2, <2>3, <2>4, Zenon
  <2>6. panicked' = panicked
    <3>1. SendAppends(i, {p}, next)
      BY <1>4, Zenon DEF next
    <3>2. QED
      BY <2>5, <3>1, Zenon DEF SendAppends
  <2>7. Backs(m)
    BY <1>4, Zenon DEF Backs, termVars
  <2>8. QED
    BY <2>6, <2>7, Zenon DEF Tracks
<1>5. QED
  BY <1>2, <1>3, <1>4, Zenon DEF HandleAppendResponse

LEMMA BecomeLeaderTracks ==
    ASSUME Base, NEW i \in Server, BecomeLeader(i), UNCHANGED log,
           NEW t, current_term' = [current_term EXCEPT ![i] = t]
    PROVE  Starts(i)
<1>1. /\ current_term \in [Server -> Nat] /\ role \in [Server -> {Follower, Candidate, Leader}]
      /\ peers[i] = Server \ {i}
  BY Zenon DEF Base, Typed, TypeOK, ElectionInv, CommandsOnly
<1>2. /\ role' = [role EXCEPT ![i] = Leader]
      /\ next_index' = [next_index EXCEPT ![i] =
            [p \in Server |-> IF p \in peers[i] THEN Len(log[i]) + 1 ELSE next_index[i][p]]]
      /\ match_index' = [match_index EXCEPT ![i] =
            [p \in Server |-> IF p \in peers[i] THEN 0 ELSE match_index[i][p]]]
  BY Zenon DEF BecomeLeader
<1>3. \A p \in Server : (p \in peers[i]) <=> (p # i)
  BY <1>1
<1>4. /\ [p \in Server |-> IF p \in peers[i] THEN Len(log[i]) + 1 ELSE next_index[i][p]]
            = [p \in Server |-> IF p # i THEN Len(log[i]) + 1 ELSE next_index[i][p]]
      /\ [p \in Server |-> IF p \in peers[i] THEN 0 ELSE match_index[i][p]]
            = [p \in Server |-> IF p # i THEN 0 ELSE match_index[i][p]]
  BY <1>3, Zenon
<1>5. \A j \in Server \ {i} :
         role'[j] = Leader => role[j] = Leader /\ current_term'[j] = current_term[j]
  BY <1>1, <1>2
<1>6. QED
  BY <1>2, <1>4, <1>5, Zenon DEF Starts

LEMMA TracksStep ==
    ASSUME Base, Base', LogInv, ProgressInv, [Next]_vars
    PROVE  Tracks /\ panicked' = panicked
<1>1. /\ current_term \in [Server -> Nat] /\ role \in [Server -> {Follower, Candidate, Leader}]
      /\ log \in [Server -> Seq(Entry)]
  BY Zenon DEF Base, Typed, TypeOK
<1>2. CASE UNCHANGED <<current_term, role, next_index, match_index, panicked>>
  BY <1>2 DEF Tracks, NoNewLeader
<1>3. ASSUME NEW i \in Server, NEW t, current_term' = [current_term EXCEPT ![i] = t],
             role' = [role EXCEPT ![i] = Follower] \/ role' = [role EXCEPT ![i] = Candidate]
      PROVE  NoNewLeader
  BY <1>1, <1>3 DEF NoNewLeader, Follower, Candidate, Leader
<1>4. ASSUME NEW i \in Server, StartElection(i) PROVE Tracks /\ panicked' = panicked
  <2>1. /\ current_term' = [current_term EXCEPT ![i] = @ + 1] /\ UNCHANGED <<log, panicked>>
        /\ \/ BecomeLeader(i)
           \/ role' = [role EXCEPT ![i] = Candidate] /\ UNCHANGED leaderVars
    BY <1>4, Zenon DEF StartElection
  <2>2. CASE BecomeLeader(i)
    BY <2>1, <2>2, BecomeLeaderTracks, Zenon DEF Tracks
  <2>3. CASE role' = [role EXCEPT ![i] = Candidate] /\ UNCHANGED leaderVars
    BY <1>3, <2>1, <2>3, Zenon DEF Tracks, leaderVars
  <2>4. QED
    BY <2>1, <2>2, <2>3
<1>5. ASSUME NEW i \in Server, SendHeartbeats(i) PROVE Tracks /\ panicked' = panicked
  <2>1. /\ role[i] = Leader /\ SendAppends(i, peers[i], next_index[i])
        /\ UNCHANGED <<current_term, role, next_index, match_index, log>>
    BY <1>5, Zenon DEF SendHeartbeats, termVars, leaderVars
  <2>2. \A p \in peers[i] : next_index[i][p] \in 1 .. Len(log[i]) + 1
    <3>1. peers[i] = Server \ {i}
      BY Zenon DEF Base, ElectionInv, CommandsOnly
    <3>2. QED
      BY <2>1, <3>1, Zenon DEF ProgressInv, NextInLog
  <2>3. \A p \in peers[i] : next_index[i][p] \in 1 .. Len(log'[i]) + 1
    BY <2>1, <2>2
  <2>4. panicked' = panicked
    BY <2>1, <2>3, SendsSafely
  <2>5. QED
    BY <1>2, <2>1, <2>4, Zenon
<1>6. ASSUME NEW i \in Server, Restart(i) PROVE Tracks /\ panicked' = panicked
  <2>1. /\ role' = [role EXCEPT ![i] = Follower] /\ UNCHANGED <<current_term, panicked>>
        /\ next_index' = [next_index EXCEPT ![i] = [p \in Server |-> 0]]
        /\ match_index' = [match_index EXCEPT ![i] = [p \in Server |-> 0]]
    BY <1>6, Zenon DEF Restart, termVars
  <2>2. NoNewLeader /\ role'[i] = Follower
    BY <1>1, <2>1 DEF NoNewLeader, Follower, Leader
  <2>3. QED
    BY <2>1, <2>2, Zenon DEF Tracks, Forgets
<1>7. ASSUME NEW m \in requestVotes, HandleRequestVote(m) PROVE Tracks /\ panicked' = panicked
  <2>1. m.to \in Server
    BY Zenon DEF Base, Typed, TypeOK, RequestVoteMsg
  <2>2. UNCHANGED <<next_index, match_index, panicked>>
    BY <1>7, Zenon DEF HandleRequestVote, leaderVars
  <2>3. \/ AdoptTerm(m.to, m.term)
        \/ UNCHANGED <<current_term, role>>
    BY <1>7, Zenon DEF HandleRequestVote
  <2>4. QED
    BY <1>2, <1>3, <2>1, <2>2, <2>3, Zenon DEF AdoptTerm, Tracks
<1>8. ASSUME NEW m \in voteResponses, HandleVoteResponse(m) PROVE Tracks /\ panicked' = panicked
  <2>1. m.to \in Server
    BY Zenon DEF Base, Typed, TypeOK, VoteResponseMsg
  <2>2. UNCHANGED <<log, panicked>>
    BY <1>8, Zenon DEF HandleVoteResponse
  <2>3. CASE StepDown(m.to, m.term) /\ UNCHANGED leaderVars
    BY <1>3, <2>1, <2>2, <2>3, Zenon DEF StepDown, AdoptTerm, Tracks, leaderVars
  <2>4. CASE UNCHANGED termVars /\ BecomeLeader(m.to)
    <3>1. current_term' = [current_term EXCEPT ![m.to] = current_term[m.to]]
      BY <1>1, <2>4 DEF termVars
    <3>2. QED
      BY <2>1, <2>2, <2>4, <3>1, BecomeLeaderTracks, Zenon DEF Tracks
  <2>5. CASE UNCHANGED <<termVars, role, leaderVars>>
    BY <1>2, <2>2, <2>5, Zenon DEF termVars, leaderVars
  <2>6. QED
    BY <1>8, <2>3, <2>4, <2>5, Zenon DEF HandleVoteResponse
<1>9. ASSUME NEW i \in Server, NEW payload \in Payload, Propose(i, payload)
      PROVE  Tracks /\ panicked' = panicked
  BY <1>2, <1>9, AppendEntryTracks, Zenon DEF Propose, ProgressInv, termVars, leaderVars
<1>10. ASSUME NEW i \in Server, NEW x \in Request, ClientRequest(i, x)
       PROVE  Tracks /\ panicked' = panicked
  <2>1. CommandPayload(x) \in Payload
    BY DEF CommandPayload, Payload
  <2>2. QED
    BY <1>2, <1>10, <2>1, AppendEntryTracks, Zenon
       DEF ClientRequest, SubmitStoreWrite, ProgressInv, termVars, leaderVars
<1>11. ASSUME NEW m \in forwarded, HandleForwarded(m) PROVE Tracks /\ panicked' = panicked
  <2>1. m.to \in Server /\ m.payload \in Payload
    BY Zenon DEF Base, Typed, TypeOK
  <2>2. QED
    BY <1>9, <1>11, <2>1 DEF HandleForwarded
<1>12. ASSUME NEW i \in Server, NEW c \in Command, ClientCommand(i, CommandPayload(c))
       PROVE  Tracks /\ panicked' = panicked
  <2>1. CommandPayload(c) \in Payload
    BY DEF CommandPayload, Payload
  <2>2. QED
    BY <1>9, <1>12, <2>1 DEF ClientCommand
<1>13. CASE UNCHANGED vars
  BY <1>2, <1>13, Zenon DEF vars
<1>14. QED
  BY <1>4, <1>5, <1>6, <1>7, <1>8, <1>10, <1>11, <1>12, <1>13,
     HandleAppendEntriesTracks, HandleAppendResponseTracks, Zenon
     DEF Next, NodeStep, ElectionTimeout, TimeoutMessage

LEMMA MatchFromReplyStep ==
    ASSUME Base, Base', LogInv, ProgressInv, Grows, Shape, Tracks
    PROVE  MatchFromReply'
<1> SUFFICES ASSUME NEW i \in Server, NEW p \in Server
             PROVE  /\ match_index'[i][i] = 0
                    /\ role'[i] = Leader /\ match_index'[i][p] # 0 =>
                          \E a \in appendResponses' :
                             /\ a.success /\ a.to = i /\ a.follower_id = p
                             /\ a.term = current_term'[i] /\ a.match_index = match_index'[i][p]
  BY Zenon DEF MatchFromReply, Replied
<1> DEFINE Rep(k, t) == \E a \in appendResponses' :
                               /\ a.success /\ a.to = i /\ a.follower_id = p
                               /\ a.term = t /\ a.match_index = k
<1>1. /\ match_index \in [Server -> [Server -> Nat]]
      /\ match_index[i] \in [Server -> Nat] /\ match_index[i][i] = 0
  <2>1. match_index \in [Server -> [Server -> Nat]] /\ match_index[i][i] = 0
    BY Zenon DEF Base, Typed, TypeOK, ProgressInv, MatchFromReply
  <2>2. QED
    BY <2>1
<1>2. ASSUME role[i] = Leader, match_index[i][p] # 0 PROVE Rep(match_index[i][p], current_term[i])
  <2>1. MatchFromReply /\ appendResponses \subseteq appendResponses'
    BY Zenon DEF ProgressInv, Grows
  <2>2. PICK a \in appendResponses : /\ a.success /\ a.to = i /\ a.follower_id = p
                                     /\ a.term = current_term[i] /\ a.match_index = match_index[i][p]
    <3>1. Replied(i, p, current_term[i], match_index[i][p])
      BY <1>2, <2>1, Zenon DEF MatchFromReply
    <3>2. QED
      BY <3>1, Zenon DEF Replied
  <2>3. QED
    BY <2>1, <2>2, Zenon
<1> HIDE DEF Rep
<1>3. SUFFICES /\ match_index'[i][i] = 0
               /\ role'[i] = Leader /\ match_index'[i][p] # 0
                     => Rep(match_index'[i][p], current_term'[i])
  BY DEF Rep
<1>4. CASE NoNewLeader /\ UNCHANGED <<next_index, match_index>>
  BY <1>1, <1>2, <1>4, Zenon DEF NoNewLeader
<1>5. ASSUME NEW j \in Server, Starts(j)
      PROVE  /\ match_index'[i][i] = 0
             /\ role'[i] = Leader /\ match_index'[i][p] # 0
                     => Rep(match_index'[i][p], current_term'[i])
  <2>1. match_index' = [match_index EXCEPT ![j] =
            [x \in Server |-> IF x # j THEN 0 ELSE match_index[j][x]]]
    BY <1>5, Zenon DEF Starts
  <2>2. CASE i = j
    <3>1. match_index'[i] = [x \in Server |-> IF x # i THEN 0 ELSE match_index[i][x]]
      BY <1>1, <2>1, <2>2
    <3>2. match_index'[i][p] = 0 /\ match_index'[i][i] = 0
      BY <1>1, <3>1
    <3>3. QED
      BY <3>2
  <2>3. CASE i # j
    <3>1. match_index'[i] = match_index[i]
      BY <1>1, <2>1, <2>3
    <3>2. role'[i] = Leader => role[i] = Leader /\ current_term'[i] = current_term[i]
      BY <1>5, <2>3, Zenon DEF Starts
    <3>3. QED
      BY <1>1, <1>2, <3>1, <3>2, Zenon
  <2>4. QED
    BY <2>2, <2>3, Zenon
<1>6. ASSUME NEW j \in Server, Forgets(j)
      PROVE  /\ match_index'[i][i] = 0
             /\ role'[i] = Leader /\ match_index'[i][p] # 0
                     => Rep(match_index'[i][p], current_term'[i])
  <2>1. NoNewLeader /\ match_index' = [match_index EXCEPT ![j] = [x \in Server |-> 0]]
    BY <1>6, Zenon DEF Forgets
  <2>2. CASE i = j
    BY <1>1, <2>1, <2>2, Zenon
  <2>3. CASE i # j
    <3>1. match_index'[i] = match_index[i]
      BY <1>1, <2>1, <2>3
    <3>2. QED
      BY <1>1, <1>2, <2>1, <3>1, Zenon DEF NoNewLeader
  <2>4. QED
    BY <2>2, <2>3, Zenon
<1>7. ASSUME NEW a \in appendResponses, Counts(a)
      PROVE  /\ match_index'[i][i] = 0
             /\ role'[i] = Leader /\ match_index'[i][p] # 0
                     => Rep(match_index'[i][p], current_term'[i])
  <2>1. /\ match_index' = [match_index EXCEPT ![a.to] =
                             [match_index[a.to] EXCEPT ![a.follower_id] = a.match_index]]
        /\ UNCHANGED <<current_term, role>>
        /\ a.success /\ current_term[a.to] = a.term
    BY <1>7, Zenon DEF Counts
  <2>2. a.follower_id # a.to
    BY Zenon DEF LogInv, RepliesFromOthers
  <2>3. match_index'[i][i] = 0
    BY <1>1, <2>1, <2>2, Zenon
  <2>4. CASE a.to = i /\ a.follower_id = p
    <3>1. match_index'[i][p] = a.match_index
      BY <1>1, <2>1, <2>4
    <3>2. a \in appendResponses'
      BY DEF Grows
    <3>3. Rep(match_index'[i][p], current_term'[i])
      BY <2>1, <2>4, <3>1, <3>2 DEF Rep
    <3>4. QED
      BY <2>3, <3>3
  <2>5. CASE ~(a.to = i /\ a.follower_id = p)
    <3>1. match_index'[i][p] = match_index[i][p]
      BY <1>1, <2>1, <2>5
    <3>2. QED
      BY <1>2, <2>1, <2>3, <3>1
  <2>6. QED
    BY <2>4, <2>5, Zenon
<1>8. ASSUME NEW a \in appendResponses, Backs(a)
      PROVE  /\ match_index'[i][i] = 0
             /\ role'[i] = Leader /\ match_index'[i][p] # 0
                     => Rep(match_index'[i][p], current_term'[i])
  BY <1>1, <1>2, <1>8, Zenon DEF Backs
<1>9. QED
  BY <1>4, <1>5, <1>6, <1>7, <1>8, Zenon DEF Tracks

LEMMA NextInLogStep ==
    ASSUME Base, Base', LogInv, ProgressInv, Grows, Shape, Tracks
    PROVE  NextInLog'
<1> SUFFICES ASSUME NEW i \in Server, NEW p \in Server, role'[i] = Leader, p # i
             PROVE  next_index'[i][p] \in 1 .. Len(log'[i]) + 1
  BY DEF NextInLog
<1>1. /\ next_index \in [Server -> [Server -> Nat]] /\ log \in [Server -> Seq(Entry)]
      /\ log' \in [Server -> Seq(Entry)]
  BY Zenon DEF Base, Typed, TypeOK
<1>2. /\ next_index[i] \in [Server -> Nat] /\ next_index[i][p] \in Nat
      /\ Len(log[i]) \in Nat /\ Len(log'[i]) \in Nat
  BY <1>1
<1>3. role[i] = Leader => next_index[i][p] \in 1 .. Len(log[i]) + 1
  BY Zenon DEF ProgressInv, NextInLog
<1>4. ASSUME role[i] = Leader, current_term'[i] = current_term[i]
      PROVE  Len(log[i]) <= Len(log'[i])
  <2>1. WasLeader(i, current_term'[i])
    BY <1>4, LeaderWasLeader
  <2>2. QED
    BY <2>1, LeaderStep, Zenon DEF LogGrows
<1>5. ASSUME role[i] = Leader, current_term'[i] = current_term[i],
             next_index'[i][p] = next_index[i][p]
      PROVE  next_index'[i][p] \in 1 .. Len(log'[i]) + 1
  BY <1>2, <1>3, <1>4, <1>5
<1>6. CASE NoNewLeader /\ UNCHANGED <<next_index, match_index>>
  BY <1>5, <1>6 DEF NoNewLeader
<1>7. ASSUME NEW j \in Server, Starts(j) PROVE next_index'[i][p] \in 1 .. Len(log'[i]) + 1
  <2>1. /\ next_index' = [next_index EXCEPT ![j] =
              [x \in Server |-> IF x # j THEN Len(log[j]) + 1 ELSE next_index[j][x]]]
        /\ log' = log
    BY <1>7, Zenon DEF Starts
  <2>2. CASE i = j
    <3>1. next_index'[i] = [x \in Server |-> IF x # i THEN Len(log[i]) + 1 ELSE next_index[i][x]]
      BY <1>1, <2>1, <2>2
    <3>2. next_index'[i][p] = Len(log[i]) + 1
      BY <3>1
    <3>3. QED
      BY <1>2, <2>1, <3>2
  <2>3. CASE i # j
    <3>1. next_index'[i] = next_index[i]
      BY <1>1, <2>1, <2>3
    <3>2. role[i] = Leader /\ current_term'[i] = current_term[i]
      BY <1>7, <2>3, Zenon DEF Starts
    <3>3. QED
      BY <1>5, <3>1, <3>2
  <2>4. QED
    BY <2>2, <2>3
<1>8. ASSUME NEW j \in Server, Forgets(j) PROVE next_index'[i][p] \in 1 .. Len(log'[i]) + 1
  <2>1. /\ NoNewLeader /\ next_index' = [next_index EXCEPT ![j] = [x \in Server |-> 0]]
        /\ role'[j] = Follower
    BY <1>8, Zenon DEF Forgets
  <2>2. i # j
    BY <2>1 DEF Follower, Leader
  <2>3. next_index'[i] = next_index[i]
    BY <1>1, <2>1, <2>2
  <2>4. QED
    BY <1>5, <2>1, <2>3, Zenon DEF NoNewLeader
<1>9. ASSUME NEW a \in appendResponses, Counts(a)
      PROVE  next_index'[i][p] \in 1 .. Len(log'[i]) + 1
  <2>1. /\ next_index' = [next_index EXCEPT ![a.to] =
                             [next_index[a.to] EXCEPT ![a.follower_id] = a.match_index + 1]]
        /\ UNCHANGED <<current_term, role, log>>
        /\ a.success /\ current_term[a.to] = a.term /\ role[a.to] = Leader
    BY <1>9, Zenon DEF Counts
  <2>2. CASE a.to = i /\ a.follower_id = p
    <3>1. next_index'[i][p] = a.match_index + 1
      BY <1>1, <2>1, <2>2, Zenon
    <3>2. a.match_index <= Len(log[i]) /\ a.match_index \in Nat
      BY <2>1, <2>2, Zenon DEF ProgressInv, RepliesTruthful, Base, Typed, TypeOK, AppendResponseMsg
    <3>3. QED
      BY <1>2, <2>1, <3>1, <3>2
  <2>3. CASE ~(a.to = i /\ a.follower_id = p)
    <3>1. next_index'[i][p] = next_index[i][p]
      BY <1>1, <2>1, <2>3, Zenon
    <3>2. QED
      BY <1>5, <2>1, <3>1
  <2>4. QED
    BY <2>2, <2>3
<1>10. ASSUME NEW a \in appendResponses, Backs(a)
       PROVE  next_index'[i][p] \in 1 .. Len(log'[i]) + 1
  <2>1. /\ next_index' = [next_index EXCEPT ![a.to] =
                             [next_index[a.to] EXCEPT ![a.follower_id] = StepBack(@)]]
        /\ UNCHANGED <<current_term, role, log>>
    BY <1>10, Zenon DEF Backs
  <2>2. CASE a.to = i /\ a.follower_id = p
    <3>1. next_index'[i][p] = StepBack(next_index[i][p])
      BY <1>1, <2>1, <2>2
    <3>2. next_index[i][p] \in 1 .. Len(log[i]) + 1
      BY <1>3, <2>1
    <3>3. StepBack(next_index[i][p]) \in 1 .. Len(log[i]) + 1
      BY <1>2, <3>2 DEF StepBack
    <3>4. QED
      BY <2>1, <3>1, <3>3
  <2>3. CASE ~(a.to = i /\ a.follower_id = p)
    <3>1. next_index'[i][p] = next_index[i][p]
      BY <1>1, <2>1, <2>3, Zenon
    <3>2. QED
      BY <1>5, <2>1, <3>1, Zenon
  <2>4. QED
    BY <2>2, <2>3
<1>11. QED
  BY <1>6, <1>7, <1>8, <1>9, <1>10, Zenon DEF Tracks

LEMMA ProgressInvInit == Init => ProgressInv
<1> SUFFICES ASSUME Init PROVE ProgressInv
  OBVIOUS
<1>1. /\ appendEntries = {} /\ appendResponses = {} /\ panicked = {}
      /\ role = [i \in Server |-> Follower]
      /\ match_index = [i \in Server |-> [p \in Server |-> 0]]
  BY Zenon DEF Init
<1>2. \A i, p \in Server : match_index[i][p] = 0 /\ role[i] # Leader
  BY <1>1 DEF Follower, Leader
<1>3. AppendsFromLog /\ RepliesAddressed /\ RepliesTruthful
  BY <1>1, Zenon DEF AppendsFromLog, RepliesAddressed, RepliesTruthful
<1>4. MatchFromReply /\ NextInLog
  BY <1>2, Zenon DEF MatchFromReply, NextInLog
<1>5. QED
  BY <1>1, <1>3, <1>4 DEF ProgressInv

LEMMA ProgressInvStep ==
    ASSUME Base, Base', LogInv, ProgressInv, Grows, Shape, [Next]_vars
    PROVE  ProgressInv'
<1>2. Tracks /\ panicked' = panicked
  BY TracksStep
<1>3. AppendsFromLog' /\ RepliesAddressed' /\ RepliesTruthful'
  BY AppendsFromLogStep, RepliesAddressedStep, RepliesTruthfulStep DEF ProgressInv
<1>4. MatchFromReply' /\ NextInLog'
  BY <1>2, MatchFromReplyStep, NextInLogStep
<1>5. QED
  BY <1>2, <1>3, <1>4 DEF ProgressInv

-----------------------------------------------------------------------------
(* What the invariants say                                                 *)

LEMMA ProgressInvMatch == Base /\ LogInv /\ ProgressInv => MatchIndexTruthful
<1> SUFFICES ASSUME Base, LogInv, ProgressInv, NEW i \in Server, NEW p \in Server,
                    role[i] = Leader, current_term[p] = current_term[i], match_index[i][p] > 0
             PROVE  /\ match_index[i][p] <= Len(log[i])
                    /\ Prefix(SubSeq(log[i], 1, match_index[i][p]), log[p])
  BY DEF MatchIndexTruthful
<1> DEFINE k == match_index[i][p]
<1>1. k \in Nat /\ k # 0 /\ log[i] \in Seq(Entry) /\ log[p] \in Seq(Entry)
  <2>1. match_index \in [Server -> [Server -> Nat]] /\ log \in [Server -> Seq(Entry)]
    BY Zenon DEF Base, Typed, TypeOK
  <2>2. QED
    BY <2>1
<1>2. PICK a \in appendResponses : /\ a.success /\ a.to = i /\ a.follower_id = p
                                   /\ a.term = current_term[i] /\ a.match_index = k
  <2>1. MatchFromReply
    BY Zenon DEF ProgressInv
  <2>2. Replied(i, p, current_term[i], k)
    BY <1>1, <2>1, Zenon DEF MatchFromReply
  <2>3. QED
    BY <2>2, Zenon DEF Replied
<1>3. /\ k <= Len(log[i]) /\ k <= Len(log[p]) /\ TermAt(log[p], k) = TermAt(log[i], k)
  BY <1>2, Zenon DEF ProgressInv, RepliesTruthful
<1> HIDE DEF k
<1>4. \A n \in 1 .. k : log[i][n] = log[p][n]
  BY <1>1, <1>3, LogsAgree, Zenon DEF LogInv
<1>5. Len(SubSeq(log[i], 1, k)) = k /\ \A n \in 1 .. k : SubSeq(log[i], 1, k)[n] = log[i][n]
  BY <1>1, <1>3
<1>6. Prefix(SubSeq(log[i], 1, k), log[p])
  BY <1>3, <1>4, <1>5, Zenon DEF Prefix
<1>7. QED
  BY <1>3, <1>6, Zenon DEF k
=============================================================================
