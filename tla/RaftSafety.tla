----------------------------- MODULE RaftSafety -----------------------------
(***************************************************************************)
(* Raft with a fixed cluster, the inductive invariants behind its safety   *)
(* properties (elections, logs, progress of the followers, commitment,     *)
(* answers to clients).  They are proved in RaftTheorems.                  *)
(***************************************************************************)
EXTENDS Raft

\* Every node is in the bootstrap cluster and, no membership change being submitted,
\* stays in it.
ASSUME FixedMembership == Members = Server

\* Only commands are in logs and messages, so that applying entries never changes
\* the peer set.
Commands(l) == \A k \in 1 .. Len(l) : l[k].payload.kind = "command"
CommandsOnly ==
    /\ \A i \in Server : Commands(log[i])
    /\ \A m \in appendEntries : Commands(m.entries)
    /\ \A m \in forwarded : m.payload.kind = "command"
    /\ \A i \in Server : peers[i] = Server \ {i}

\* A candidate or leader has voted for itself in its term.
CandidatesVoteForThemselves ==
    \A i \in Server : role[i] # Follower => voted_for[i] = i

\* A vote on the network is remembered by its voter until it leaves the term.
VotesRemembered ==
    \A m \in voteResponses : m.vote_granted =>
        /\ m.term <= current_term[m.voter_id]
        /\ m.term = current_term[m.voter_id] => voted_for[m.voter_id] = m.to

\* A node's vote in a term goes to one candidate only.
OneVotePerTerm ==
    \A m, n \in voteResponses :
        m.vote_granted /\ n.vote_granted /\ m.voter_id = n.voter_id /\ m.term = n.term
            => m.to = n.to

\* The votes a candidate or leader has counted were sent to it for this very term.
VotesCounted ==
    \A i \in Server : role[i] # Follower =>
        \A v \in votes_received[i] : v # i =>
            \E m \in voteResponses : /\ m.vote_granted /\ m.voter_id = v
                                     /\ m.term = current_term[i] /\ m.to = i

\* A leader has the votes of a majority.
LeaderHasMajority ==
    \A i \in Server : role[i] = Leader => Cardinality(votes_received[i]) >= Majority(i)

\* No node's vote is counted by two candidates of one term, across votes that are
\* lost, late or delivered twice (start_election, handle_request_vote,
\* handle_vote_response).
VoteInv ==
    /\ CandidatesVoteForThemselves
    /\ VotesRemembered
    /\ OneVotePerTerm
    /\ VotesCounted

\* The inductive invariant behind Election Safety.
ElectionInv == CommandsOnly /\ VoteInv /\ LeaderHasMajority

-----------------------------------------------------------------------------
(* Pieces and cells of logs.  A log and an AppendEntries are both a piece of *)
(* some leader's log; a cell is one entry of a piece with its index and the  *)
(* term before it.                                                           *)

LogPiece(l) == [prev_log_index |-> 0, prev_log_term |-> 0, entries |-> l]
Pieces      == {LogPiece(log[i]) : i \in Server} \cup appendEntries

LastIndex(p)    == p.prev_log_index + Len(p.entries)
PieceTerm(p, k) == IF k = p.prev_log_index THEN p.prev_log_term
                   ELSE p.entries[k - p.prev_log_index].term

CellAt(p, k) == [index |-> k, entry |-> p.entries[k - p.prev_log_index],
                 before |-> PieceTerm(p, k - 1)]
CellsOf(p)   == {CellAt(p, k) : k \in p.prev_log_index + 1 .. LastIndex(p)}
Cells        == UNION {CellsOf(p) : p \in Pieces}

-----------------------------------------------------------------------------
(* What the messages on the network tell of earlier elections              *)

\* A majority of the cluster.
IsQuorum(Q) == Cardinality(Q) >= Cardinality(Server) \div 2 + 1

\* The nodes that voted for j in term t, j included.
Voters(j, t) ==
    {j} \cup {v \in Server : \E m \in voteResponses : /\ m.vote_granted /\ m.voter_id = v
                                                      /\ m.term = t /\ m.to = j}
Elected(j, t) == IsQuorum(Voters(j, t))

\* j has led term t, and may still.
WasLeader(j, t) ==
    /\ Elected(j, t)
    /\ t <= current_term[j]
    /\ t = current_term[j] => role[j] # Candidate

\* A request is remembered by its candidate until it leaves the term.
RequestsRemembered ==
    \A r \in requestVotes :
        /\ r.term <= current_term[r.candidate_id]
        /\ r.term = current_term[r.candidate_id] => voted_for[r.candidate_id] = r.candidate_id

\* A node that has campaigned in a term votes for no one else in it.
CandidateVotesForItself ==
    \A r \in requestVotes : \A v \in voteResponses :
        v.vote_granted /\ v.voter_id = r.candidate_id /\ v.term = r.term
            => v.to = r.candidate_id

\* Every vote answers a request.
VotesRequested ==
    \A v \in voteResponses : v.vote_granted =>
        \E r \in requestVotes : r.candidate_id = v.to /\ r.term = v.term

RequestInv == RequestsRemembered /\ CandidateVotesForItself /\ VotesRequested

-----------------------------------------------------------------------------
(* Log Matching                                                            *)

\* Two cells of one index and term are the same cell.
CellsUnique ==
    \A c, d \in Cells : c.index = d.index /\ c.entry.term = d.entry.term => c = d

\* An entry's term had a leader.
CellsLed == \A c \in Cells : \E j \in Server : WasLeader(j, c.entry.term)

\* A leader has every entry of its own term.
LeaderOwnsTerm ==
    \A i \in Server : \A c \in Cells :
        role[i] = Leader /\ c.entry.term = current_term[i] => c \in CellsOf(LogPiece(log[i]))

\* An AppendEntries comes from a leader of its term, and never to itself.
AppendsLed ==
    \A m \in appendEntries : WasLeader(m.leader_id, m.term) /\ m.leader_id # m.to

\* A response comes from another node than the leader it answers.
RepliesFromOthers == \A a \in appendResponses : a.follower_id # a.to

\* The leader a node knows has led the node's term.
HintLed ==
    \A i \in Server : leader_id[i] # None => WasLeader(leader_id[i], current_term[i])

LogInv ==
    /\ RequestInv /\ CellsUnique /\ CellsLed /\ LeaderOwnsTerm
    /\ AppendsLed /\ RepliesFromOthers /\ HintLed

-----------------------------------------------------------------------------
(* Progress of the followers                                               *)

\* A leader's AppendEntries is a piece of its log, as long as it leads.
AppendsFromLog ==
    \A m \in appendEntries : LET i == m.leader_id IN
        role[i] = Leader /\ current_term[i] = m.term =>
            /\ LastIndex(m) <= Len(log[i])
            /\ \A k \in m.prev_log_index .. LastIndex(m) : TermAt(log[i], k) = PieceTerm(m, k)

\* A success of term t goes to a leader of t, from a node that has been in t.
RepliesAddressed ==
    \A a \in appendResponses : a.success =>
        a.term <= current_term[a.follower_id] /\ WasLeader(a.to, a.term)

\* What a follower acknowledged is in the leader's log, as long as it leads, and in
\* the follower's, as long as it stays in the term.
RepliesTruthful ==
    \A a \in appendResponses : LET i == a.to q == a.follower_id IN
        a.success /\ role[i] = Leader /\ current_term[i] = a.term =>
            /\ a.match_index <= Len(log[i])
            /\ current_term[q] = a.term =>
                  /\ a.match_index <= Len(log[q])
                  /\ TermAt(log[q], a.match_index) = TermAt(log[i], a.match_index)

\* p has acknowledged the entries up to k to leader i of term t.
Replied(i, p, t, k) ==
    \E a \in appendResponses : /\ a.success /\ a.to = i /\ a.follower_id = p
                               /\ a.term = t /\ a.match_index = k

\* A leader's match_index is what the follower acknowledged in this term.
MatchFromReply ==
    \A i, p \in Server :
        /\ match_index[i][i] = 0
        /\ role[i] = Leader /\ match_index[i][p] # 0 =>
              Replied(i, p, current_term[i], match_index[i][p])

NextInLog ==
    \A i, p \in Server : role[i] = Leader /\ p # i => next_index[i][p] \in 1 .. Len(log[i]) + 1

ProgressInv ==
    /\ AppendsFromLog /\ RepliesAddressed /\ RepliesTruthful
    /\ MatchFromReply /\ NextInLog /\ panicked = {}

-----------------------------------------------------------------------------
(* Commitment                                                              *)

\* A log that ends at index n with term u is behind one that ends at k with term t.
Behind(u, n, t, k) == u < t \/ (u = t /\ n < k)

\* By term T a leader was elected whose log was behind the entry of term t at k.
Overruled(k, t, T) ==
    \E r \in requestVotes :
        /\ t < r.term /\ r.term <= T
        /\ Elected(r.candidate_id, r.term)
        /\ Behind(r.last_log_term, r.last_log_index, t, k)

\* q holds the entry of term t at k since term t, be it as the leader.
Acked(q, k, t) ==
    \/ WasLeader(q, t)
    \/ \E a \in appendResponses : /\ a.success /\ a.follower_id = q
                                  /\ a.term = t /\ a.match_index >= k

Committed(k, t) ==
    /\ \E c \in Cells : c.index = k /\ c.entry.term = t
    /\ \E Q \in SUBSET Server : IsQuorum(Q) /\ \A q \in Q : Acked(q, k, t)

\* Terms never go down along a log, and never beyond the holder's term.
TermsOrdered ==
    /\ \A c \in Cells : c.before <= c.entry.term
    /\ \A i \in Server : \A c \in CellsOf(LogPiece(log[i])) : c.entry.term <= current_term[i]
    /\ \A m \in appendEntries : \A c \in CellsOf(m) : c.entry.term <= m.term

\* The entries of one term have no gap.
TermsContiguous ==
    \A c, d \in Cells :
        c.entry.term = d.entry.term /\ c.index < d.index => d.before = d.entry.term

\* All requests of a candidate in a term tell the same log.
RequestsAlike ==
    \A r, s \in requestVotes :
        r.candidate_id = s.candidate_id /\ r.term = s.term =>
            r.last_log_term = s.last_log_term /\ r.last_log_index = s.last_log_index

\* It is empty, or ends with an entry of an earlier term that had a leader.
RequestsPlaced ==
    \A r \in requestVotes :
        /\ r.last_log_term < r.term
        /\ r.last_log_index = 0 => r.last_log_term = 0
        /\ r.last_log_index # 0 => \E j \in Server : WasLeader(j, r.last_log_term)

\* It is still there as long as the candidate campaigns or leads.
RequestsTruthful ==
    \A r \in requestVotes :
        role[r.candidate_id] # Follower /\ current_term[r.candidate_id] = r.term =>
            /\ r.last_log_index <= Len(log[r.candidate_id])
            /\ TermAt(log[r.candidate_id], r.last_log_index) = r.last_log_term

\* A leader of its last term has at least as many entries.
RequestsBounded ==
    \A r \in requestVotes : \A j \in Server :
        role[j] = Leader /\ current_term[j] = r.last_log_term => r.last_log_index <= Len(log[j])

\* An entry of a later term comes after an earlier one, or the earlier one was overruled.
CellsOrdered ==
    \A c, d \in Cells : c.entry.term < d.entry.term =>
        \/ Overruled(c.index, c.entry.term, d.entry.term)
        \/ c.index < d.index /\ c.entry.term <= d.before

\* An AppendEntries against the entries of its own term, wherever they are: it has no
\* older entry after one of them, and ends no earlier than just before the first.
AppendsOwn ==
    \A m \in appendEntries : \A c \in Cells : c.entry.term = m.term =>
        /\ \A k \in m.prev_log_index .. LastIndex(m) : c.index <= k => PieceTerm(m, k) = m.term
        /\ c.before < m.term =>
              /\ c.index <= LastIndex(m) + 1
              /\ c.index = LastIndex(m) + 1 => PieceTerm(m, LastIndex(m)) = c.before

\* It is not behind the log its leader was elected with.
AppendsElected ==
    \A m \in appendEntries : \A r \in requestVotes :
        r.candidate_id = m.leader_id /\ r.term = m.term =>
            ~Behind(PieceTerm(m, LastIndex(m)), LastIndex(m), r.last_log_term, r.last_log_index)

\* What the leader has after it is of the leader's own term.
AppendsContinued ==
    \A m \in appendEntries : LET i == m.leader_id IN
        role[i] = Leader /\ current_term[i] = m.term /\ LastIndex(m) < Len(log[i])
            => TermAt(log[i], LastIndex(m) + 1) = m.term

\* An acknowledged entry stays until it is overruled.
AckedStays ==
    \A q \in Server : \A c \in Cells : Acked(q, c.index, c.entry.term) =>
        /\ c.entry.term <= current_term[q]
        /\ \/ c \in CellsOf(LogPiece(log[q]))
           \/ Overruled(c.index, c.entry.term, current_term[q])

\* No entry that q acknowledged before term r.term is missing in the log of request r,
\* but for overruled ones.
Covers(r, q) ==
    \A c \in Cells : c.entry.term < r.term /\ Acked(q, c.index, c.entry.term) =>
        \/ ~Behind(r.last_log_term, r.last_log_index, c.entry.term, c.index)
        \/ Overruled(c.index, c.entry.term, r.term - 1)

\* An elected candidate's log covers what some majority of its voters acknowledged; until
\* the term is decided, what all of its voters did.
VotersCovered ==
    \A r \in requestVotes :
        \/ \E j \in Server : j # r.candidate_id /\ Elected(j, r.term)
        \/ \E Q \in SUBSET Voters(r.candidate_id, r.term) :
              /\ IsQuorum(Q) \/ Q = Voters(r.candidate_id, r.term)
              /\ \A q \in Q : Covers(r, q)

\* A node's log holds, at or after index k, an entry that is committed.
CommittedIn(l, k) == \E n \in k .. Len(l) : Committed(n, l[n].term)

\* Commit indices, applied entries and leader_commits rest on committed entries.
CommitsFounded ==
    /\ \A i \in Server : commit_index[i] # 0 => CommittedIn(log[i], commit_index[i])
    /\ \A i \in Server : last_applied[i] # 0 => CommittedIn(log[i], last_applied[i])
    /\ \A m \in appendEntries : m.leader_commit # 0 =>
          \E n \in m.leader_commit .. LastIndex(m) : \E t \in 0 .. PieceTerm(m, LastIndex(m)) :
              Committed(n, t)

OrderInv ==
    /\ TermsOrdered /\ TermsContiguous /\ CellsOrdered
    /\ RequestsAlike /\ RequestsPlaced /\ RequestsTruthful /\ RequestsBounded
    /\ AppendsOwn /\ AppendsElected /\ AppendsContinued

CommitInv == AckedStays /\ VotersCovered /\ CommitsFounded /\ AppliedInLog

\* The write x that node i has pending is at its index in every piece that has an entry
\* of its term there.
Placed(i, x) ==
    /\ WasLeader(i, x.term) /\ x.index >= 1
    /\ role[i] = Leader /\ current_term[i] = x.term => x.index <= Len(log[i])
    /\ \A c \in Cells : c.index = x.index /\ c.entry.term = x.term
          => c.entry.payload = CommandPayload(x.request)

PendingPlaced == \A i \in Server : \A x \in pending_requests[i] : Placed(i, x)

\* A write answered with success was applied.
AppliedAt(j, r) ==
    /\ r.index \in 1 .. Len(applied[j])
    /\ applied[j][r.index] = [term |-> r.term, payload |-> CommandPayload(r.request)]

AnsweredApplied ==
    \A r \in clientResponses : r.success => \E j \in Server : AppliedAt(j, r)

ClientInv == PendingPlaced /\ AnsweredApplied

=============================================================================
