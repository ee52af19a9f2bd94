----------------------------- MODULE RaftProofs -----------------------------
(***************************************************************************)
(* What holds whatever the logs are: the types of Raft, with or without    *)
(* membership changes; a next_index for every peer; the gateway before the *)
(* cluster; and elections of a fixed cluster.  For clusters of any size,   *)
(* any connections, any elections, any log length.                         *)
(***************************************************************************)
EXTENDS RaftSafety, ApiGateway, SequenceTheorems, WellFoundedInduction, TLAPS

\* A leaf that names no prover is tried with each of these, in this order.
USE SMT, Zenon, SMTT(60), ZenonT(60)

LEMMA TypeInit == Init => TypeOK /\ CommitInLog
BY ServerFinite, MembersServer DEF Init, TypeOK, CommitInLog, Follower, Candidate, Leader

-----------------------------------------------------------------------------
(* Logs and messages                                                       *)

\* The term of any index of a log, the sentinel's included, is a number.
LEMMA TermAtType ==
    ASSUME NEW l \in Seq(Entry), NEW k \in 0 .. Len(l)
    PROVE  TermAt(l, k) \in Nat
<1>1. CASE k = 0
  BY <1>1 DEF TermAt
<1>2. CASE k # 0
  <2>1. l[k] \in Entry
    BY <1>2, ElementOfSeq
  <2>2. QED
    BY <1>2, <2>1 DEF TermAt, Entry
<1>3. QED
  BY <1>1, <1>2

\* A piece of a log is a log; the piece may be empty.
LEMMA SubLogType ==
    ASSUME NEW l \in Seq(Entry), NEW a \in Nat \ {0}, NEW b \in Nat, b <= Len(l)
    PROVE  SubSeq(l, a, b) \in Seq(Entry)
<1>1. \A k \in a .. b : l[k] \in Entry
  BY ElementOfSeq
<1>2. QED
  BY <1>1, SubSeqProperties

\* make_append_entries builds a well-formed message from an index within the log.
LEMMA MakeAppendEntriesType ==
    ASSUME NEW i \in Server, NEW p \in Server, NEW t \in Nat, NEW l \in Seq(Entry),
           NEW next \in 1 .. Len(l) + 1, NEW commit \in Nat
    PROVE  MakeAppendEntries(i, p, t, l, next, commit) \in AppendEntriesMsg
<1>1. SubSeq(l, next, Len(l)) \in Seq(Entry)
  BY SubLogType
<1>2. TermAt(l, next - 1) \in Nat
  BY TermAtType
<1>3. QED
  BY <1>1, <1>2 DEF MakeAppendEntries, AppendEntriesMsg

\* The follower's loop leaves a log behind, however it cuts and appends.
LEMMA MergedLogType ==
    ASSUME NEW l \in Seq(Entry), NEW es \in Seq(Entry), NEW prev \in Nat, prev <= Len(l)
    PROVE  MergedLog(l, prev, es) \in Seq(Entry)
<1> DEFINE Present(k) == k <= Len(l) /\ l[k].term = es[k - prev].term
           n == prev + Len(es)
           merged == [k \in 1 .. n |->
                        IF \A j \in prev + 1 .. k : Present(j) THEN l[k] ELSE es[k - prev]]
<1>1. n \in Nat
  OBVIOUS
<1>2. ASSUME NEW k \in 1 .. n
      PROVE  (IF \A j \in prev + 1 .. k : Present(j) THEN l[k] ELSE es[k - prev]) \in Entry
  <2>1. CASE k <= prev
    BY <2>1, ElementOfSeq
  <2>2. CASE k > prev /\ \A j \in prev + 1 .. k : Present(j)
    <3>1. Present(k)
      BY <2>2
    <3>2. QED
      BY <2>2, <3>1, ElementOfSeq
  <2>3. CASE k > prev /\ ~(\A j \in prev + 1 .. k : Present(j))
    <3>1. k - prev \in 1 .. Len(es)
      BY <2>3
    <3>2. QED
      BY <2>3, <3>1, ElementOfSeq
  <2>4. QED
    BY <2>1, <2>2, <2>3
<1>3. merged \in [1 .. n -> Entry]
  BY <1>2, Zenon
<1> HIDE DEF n, merged
<1>4. merged \in Seq(Entry)
  BY <1>1, <1>3, SeqDef, Zenon
<1> USE DEF n, merged
<1>5. QED
  BY <1>4 DEF MergedLog

\* A follower never takes a commit index past the end of its log.
LEMMA FollowerCommitType ==
    ASSUME NEW m \in AppendEntriesMsg, NEW l \in Seq(Entry)
    PROVE  FollowerCommit(m, l) \in 0 .. Len(l)
BY DEF FollowerCommit, AppendEntriesMsg

-----------------------------------------------------------------------------
(* Parts of actions                                                        *)

TypeInv == TypeOK /\ CommitInLog

LEMMA StepDownType ==
    ASSUME TypeInv, NEW i \in Server, NEW t \in Nat, AdoptTerm(i, t)
    PROVE  /\ current_term' \in [Server -> Nat]
           /\ role' \in [Server -> {Follower, Candidate, Leader}]
           /\ leader_id' \in [Server -> Server \cup {None}]
           /\ pending_requests' \in
                 [Server -> SUBSET [index : Nat, term : Nat, request : Request]]
           /\ clientResponses' \subseteq
                 [request : Request, success : BOOLEAN, index : Nat, term : Nat]
<1>1. Drained(i, t) \subseteq [request : Request, success : BOOLEAN, index : Nat, term : Nat]
  <2>1. \A x \in pending_requests[i] : x.request \in Request
    BY DEF TypeInv, TypeOK
  <2>2. \A x \in pending_requests[i] : Response(x.request, FALSE, 0, t)
           \in [request : Request, success : BOOLEAN, index : Nat, term : Nat]
    BY <2>1 DEF Response
  <2>3. QED
    BY <2>2, Zenon DEF Drained
<1>2. QED
  BY <1>1 DEF TypeInv, TypeOK, AdoptTerm

LEMMA BecomeLeaderType ==
    ASSUME TypeInv, NEW i \in Server, current_term' \in [Server -> Nat], BecomeLeader(i)
    PROVE  /\ role' \in [Server -> {Follower, Candidate, Leader}]
           /\ leader_id' \in [Server -> Server \cup {None}]
           /\ next_index' \in [Server -> [Server -> Nat]]
           /\ match_index' \in [Server -> [Server -> Nat]]
           /\ appendEntries' \subseteq AppendEntriesMsg
<1> DEFINE next == Len(log[i]) + 1
<1>1. /\ log[i] \in Seq(Entry) /\ commit_index[i] \in Nat /\ current_term'[i] \in Nat
      /\ peers[i] \subseteq Server /\ Len(log[i]) \in Nat
  BY DEF TypeInv, TypeOK
<1>2. \A p \in peers[i] :
         MakeAppendEntries(i, p, current_term'[i], log[i], next, commit_index[i])
            \in AppendEntriesMsg
  BY <1>1, MakeAppendEntriesType
<1>3. appendEntries' \subseteq AppendEntriesMsg
  BY <1>2 DEF TypeInv, TypeOK, BecomeLeader, Sent
<1>4. role' \in [Server -> {Follower, Candidate, Leader}]
  BY DEF TypeInv, TypeOK, BecomeLeader
<1>5. leader_id' \in [Server -> Server \cup {None}]
  BY DEF TypeInv, TypeOK, BecomeLeader
<1>6. next_index' \in [Server -> [Server -> Nat]]
  <2>1. [p \in Server |-> IF p \in peers[i] THEN next ELSE next_index[i][p]] \in [Server -> Nat]
    BY <1>1 DEF TypeInv, TypeOK
  <2>2. QED
    BY <2>1 DEF TypeInv, TypeOK, BecomeLeader
<1>7. match_index' \in [Server -> [Server -> Nat]]
  BY <1>1 DEF TypeInv, TypeOK, BecomeLeader
<1>8. QED
  BY <1>3, <1>4, <1>5, <1>6, <1>7

LEMMA SendAppendsType ==
    ASSUME TypeInv, NEW i \in Server, NEW ps \in SUBSET Server,
           NEW next \in [Server -> Nat], log'[i] \in Seq(Entry), SendAppends(i, ps, next)
    PROVE  panicked' \subseteq Server /\ appendEntries' \subseteq AppendEntriesMsg
<1>1. commit_index[i] \in Nat /\ current_term[i] \in Nat
  BY DEF TypeInv, TypeOK
<1>2. CASE \A p \in ps : next[p] \in 1 .. Len(log'[i]) + 1
  <2>1. \A p \in ps :
           MakeAppendEntries(i, p, current_term[i], log'[i], next[p], commit_index[i])
              \in AppendEntriesMsg
    BY <1>1, <1>2, MakeAppendEntriesType
  <2>2. appendEntries' = appendEntries \cup Sent(i,
           {MakeAppendEntries(i, p, current_term[i], log'[i], next[p], commit_index[i])
              : p \in ps})
        /\ panicked' = panicked
    BY <1>2 DEF SendAppends
  <2>3. QED
    BY <2>1, <2>2 DEF TypeInv, TypeOK, Sent
<1>3. CASE ~(\A p \in ps : next[p] \in 1 .. Len(log'[i]) + 1)
  BY <1>3, Zenon DEF TypeInv, TypeOK, SendAppends
<1>4. QED
  BY <1>2, <1>3

LEMMA ApplyType ==
    ASSUME TypeInv, NEW i \in Server, log' \in [Server -> Seq(Entry)],
           commit_index' \in [Server -> Nat], commit_index'[i] <= Len(log'[i]),
           NEW next \in [Server -> Nat], NEW match \in [Server -> Nat],
           NEW pending \in SUBSET [index : Nat, term : Nat, request : Request],
           NEW responses \in
              SUBSET [request : Request, success : BOOLEAN, index : Nat, term : Nat],
           ApplyCommittedEntries(i, next, match, pending, responses)
    PROVE  /\ last_applied' \in [Server -> Nat]
           /\ applied' \in [Server -> Seq(Entry)]
           /\ peers' \in [Server -> SUBSET Server]
           /\ next_index' \in [Server -> [Server -> Nat]]
           /\ match_index' \in [Server -> [Server -> Nat]]
           /\ pending_requests' \in
                 [Server -> SUBSET [index : Nat, term : Nat, request : Request]]
           /\ clientResponses' \subseteq
                 [request : Request, success : BOOLEAN, index : Nat, term : Nat]
<1>1. SubSeq(log'[i], last_applied[i] + 1, commit_index'[i]) \in Seq(Entry)
  BY SubLogType DEF TypeInv, TypeOK
<1>2. applied[i] \o SubSeq(log'[i], last_applied[i] + 1, commit_index'[i]) \in Seq(Entry)
  BY <1>1, ConcatProperties DEF TypeInv, TypeOK
<1>3. applied' \in [Server -> Seq(Entry)]
  BY <1>2, Zenon DEF TypeInv, TypeOK, ApplyCommittedEntries
<1>4. last_applied' \in [Server -> Nat]
  BY Zenon DEF TypeInv, TypeOK, ApplyCommittedEntries
<1>5. peers' \in [Server -> SUBSET Server]
  BY Zenon DEF TypeInv, TypeOK, ApplyCommittedEntries
<1>6. Len(log'[i]) \in Nat
  BY LenProperties
<1>7. next_index' \in [Server -> [Server -> Nat]]
  <2> DEFINE l  == log'[i]
             ks == last_applied[i] + 1 .. commit_index'[i]
             f  == [p \in Server |-> NextAfter(role'[i] = Leader, l, ks, next[p], p)]
  <2>1. next_index' = [next_index EXCEPT ![i] = f]
    BY DEF ApplyCommittedEntries
  <2>2. f \in [Server -> Nat]
    BY <1>6 DEF NextAfter
  <2>3. QED
    BY <2>1, <2>2, Zenon DEF TypeInv, TypeOK
<1>8. match_index' \in [Server -> [Server -> Nat]]
  BY Zenon DEF TypeInv, TypeOK, ApplyCommittedEntries
<1>9. pending_requests' \in
         [Server -> SUBSET [index : Nat, term : Nat, request : Request]]
  BY Zenon DEF TypeInv, TypeOK, ApplyCommittedEntries
<1>10. clientResponses' \subseteq
         [request : Request, success : BOOLEAN, index : Nat, term : Nat]
  <2>1. \A x \in pending : Response(x.request, TRUE, x.index, x.term)
           \in [request : Request, success : BOOLEAN, index : Nat, term : Nat]
    BY DEF Response
  <2>2. \E answered \in SUBSET pending : clientResponses' = responses \cup
           {Response(x.request, TRUE, x.index, x.term) : x \in answered}
    BY Zenon DEF ApplyCommittedEntries
  <2>3. QED
    BY <2>1, <2>2, Zenon
<1>11. QED
  BY <1>3, <1>4, <1>5, <1>7, <1>8, <1>9, <1>10

LEMMA UpdateCommitType ==
    ASSUME TypeInv, NEW i \in Server, log' \in [Server -> Seq(Entry)],
           NEW next \in [Server -> Nat], NEW match \in [Server -> Nat],
           NEW pending \in SUBSET [index : Nat, term : Nat, request : Request],
           UpdateCommitIndex(i, next, match, pending)
    PROVE  /\ commit_index' \in [Server -> Nat]
           /\ commit_index'[i] <= Len(log'[i])
           /\ \A j \in Server \ {i} : commit_index'[j] = commit_index[j]
           /\ ApplyCommittedEntries(i, next, match, pending, clientResponses)
<1>1. PICK c \in commit_index[i] .. Len(log'[i]) :
         /\ commit_index' = [commit_index EXCEPT ![i] = c]
         /\ ApplyCommittedEntries(i, next, match, pending, clientResponses)
  BY Zenon DEF UpdateCommitIndex
<1>2. commit_index[i] \in Nat /\ Len(log'[i]) \in Nat
  BY LenProperties DEF TypeInv, TypeOK
<1>3. QED
  BY <1>1, <1>2 DEF TypeInv, TypeOK

-----------------------------------------------------------------------------
(* Type correctness                                                        *)

LEMMA StartElectionType ==
    ASSUME TypeInv, NEW i \in Server, StartElection(i)
    PROVE  TypeInv'
<1>1. /\ current_term' \in [Server -> Nat]
      /\ voted_for' \in [Server -> Server \cup {None}]
      /\ votes_received' \in [Server -> SUBSET Server]
      /\ UNCHANGED <<log, stateVars, clientVars, panicked, voteResponses, appendResponses, forwarded>>
  <2>1. current_term' \in [Server -> Nat]
    BY DEF TypeInv, TypeOK, StartElection
  <2>2. voted_for' \in [Server -> Server \cup {None}]
    BY DEF TypeInv, TypeOK, StartElection
  <2>3. votes_received' \in [Server -> SUBSET Server]
    BY DEF TypeInv, TypeOK, StartElection
  <2>4. QED
    BY <2>1, <2>2, <2>3 DEF StartElection
<1>2. CASE 1 >= Majority(i)
  <2>1. BecomeLeader(i) /\ UNCHANGED requestVotes
    BY <1>2, Zenon DEF StartElection
  <2>2. QED
    BY <1>1, <2>1, BecomeLeaderType, Zenon DEF TypeInv, TypeOK, CommitInLog, stateVars, clientVars
<1>3. CASE ~(1 >= Majority(i))
  <2>1. LastTerm(log[i]) \in Nat /\ Len(log[i]) \in Nat
    BY TermAtType DEF LastTerm, TypeInv, TypeOK
  <2>2. requestVotes' \subseteq RequestVoteMsg
    <3> DEFINE Req(p) == [term |-> current_term[i] + 1, candidate_id |-> i,
                          last_log_index |-> Len(log[i]), last_log_term |-> LastTerm(log[i]),
                          to |-> p]
    <3>1. requestVotes' = requestVotes \cup Sent(i, {Req(p) : p \in peers[i]})
      BY <1>3 DEF StartElection
    <3> peers[i] \subseteq Server /\ current_term[i] + 1 \in Nat
      BY DEF TypeInv, TypeOK
    <3>2. \A p \in peers[i] : Req(p) \in RequestVoteMsg
      BY <2>1 DEF RequestVoteMsg
    <3>3. QED
      BY <3>1, <3>2 DEF Sent, TypeInv, TypeOK
  <2>3. /\ role' = [role EXCEPT ![i] = Candidate]
        /\ leader_id' = [leader_id EXCEPT ![i] = None]
        /\ UNCHANGED <<leaderVars, appendEntries>>
    BY <1>3 DEF StartElection
  <2>4. QED
    BY <1>1, <2>2, <2>3, Zenon
       DEF TypeInv, TypeOK, CommitInLog, stateVars, clientVars, leaderVars
<1>4. QED
  BY <1>2, <1>3

LEMMA HandleRequestVoteType ==
    ASSUME TypeInv, NEW m \in requestVotes, HandleRequestVote(m)
    PROVE  TypeInv'
<1> DEFINE i == m.to
<1>1. m \in RequestVoteMsg /\ i \in Server /\ m.term \in Nat /\ m.candidate_id \in Server
  BY Zenon DEF TypeInv, TypeOK, RequestVoteMsg
<1>2. UNCHANGED <<log, stateVars, votes_received, leaderVars, panicked,
                  requestVotes, appendEntries, appendResponses, forwarded>>
  BY Zenon DEF HandleRequestVote
<1>3. voted_for' \in [Server -> Server \cup {None}]
  BY <1>1, Zenon DEF TypeInv, TypeOK, HandleRequestVote
<1>4. /\ current_term' \in [Server -> Nat]
      /\ role' \in [Server -> {Follower, Candidate, Leader}]
      /\ leader_id' \in [Server -> Server \cup {None}]
      /\ pending_requests' \in [Server -> SUBSET [index : Nat, term : Nat, request : Request]]
      /\ clientResponses' \subseteq [request : Request, success : BOOLEAN, index : Nat, term : Nat]
  <2>1. CASE m.term > current_term[i]
    <3>1. AdoptTerm(i, m.term)
      BY <2>1 DEF HandleRequestVote
    <3>2. QED
      BY <1>1, <3>1, StepDownType
  <2>2. CASE ~(m.term > current_term[i])
    BY <2>2, Zenon DEF HandleRequestVote, TypeInv, TypeOK, clientVars
  <2>3. QED
    BY <2>1, <2>2
<1>5. voteResponses' \subseteq VoteResponseMsg
  <2>1. PICK g \in BOOLEAN : voteResponses' = voteResponses \cup Sent(i,
           {[term |-> current_term'[i], voter_id |-> i, vote_granted |-> g,
             to |-> m.candidate_id]})
    BY Zenon DEF HandleRequestVote
  <2>2. [term |-> current_term'[i], voter_id |-> i, vote_granted |-> g,
         to |-> m.candidate_id] \in VoteResponseMsg
    BY <1>1, <1>4, Zenon DEF VoteResponseMsg
  <2>3. QED
    BY <2>1, <2>2, Zenon DEF TypeInv, TypeOK, Sent
<1>6. QED
  BY <1>2, <1>3, <1>4, <1>5, Zenon DEF TypeInv, TypeOK, CommitInLog, stateVars, leaderVars

LEMMA HandleVoteResponseType ==
    ASSUME TypeInv, NEW m \in voteResponses, HandleVoteResponse(m)
    PROVE  TypeInv'
<1> DEFINE i == m.to
           votes == votes_received[i] \cup (IF m.vote_granted THEN {m.voter_id} ELSE {})
<1>1. i \in Server /\ m.term \in Nat /\ m.voter_id \in Server
  BY Zenon DEF TypeInv, TypeOK, VoteResponseMsg
<1>2. UNCHANGED <<log, stateVars, panicked, requestVotes, voteResponses,
                  appendResponses, forwarded>>
  BY Zenon DEF HandleVoteResponse
<1>3. CASE /\ StepDown(i, m.term)
           /\ UNCHANGED <<votes_received, leaderVars, appendEntries>>
  <2>1. voted_for' \in [Server -> Server \cup {None}]
    BY <1>3, Zenon DEF StepDown, TypeInv, TypeOK
  <2>2. QED
    BY <1>1, <1>2, <1>3, <2>1, StepDownType, Zenon
       DEF StepDown, TypeInv, TypeOK, CommitInLog, stateVars, leaderVars
<1>4. CASE /\ votes_received' = [votes_received EXCEPT ![i] = votes]
           /\ UNCHANGED <<termVars, clientVars>>
           /\ \/ BecomeLeader(i)
              \/ UNCHANGED <<role, leader_id, leaderVars, appendEntries>>
  <2>1. votes_received' \in [Server -> SUBSET Server]
    <3>1. votes_received \in [Server -> SUBSET Server]
      BY DEF TypeInv, TypeOK
    <3>2. votes \in SUBSET Server
      BY <1>1, <3>1
    <3>3. QED
      BY <1>1, <1>4, <3>1, <3>2
  <2>2. current_term' \in [Server -> Nat] /\ voted_for' \in [Server -> Server \cup {None}]
    BY <1>4 DEF TypeInv, TypeOK, termVars
  <2>3. CASE BecomeLeader(i)
    BY <1>1, <1>2, <1>4, <2>1, <2>2, <2>3, BecomeLeaderType, Zenon
       DEF TypeInv, TypeOK, CommitInLog, stateVars, clientVars
  <2>4. CASE UNCHANGED <<role, leader_id, leaderVars, appendEntries>>
    BY <1>2, <1>4, <2>1, <2>2, <2>4, Zenon
       DEF TypeInv, TypeOK, CommitInLog, stateVars, clientVars, leaderVars
  <2>5. QED
    BY <1>4, <2>3, <2>4
<1>5. QED
  BY <1>3, <1>4 DEF HandleVoteResponse

LEMMA HandleAppendEntriesType ==
    ASSUME TypeInv, NEW m \in appendEntries, HandleAppendEntries(m)
    PROVE  TypeInv'
<1> DEFINE i         == m.to
           newer     == m.term > current_term[i]
           pending   == IF newer THEN {} ELSE pending_requests[i]
           responses == clientResponses \cup (IF newer THEN Drained(i, m.term) ELSE {})
           prevOk    == PrevMatches(m, log[i])
           Requests  == [index : Nat, term : Nat, request : Request]
           Responses == [request : Request, success : BOOLEAN, index : Nat, term : Nat]
<1>1. /\ m \in AppendEntriesMsg /\ i \in Server /\ m.term \in Nat /\ m.leader_id \in Server
      /\ m.prev_log_index \in Nat /\ m.entries \in Seq(Entry)
      /\ Len(m.entries) \in Nat /\ log[i] \in Seq(Entry) /\ Len(log[i]) \in Nat
      /\ current_term[i] \in Nat
  BY LenProperties, Zenon DEF TypeInv, TypeOK, AppendEntriesMsg
<1>2. UNCHANGED <<votes_received, panicked, requestVotes, voteResponses,
                  appendEntries, forwarded>>
  BY Zenon DEF HandleAppendEntries
<1>3. pending \in SUBSET Requests /\ responses \in SUBSET Responses
  <2>1. \A x \in pending_requests[i] : Response(x.request, FALSE, 0, m.term) \in Responses
    <3>1. \A x \in pending_requests[i] : x.request \in Request
      BY <1>1 DEF TypeInv, TypeOK
    <3>2. QED
      BY <1>1, <3>1 DEF Response
  <2>2. Drained(i, m.term) \subseteq Responses
    BY <2>1, Zenon DEF Drained
  <2>3. QED
    BY <1>1, <2>2, Zenon DEF TypeInv, TypeOK
<1>4. ASSUME NEW t \in Nat, NEW ok \in BOOLEAN, NEW k \in Nat, AppendReply(m, t, ok, k)
      PROVE  appendResponses' \subseteq AppendResponseMsg
  <2>1. [term |-> t, follower_id |-> m.to, success |-> ok, match_index |-> k,
         to |-> m.leader_id] \in AppendResponseMsg
    BY <1>1 DEF AppendResponseMsg
  <2>2. QED
    BY <1>4, <2>1 DEF AppendReply, Sent, TypeInv, TypeOK
<1>5. CASE /\ AppendReply(m, current_term[i], FALSE, Len(log[i]))
           /\ UNCHANGED <<termVars, role, leader_id, log, stateVars, leaderVars, clientVars>>
  <2>1. appendResponses' \subseteq AppendResponseMsg
    BY <1>1, <1>4, <1>5, Zenon
  <2>2. QED
    BY <1>2, <1>5, <2>1
       DEF TypeInv, TypeOK, CommitInLog, termVars, stateVars, leaderVars, clientVars
<1>6. CASE /\ m.term >= current_term[i]
           /\ current_term' = [current_term EXCEPT ![i] = m.term]
           /\ voted_for' = [voted_for EXCEPT ![i] = IF newer THEN None ELSE @]
           /\ role' = [role EXCEPT ![i] = Follower]
           /\ leader_id' = [leader_id EXCEPT ![i] = m.leader_id]
           /\ IF prevOk
              THEN /\ log' = [log EXCEPT ![i] = MergedLog(@, m.prev_log_index, m.entries)]
                   /\ commit_index' = [commit_index EXCEPT ![i] = FollowerCommit(m, log'[i])]
                   /\ ApplyCommittedEntries(i, next_index[i], match_index[i], pending, responses)
                   /\ AppendReply(m, m.term, TRUE, m.prev_log_index + Len(m.entries))
              ELSE /\ pending_requests' = [pending_requests EXCEPT ![i] = pending]
                   /\ clientResponses' = responses
                   /\ AppendReply(m, m.term, FALSE, Len(log[i]))
                   /\ UNCHANGED <<log, stateVars, leaderVars>>
  <2>1. /\ current_term' \in [Server -> Nat]
        /\ voted_for' \in [Server -> Server \cup {None}]
        /\ role' \in [Server -> {Follower, Candidate, Leader}]
        /\ leader_id' \in [Server -> Server \cup {None}]
    BY <1>1, <1>6, Zenon DEF TypeInv, TypeOK
  <2>2. CASE prevOk
    <3> HIDE DEF prevOk
    <3>0. /\ log' = [log EXCEPT ![i] = MergedLog(@, m.prev_log_index, m.entries)]
          /\ commit_index' = [commit_index EXCEPT ![i] = FollowerCommit(m, log'[i])]
          /\ AppendReply(m, m.term, TRUE, m.prev_log_index + Len(m.entries))
      BY <1>6, <2>2, Zenon
    <3>1. MergedLog(log[i], m.prev_log_index, m.entries) \in Seq(Entry)
      BY <1>1, <2>2, MergedLogType, Zenon DEF prevOk, PrevMatches
    <3>2. log' \in [Server -> Seq(Entry)]
      BY <3>0, <3>1, Zenon DEF TypeInv, TypeOK
    <3>3. FollowerCommit(m, log'[i]) \in 0 .. Len(log'[i]) /\ Len(log'[i]) \in Nat
      BY <1>1, <3>2, FollowerCommitType, LenProperties
    <3>4. /\ commit_index' \in [Server -> Nat]
          /\ commit_index'[i] <= Len(log'[i])
          /\ \A j \in Server \ {i} : commit_index'[j] = commit_index[j] /\ log'[j] = log[j]
      <4>1. commit_index \in [Server -> Nat] /\ log \in [Server -> Seq(Entry)]
        BY DEF TypeInv, TypeOK
      <4>2. commit_index'[i] = FollowerCommit(m, log'[i])
        BY <1>1, <3>0, <4>1
      <4>3. commit_index' \in [Server -> Nat] /\ commit_index'[i] <= Len(log'[i])
        BY <1>1, <3>0, <3>3, <4>1, <4>2
      <4>4. \A j \in Server \ {i} : commit_index'[j] = commit_index[j] /\ log'[j] = log[j]
        BY <1>1, <3>0, <4>1
      <4>5. QED
        BY <4>3, <4>4
    <3>5. CommitInLog'
      BY <3>4 DEF TypeInv, CommitInLog
    <3>6. /\ next_index[i] \in [Server -> Nat] /\ match_index[i] \in [Server -> Nat]
          /\ ApplyCommittedEntries(i, next_index[i], match_index[i], pending, responses)
      BY <1>1, <1>6, <2>2, Zenon DEF TypeInv, TypeOK
    <3>7. /\ last_applied' \in [Server -> Nat]
          /\ applied' \in [Server -> Seq(Entry)]
          /\ peers' \in [Server -> SUBSET Server]
          /\ next_index' \in [Server -> [Server -> Nat]]
          /\ match_index' \in [Server -> [Server -> Nat]]
          /\ pending_requests' \in [Server -> SUBSET Requests]
          /\ clientResponses' \subseteq Responses
      BY <1>1, <1>3, <3>2, <3>4, <3>6, ApplyType, Zenon
    <3>8. appendResponses' \subseteq AppendResponseMsg
      <4>1. m.prev_log_index + Len(m.entries) \in Nat /\ TRUE \in BOOLEAN
        BY <1>1
      <4>2. QED
        BY <1>1, <1>4, <3>0, <4>1, Zenon
    <3>9. QED
      BY <1>2, <2>1, <3>2, <3>4, <3>5, <3>7, <3>8, Zenon DEF TypeInv, TypeOK
  <2>3. CASE ~prevOk
    <3>1. /\ pending_requests' = [pending_requests EXCEPT ![i] = pending]
          /\ clientResponses' = responses
          /\ AppendReply(m, m.term, FALSE, Len(log[i]))
          /\ UNCHANGED <<log, stateVars, leaderVars>>
      BY <1>6, <2>3, Zenon
    <3>2. appendResponses' \subseteq AppendResponseMsg
      BY <1>1, <1>4, <3>1, Zenon
    <3>3. pending_requests' \in [Server -> SUBSET Requests] /\ clientResponses' \subseteq Responses
      BY <1>3, <3>1, Zenon DEF TypeInv, TypeOK
    <3>4. QED
      BY <1>2, <2>1, <3>1, <3>2, <3>3, Zenon DEF TypeInv, TypeOK, CommitInLog, stateVars, leaderVars
  <2>4. QED
    BY <2>2, <2>3
<1>7. QED
  BY <1>5, <1>6, Zenon DEF HandleAppendEntries

LEMMA HandleAppendResponseType ==
    ASSUME TypeInv, NEW m \in appendResponses, HandleAppendResponse(m)
    PROVE  TypeInv'
<1> DEFINE i == m.to
           p == m.follower_id
           next == [next_index[i] EXCEPT ![p] = StepBack(@)]
           sent == [next_index[i] EXCEPT ![p] = m.match_index + 1]
           match == [match_index[i] EXCEPT ![p] = m.match_index]
<1>1. i \in Server /\ p \in Server /\ m.term \in Nat /\ m.match_index \in Nat
  BY Zenon DEF TypeInv, TypeOK, AppendResponseMsg
<1>2. UNCHANGED <<votes_received, requestVotes, voteResponses, appendResponses, forwarded>>
  BY DEF HandleAppendResponse
<1>3. next \in [Server -> Nat] /\ sent \in [Server -> Nat] /\ match \in [Server -> Nat]
  <2>1. next_index[i] \in [Server -> Nat] /\ match_index[i] \in [Server -> Nat]
    BY <1>1, Zenon DEF TypeInv, TypeOK
  <2>2. StepBack(next_index[i][p]) \in Nat
    BY <1>1, <2>1 DEF StepBack
  <2>3. next \in [Server -> Nat]
    BY <1>1, <2>1, <2>2
  <2>4. sent \in [Server -> Nat]
    BY <1>1, <2>1
  <2>5. match \in [Server -> Nat]
    BY <1>1, <2>1
  <2>6. QED
    BY <2>3, <2>4, <2>5, Zenon
<1>4. CASE /\ StepDown(i, m.term)
           /\ UNCHANGED <<log, stateVars, leaderVars, panicked, appendEntries>>
  <2>1. voted_for' \in [Server -> Server \cup {None}]
    BY <1>4, Zenon DEF StepDown, TypeInv, TypeOK
  <2>2. QED
    BY <1>1, <1>2, <1>4, <2>1, StepDownType, Zenon
       DEF StepDown, TypeInv, TypeOK, CommitInLog, stateVars, leaderVars
<1>5. CASE /\ UNCHANGED <<termVars, role, leader_id, log, panicked, appendEntries>>
           /\ UpdateCommitIndex(i, sent, match, pending_requests[i])
  <2> HIDE DEF next, sent, match
  <2>1. log' \in [Server -> Seq(Entry)]
    BY <1>5 DEF TypeInv, TypeOK
  <2>2. pending_requests[i] \in SUBSET [index : Nat, term : Nat, request : Request]
    BY <1>1, Zenon DEF TypeInv, TypeOK
  <2>3. /\ commit_index' \in [Server -> Nat]
        /\ commit_index'[i] <= Len(log'[i])
        /\ \A j \in Server \ {i} : commit_index'[j] = commit_index[j]
        /\ ApplyCommittedEntries(i, sent, match, pending_requests[i], clientResponses)
    BY <1>1, <1>3, <1>5, <2>1, <2>2, UpdateCommitType, Zenon
  <2>4. CommitInLog'
    BY <1>5, <2>3, Zenon DEF TypeInv, CommitInLog
  <2>5. clientResponses \in SUBSET [request : Request, success : BOOLEAN, index : Nat, term : Nat]
    BY DEF TypeInv, TypeOK
  <2>6. /\ last_applied' \in [Server -> Nat]
        /\ applied' \in [Server -> Seq(Entry)]
        /\ peers' \in [Server -> SUBSET Server]
        /\ next_index' \in [Server -> [Server -> Nat]]
        /\ match_index' \in [Server -> [Server -> Nat]]
        /\ pending_requests' \in [Server -> SUBSET [index : Nat, term : Nat, request : Request]]
        /\ clientResponses' \subseteq
              [request : Request, success : BOOLEAN, index : Nat, term : Nat]
    BY <1>1, <1>3, <2>1, <2>2, <2>3, <2>5, ApplyType, Zenon
  <2>7. QED
    BY <1>2, <1>5, <2>1, <2>3, <2>4, <2>6, Zenon DEF TypeInv, TypeOK, termVars
<1>6. CASE /\ UNCHANGED <<termVars, role, leader_id, log, stateVars, match_index, clientVars>>
           /\ next_index' = [next_index EXCEPT ![i] = next]
           /\ SendAppends(i, {p}, next)
  <2> HIDE DEF next, sent, match
  <2>1. panicked' \subseteq Server /\ appendEntries' \subseteq AppendEntriesMsg
    <3>1. log'[i] \in Seq(Entry) /\ {p} \in SUBSET Server
      BY <1>1, <1>6, Zenon DEF TypeInv, TypeOK
    <3>2. QED
      BY <1>1, <1>3, <1>6, <3>1, SendAppendsType, Zenon
  <2>2. next_index' \in [Server -> [Server -> Nat]]
    BY <1>3, <1>6, Zenon DEF TypeInv, TypeOK
  <2>3. QED
    BY <1>2, <1>6, <2>1, <2>2, Zenon
       DEF TypeInv, TypeOK, CommitInLog, termVars, stateVars, clientVars
<1>7. QED
  BY <1>4, <1>5, <1>6 DEF HandleAppendResponse

LEMMA AppendEntryType ==
    ASSUME TypeInv, NEW i \in Server, NEW payload \in Payload,
           NEW pending \in SUBSET [index : Nat, term : Nat, request : Request],
           AppendEntry(i, payload, pending), UNCHANGED forwarded
    PROVE  TypeInv'
<1> DEFINE e == [term |-> current_term[i], payload |-> payload]
<1>1. /\ log' = [log EXCEPT ![i] = Append(@, e)]
      /\ UNCHANGED <<termVars, role, votes_received, leader_id, requestVotes,
                     voteResponses, appendResponses>>
  BY Zenon DEF AppendEntry
<1>2. Append(log[i], e) \in Seq(Entry) /\ Len(Append(log[i], e)) = Len(log[i]) + 1
  <2>1. e \in Entry /\ log[i] \in Seq(Entry)
    BY Zenon DEF TypeInv, TypeOK, Entry
  <2>2. QED
    BY <2>1, AppendProperties
<1>3. log' \in [Server -> Seq(Entry)]
  BY <1>1, <1>2, Zenon DEF TypeInv, TypeOK
<1>4. /\ \A j \in Server \ {i} : log'[j] = log[j]
      /\ Len(log'[i]) = Len(log[i]) + 1 /\ Len(log[i]) \in Nat
  BY <1>1, <1>2, LenProperties, Zenon DEF TypeInv, TypeOK
<1>5. CASE /\ UpdateCommitIndex(i, next_index[i], match_index[i], pending)
           /\ UNCHANGED <<panicked, appendEntries>>
  <2>1. next_index[i] \in [Server -> Nat] /\ match_index[i] \in [Server -> Nat]
    BY DEF TypeInv, TypeOK
  <2>2. /\ commit_index' \in [Server -> Nat]
        /\ commit_index'[i] <= Len(log'[i])
        /\ \A j \in Server \ {i} : commit_index'[j] = commit_index[j]
        /\ ApplyCommittedEntries(i, next_index[i], match_index[i], pending, clientResponses)
    BY <1>3, <1>5, <2>1, UpdateCommitType, Zenon
  <2>3. CommitInLog'
    BY <1>4, <2>2, Zenon DEF TypeInv, CommitInLog
  <2>4. clientResponses \in SUBSET [request : Request, success : BOOLEAN, index : Nat, term : Nat]
    BY DEF TypeInv, TypeOK
  <2>5. /\ last_applied' \in [Server -> Nat]
        /\ applied' \in [Server -> Seq(Entry)]
        /\ peers' \in [Server -> SUBSET Server]
        /\ next_index' \in [Server -> [Server -> Nat]]
        /\ match_index' \in [Server -> [Server -> Nat]]
        /\ pending_requests' \in [Server -> SUBSET [index : Nat, term : Nat, request : Request]]
        /\ clientResponses' \subseteq
              [request : Request, success : BOOLEAN, index : Nat, term : Nat]
    BY <1>3, <2>1, <2>2, <2>4, ApplyType, Zenon
  <2>6. QED
    BY <1>1, <1>3, <1>5, <2>2, <2>3, <2>5, Zenon DEF TypeInv, TypeOK, termVars
<1>6. CASE /\ SendAppends(i, peers[i], next_index[i])
           /\ pending_requests' = [pending_requests EXCEPT ![i] = pending]
           /\ UNCHANGED <<stateVars, leaderVars, clientResponses>>
  <2>1. panicked' \subseteq Server /\ appendEntries' \subseteq AppendEntriesMsg
    <3>1. log'[i] \in Seq(Entry) /\ peers[i] \in SUBSET Server /\ next_index[i] \in [Server -> Nat]
      BY <1>3 DEF TypeInv, TypeOK
    <3>2. QED
      BY <1>6, <3>1, SendAppendsType, Zenon
  <2>2. pending_requests' \in [Server -> SUBSET [index : Nat, term : Nat, request : Request]]
    BY <1>6, Zenon DEF TypeInv, TypeOK
  <2>3. CommitInLog'
    <3>1. \A j \in Server : /\ commit_index'[j] = commit_index[j]
                           /\ commit_index[j] <= Len(log[j])
      BY <1>6, Zenon DEF TypeInv, CommitInLog, stateVars
    <3>2. \A j \in Server : commit_index[j] \in Nat
      BY DEF TypeInv, TypeOK
    <3>3. QED
      BY <1>4, <3>1, <3>2 DEF CommitInLog
  <2>4. QED
    BY <1>1, <1>3, <1>6, <2>1, <2>2, <2>3, Zenon DEF TypeInv, TypeOK, termVars, stateVars, leaderVars
<1>7. QED
  BY <1>5, <1>6, Zenon DEF AppendEntry

LEMMA ProposeType ==
    ASSUME TypeInv, NEW i \in Server, NEW payload \in Payload, Propose(i, payload)
    PROVE  TypeInv'
<1>1. CASE AppendEntry(i, payload, pending_requests[i]) /\ UNCHANGED forwarded
  <2>1. pending_requests[i] \in SUBSET [index : Nat, term : Nat, request : Request]
    BY DEF TypeInv, TypeOK
  <2>2. QED
    BY <1>1, <2>1, AppendEntryType
<1>2. CASE /\ leader_id[i] # None
           /\ forwarded' = forwarded \cup Sent(i, {[to |-> leader_id[i], payload |-> payload]})
           /\ UNCHANGED <<termVars, log, stateVars, role, votes_received, leader_id,
                          leaderVars, clientVars, panicked, raftMsgs>>
  <2>1. forwarded' \subseteq [to : Server, payload : Payload]
    <3>1. leader_id[i] \in Server /\ forwarded \subseteq [to : Server, payload : Payload]
      BY <1>2 DEF TypeInv, TypeOK
    <3>2. [to |-> leader_id[i], payload |-> payload] \in [to : Server, payload : Payload]
      BY <3>1, Zenon
    <3>3. QED
      BY <1>2, <3>1, <3>2, Zenon DEF Sent
  <2>2. QED
    BY <1>2, <2>1, Zenon DEF TypeInv, TypeOK, CommitInLog, termVars, stateVars, leaderVars,
                      clientVars, raftMsgs
<1>3. QED
  BY <1>1, <1>2, Zenon DEF Propose

LEMMA SubmitStoreWriteType ==
    ASSUME TypeInv, NEW i \in Server, NEW x \in Request, SubmitStoreWrite(i, x)
    PROVE  TypeInv'
<1> DEFINE pending == pending_requests[i] \cup
               {[index |-> Len(log[i]) + 1, term |-> current_term[i], request |-> x]}
<1>1. CASE AppendEntry(i, CommandPayload(x), pending)
  <2>1. CommandPayload(x) \in Payload
    BY DEF CommandPayload, Payload
  <2>2. Len(log[i]) + 1 \in Nat /\ current_term[i] \in Nat
    BY LenProperties DEF TypeInv, TypeOK
  <2>3. pending \in SUBSET [index : Nat, term : Nat, request : Request]
    <3>1. pending_requests[i] \in SUBSET [index : Nat, term : Nat, request : Request]
      BY DEF TypeInv, TypeOK
    <3>2. [index |-> Len(log[i]) + 1, term |-> current_term[i], request |-> x]
             \in [index : Nat, term : Nat, request : Request]
      BY <2>2
    <3>3. QED
      BY <3>1, <3>2, Zenon
  <2>4. UNCHANGED forwarded
    BY DEF SubmitStoreWrite
  <2>5. QED
    BY <1>1, <2>1, <2>3, <2>4, AppendEntryType, Zenon
<1>2. CASE /\ clientResponses' = clientResponses \cup {Response(x, FALSE, 0, current_term[i])}
           /\ UNCHANGED <<termVars, log, stateVars, role, votes_received, leader_id,
                          leaderVars, pending_requests, panicked, raftMsgs>>
           /\ UNCHANGED forwarded
  <2>1. Response(x, FALSE, 0, current_term[i]) \in
           [request : Request, success : BOOLEAN, index : Nat, term : Nat]
    BY DEF Response, TypeInv, TypeOK
  <2>2. QED
    BY <1>2, <2>1, Zenon DEF TypeInv, TypeOK, CommitInLog, termVars, stateVars, leaderVars, raftMsgs
<1>3. QED
  BY <1>1, <1>2, Zenon DEF SubmitStoreWrite

LEMMA RestartType ==
    ASSUME TypeInv, NEW i \in Server, Restart(i)
    PROVE  TypeInv'
BY Zenon DEF TypeInv, TypeOK, CommitInLog, Restart, termVars, stateVars, raftMsgs

LEMMA SendHeartbeatsType ==
    ASSUME TypeInv, NEW i \in Server, SendHeartbeats(i)
    PROVE  TypeInv'
<1>1. log'[i] \in Seq(Entry) /\ peers[i] \in SUBSET Server /\ next_index[i] \in [Server -> Nat]
  BY DEF TypeInv, TypeOK, SendHeartbeats
<1>2. panicked' \subseteq Server /\ appendEntries' \subseteq AppendEntriesMsg
  BY <1>1, SendAppendsType, Zenon DEF SendHeartbeats
<1>3. QED
  BY <1>2, Zenon DEF TypeInv, TypeOK, CommitInLog, SendHeartbeats, termVars, stateVars,
              leaderVars, clientVars

\* Every step keeps the types, and no commit index past a log.
LEMMA TypeStep == TypeInv /\ [Next]_vars => TypeInv'
<1> SUFFICES ASSUME TypeInv, [Next]_vars PROVE TypeInv'
  OBVIOUS
<1>1. ASSUME NEW i \in Server, ElectionTimeout(i) \/ TimeoutMessage(i) PROVE TypeInv'
  BY <1>1, StartElectionType DEF ElectionTimeout, TimeoutMessage
<1>2. ASSUME NEW i \in Server, SendHeartbeats(i) PROVE TypeInv'
  BY <1>2, SendHeartbeatsType
<1>3. ASSUME NEW i \in Server, Restart(i) PROVE TypeInv'
  BY <1>3, RestartType
<1>4. ASSUME NEW m \in requestVotes, HandleRequestVote(m) PROVE TypeInv'
  BY <1>4, HandleRequestVoteType
<1>5. ASSUME NEW m \in voteResponses, HandleVoteResponse(m) PROVE TypeInv'
  BY <1>5, HandleVoteResponseType
<1>6. ASSUME NEW m \in appendEntries, HandleAppendEntries(m) PROVE TypeInv'
  BY <1>6, HandleAppendEntriesType
<1>7. ASSUME NEW m \in appendResponses, HandleAppendResponse(m) PROVE TypeInv'
  BY <1>7, HandleAppendResponseType
<1>8. ASSUME NEW m \in forwarded, HandleForwarded(m) PROVE TypeInv'
  BY <1>8, ProposeType, Zenon DEF HandleForwarded, TypeInv, TypeOK
<1>9. ASSUME NEW i \in Server, NEW c \in Command, ClientCommand(i, CommandPayload(c))
      PROVE  TypeInv'
  <2>1. CommandPayload(c) \in Payload
    BY DEF CommandPayload, Payload
  <2>2. QED
    BY <1>9, <2>1, ProposeType DEF ClientCommand
<1>10. ASSUME NEW i \in Server, NEW x \in Request, ClientRequest(i, x) PROVE TypeInv'
  BY <1>10, SubmitStoreWriteType DEF ClientRequest
<1>11. CASE UNCHANGED vars
  BY <1>11, Zenon DEF vars, TypeInv, TypeOK, CommitInLog
<1>12. CASE NodeStep
  BY <1>12, <1>1, <1>2, <1>3, <1>4, <1>5, <1>6, <1>7, <1>8 DEF NodeStep
<1>13. QED
  BY <1>9, <1>10, <1>11, <1>12 DEF Next

\* So does a membership change submitted at any node.
LEMMA MembershipTypeStep == TypeInv /\ [MembershipNext]_vars => TypeInv'
<1> SUFFICES ASSUME TypeInv, [MembershipNext]_vars PROVE TypeInv'
  OBVIOUS
<1>1. ASSUME NEW i \in Server, NEW p \in Reconfig, ClientCommand(i, p) PROVE TypeInv'
  <2>1. p \in Payload
    BY ReconfigType DEF Payload
  <2>2. QED
    BY <1>1, <2>1, ProposeType DEF ClientCommand
<1>2. CASE [Next]_vars
  BY <1>2, TypeStep
<1>3. QED
  BY <1>1, <1>2 DEF MembershipNext

\* Every reachable state of any cluster is well typed, and no commit index points past
\* its log: what apply_committed_entries indexes is there.
THEOREM TypeCorrect == Spec => [](TypeOK /\ CommitInLog)
<1>1. Init => TypeInv
  BY TypeInit DEF TypeInv
<1>2. QED
  BY <1>1, TypeStep, PTL DEF Spec, TypeInv

\* The same while peers are added and removed: a log cut back past an uncommitted
\* membership entry, or a peer removed and added again, leaves no commit index past a log.
THEOREM MembershipTypeCorrect == MembershipSpec => [](TypeOK /\ CommitInLog)
<1>1. Init => TypeInv
  BY TypeInit DEF TypeInv
<1>2. QED
  BY <1>1, MembershipTypeStep, PTL DEF MembershipSpec, TypeInv

-----------------------------------------------------------------------------
(* A leader has a next_index for each of its peers, whoever is added or    *)
(* removed                                                                 *)

\* Node i need not look for a next_index in vain.
Tracked(i) == role[i] = Leader => \A p \in peers[i] : next_index[i][p] > 0

\* apply_committed_entries starts tracking the peers it adds.
LEMMA ApplyTracks ==
    ASSUME TypeInv, NEW i \in Server, log' \in [Server -> Seq(Entry)],
           NEW next \in [Server -> Nat], NEW match, NEW pending, NEW responses,
           ApplyCommittedEntries(i, next, match, pending, responses),
           role'[i] = Leader => \A p \in peers[i] : next[p] > 0
    PROVE  /\ Tracked(i)'
           /\ \A j \in Server \ {i} : peers'[j] = peers[j] /\ next_index'[j] = next_index[j]
<1> DEFINE l  == log'[i]
           ks == last_applied[i] + 1 .. commit_index'[i]
           Left == {p \in Server \ {i} : Adds(l, ks, p) \/ (p \in peers[i] /\ ~Removes(l, ks, p))}
           Then(p) == NextAfter(role'[i] = Leader, l, ks, next[p], p)
<1>1. /\ peers' = [peers EXCEPT ![i] = Left]
      /\ next_index' = [next_index EXCEPT ![i] = [p \in Server |-> Then(p)]]
  BY Zenon DEF ApplyCommittedEntries
<1>2. /\ peers \in [Server -> SUBSET Server] /\ next_index \in [Server -> [Server -> Nat]]
  BY Zenon DEF TypeInv, TypeOK
<1>3. Len(l) \in Nat
  BY LenProperties
<1>4. ASSUME role'[i] = Leader, NEW p \in Left PROVE Then(p) > 0
  <2>1. Adds(l, ks, p) \/ (next[p] > 0 /\ ~Removes(l, ks, p))
    BY <1>4, Zenon
  <2>2. next[p] \in Nat
    BY <1>4
  <2> HIDE DEF l, ks
  <2>3. QED
    BY <1>3, <1>4, <2>1, <2>2 DEF NextAfter
<1> HIDE DEF Left, l, ks
<1>5. peers'[i] = Left /\ next_index'[i] = [p \in Server |-> Then(p)]
  BY <1>1, <1>2
<1>6. Left \subseteq Server
  BY DEF Left
<1>7. Tracked(i)'
  BY <1>4, <1>5, <1>6 DEF Tracked
<1>8. QED
  BY <1>1, <1>2, <1>7

\* A step that changes no peer set and no next_index, and makes no leader.
LEMMA SameTracked ==
    ASSUME ProgressForPeers, UNCHANGED <<peers, next_index>>,
           \A j \in Server : role'[j] = Leader => role[j] = Leader
    PROVE  ProgressForPeers'
BY DEF ProgressForPeers

\* A step of node i that leaves the others alone.
LEMMA OthersTracked ==
    ASSUME ProgressForPeers, NEW i \in Server, Tracked(i)',
           \A j \in Server \ {i} : /\ peers'[j] = peers[j] /\ next_index'[j] = next_index[j]
                                   /\ role'[j] = role[j]
    PROVE  ProgressForPeers'
BY DEF ProgressForPeers, Tracked

LEMMA BecomeLeaderTracked ==
    ASSUME TypeInv, ProgressForPeers, NEW i \in Server, BecomeLeader(i), UNCHANGED stateVars
    PROVE  ProgressForPeers'
<1> DEFINE f == [p \in Server |-> IF p \in peers[i] THEN Len(log[i]) + 1 ELSE next_index[i][p]]
<1>1. /\ role' = [role EXCEPT ![i] = Leader] /\ peers' = peers
      /\ next_index' = [next_index EXCEPT ![i] = f]
  BY Zenon DEF BecomeLeader, stateVars
<1>2. /\ DOMAIN role = Server /\ DOMAIN next_index = Server /\ peers[i] \subseteq Server
      /\ Len(log[i]) \in Nat
  BY LenProperties DEF TypeInv, TypeOK
<1>3. \A p \in peers[i] : f[p] > 0
  BY <1>2
<1> HIDE DEF f
<1>4. Tracked(i)'
  BY <1>1, <1>2, <1>3 DEF Tracked
<1>5. QED
  BY <1>1, <1>2, <1>4, OthersTracked

LEMMA UpdateCommitTracked ==
    ASSUME TypeInv, ProgressForPeers, NEW i \in Server, log' \in [Server -> Seq(Entry)],
           NEW next \in [Server -> Nat], NEW match, NEW pending,
           UpdateCommitIndex(i, next, match, pending), UNCHANGED role,
           \A p \in peers[i] : next[p] > 0
    PROVE  ProgressForPeers'
<1>1. ApplyCommittedEntries(i, next, match, pending, clientResponses)
  BY Zenon DEF UpdateCommitIndex
<1>2. QED
  BY <1>1, ApplyTracks, OthersTracked, Zenon

LEMMA AppendEntryTracked ==
    ASSUME TypeInv, TypeInv', ProgressForPeers, NEW i \in Server, NEW payload, NEW pending,
           AppendEntry(i, payload, pending)
    PROVE  ProgressForPeers'
<1>1. log' \in [Server -> Seq(Entry)] /\ next_index[i] \in [Server -> Nat]
  BY DEF TypeInv, TypeOK
<1>2. UNCHANGED role
  BY Zenon DEF AppendEntry
<1>3. CASE peers[i] = {}
  <2>1. UpdateCommitIndex(i, next_index[i], match_index[i], pending)
    BY <1>3, Zenon DEF AppendEntry
  <2>2. QED
    BY <1>1, <1>2, <1>3, <2>1, UpdateCommitTracked, Zenon
<1>4. CASE peers[i] # {}
  <2>1. UNCHANGED <<peers, next_index>>
    BY <1>4, Zenon DEF AppendEntry, stateVars, leaderVars
  <2>2. QED
    BY <1>2, <2>1, SameTracked
<1>5. QED
  BY <1>3, <1>4

LEMMA HandleAppendEntriesTracked ==
    ASSUME TypeInv, TypeInv', ProgressForPeers, NEW m \in appendEntries, HandleAppendEntries(m)
    PROVE  ProgressForPeers'
<1> DEFINE i == m.to
<1>1. /\ i \in Server /\ log' \in [Server -> Seq(Entry)]
      /\ role \in [Server -> {Follower, Candidate, Leader}]
      /\ next_index \in [Server -> [Server -> Nat]]
  BY Zenon DEF TypeInv, TypeOK, AppendEntriesMsg
<1>2. \/ UNCHANGED <<role, peers, next_index>>
      \/ role' = [role EXCEPT ![i] = Follower] /\ UNCHANGED <<peers, next_index>>
      \/ /\ role' = [role EXCEPT ![i] = Follower]
         /\ \E match, pending, responses :
               ApplyCommittedEntries(i, next_index[i], match, pending, responses)
  BY Zenon DEF HandleAppendEntries, stateVars, leaderVars
<1>3. CASE UNCHANGED <<role, peers, next_index>>
  BY <1>3, SameTracked
<1>4. ASSUME role' = [role EXCEPT ![i] = Follower]
      PROVE  role'[i] # Leader /\ \A j \in Server \ {i} : role'[j] = role[j]
  BY <1>1, <1>4 DEF Follower, Leader
<1>5. CASE role' = [role EXCEPT ![i] = Follower] /\ UNCHANGED <<peers, next_index>>
  BY <1>4, <1>5, SameTracked
<1>6. ASSUME role' = [role EXCEPT ![i] = Follower], NEW match, NEW pending, NEW responses,
             ApplyCommittedEntries(i, next_index[i], match, pending, responses)
      PROVE  ProgressForPeers'
  <2>1. next_index[i] \in [Server -> Nat]
    BY <1>1
  <2>2. Tracked(i)' /\ \A j \in Server \ {i} : peers'[j] = peers[j] /\ next_index'[j] = next_index[j]
    BY <1>1, <1>4, <1>6, <2>1, ApplyTracks, Zenon
  <2>3. QED
    BY <1>1, <1>4, <1>6, <2>2, OthersTracked, Zenon
<1>7. QED
  BY <1>2, <1>3, <1>5, <1>6, Zenon

LEMMA HandleAppendResponseTracked ==
    ASSUME TypeInv, TypeInv', ProgressForPeers, NEW m \in appendResponses, HandleAppendResponse(m)
    PROVE  ProgressForPeers'
<1> DEFINE i == m.to
           q == m.follower_id
           back  == [next_index[i] EXCEPT ![q] = StepBack(@)]
           next  == [next_index[i] EXCEPT ![q] = m.match_index + 1]
           match == [match_index[i] EXCEPT ![q] = m.match_index]
<1>1. /\ i \in Server /\ q \in Server /\ m.match_index \in Nat /\ log' \in [Server -> Seq(Entry)]
      /\ role \in [Server -> {Follower, Candidate, Leader}] /\ peers \in [Server -> SUBSET Server]
      /\ next_index \in [Server -> [Server -> Nat]]
  BY Zenon DEF TypeInv, TypeOK, AppendResponseMsg
<1>2. \/ role' = [role EXCEPT ![i] = Follower] /\ UNCHANGED <<peers, next_index>>
      \/ /\ role[i] = Leader /\ UNCHANGED role
         /\ UpdateCommitIndex(i, next, match, pending_requests[i])
      \/ /\ role[i] = Leader /\ UNCHANGED <<role, peers>>
         /\ next_index' = [next_index EXCEPT ![i] = back]
  BY Zenon DEF HandleAppendResponse, StepDown, AdoptTerm, stateVars, leaderVars
<1>3. CASE role' = [role EXCEPT ![i] = Follower] /\ UNCHANGED <<peers, next_index>>
  <2>1. \A j \in Server : role'[j] = Leader => role[j] = Leader
    BY <1>1, <1>3 DEF Follower, Leader
  <2>2. QED
    BY <1>3, <2>1, SameTracked
<1>4. CASE /\ role[i] = Leader /\ UNCHANGED role
           /\ UpdateCommitIndex(i, next, match, pending_requests[i])
  <2>1. \A p \in peers[i] : next_index[i][p] > 0
    BY <1>1, <1>4, Zenon DEF ProgressForPeers
  <2>2. next \in [Server -> Nat] /\ \A p \in peers[i] : next[p] > 0
    <3>1. m.match_index + 1 \in Nat /\ m.match_index + 1 > 0
      BY <1>1
    <3>2. QED
      BY <1>1, <2>1, <3>1, Zenon
  <2> HIDE DEF next, match
  <2>3. QED
    BY <1>1, <1>4, <2>2, UpdateCommitTracked, Zenon
<1>5. CASE /\ role[i] = Leader /\ UNCHANGED <<role, peers>>
           /\ next_index' = [next_index EXCEPT ![i] = back]
  <2>1. \A p \in peers[i] : next_index[i][p] > 0
    BY <1>1, <1>5, Zenon DEF ProgressForPeers
  <2>2. \A p \in peers[i] : back[p] > 0
    BY <1>1, <2>1 DEF StepBack
  <2> HIDE DEF back
  <2>3. Tracked(i)'
    BY <1>1, <1>5, <2>2 DEF Tracked
  <2>4. QED
    BY <1>1, <1>5, <2>3, OthersTracked
<1>6. QED
  BY <1>2, <1>3, <1>4, <1>5

LEMMA ProgressForPeersStep ==
    ASSUME TypeInv, TypeInv', ProgressForPeers, [MembershipNext]_vars
    PROVE  ProgressForPeers'
<1>1. ASSUME NEW i \in Server, StartElection(i) PROVE ProgressForPeers'
  <2>1. CASE BecomeLeader(i)
    <3>1. UNCHANGED stateVars
      BY <1>1, Zenon DEF StartElection
    <3>2. QED
      BY <2>1, <3>1, BecomeLeaderTracked
  <2>2. CASE role' = [role EXCEPT ![i] = Candidate] /\ UNCHANGED <<peers, next_index>>
    <3>1. \A j \in Server : role'[j] = Leader => role[j] = Leader
      BY <2>2 DEF TypeInv, TypeOK, Candidate, Leader
    <3>2. QED
      BY <2>2, <3>1, SameTracked
  <2>3. QED
    BY <1>1, <2>1, <2>2, Zenon DEF StartElection, stateVars, leaderVars
<1>2. ASSUME NEW i \in Server, SendHeartbeats(i) PROVE ProgressForPeers'
  <2>1. UNCHANGED <<peers, next_index, role>>
    BY <1>2, Zenon DEF SendHeartbeats, stateVars, leaderVars
  <2>2. QED
    BY <2>1, SameTracked
<1>3. ASSUME NEW i \in Server, Restart(i) PROVE ProgressForPeers'
  <2>1. /\ role' = [role EXCEPT ![i] = Follower] /\ UNCHANGED peers
        /\ next_index' = [next_index EXCEPT ![i] = [p \in Server |-> 0]]
    BY <1>3, Zenon DEF Restart, stateVars
  <2>2. DOMAIN role = Server /\ DOMAIN next_index = Server
    BY DEF TypeInv, TypeOK
  <2>3. Tracked(i)'
    BY <2>1, <2>2 DEF Tracked, Follower, Leader
  <2>4. QED
    BY <2>1, <2>2, <2>3, OthersTracked
<1>4. ASSUME NEW m \in requestVotes, HandleRequestVote(m) PROVE ProgressForPeers'
  <2>1. /\ UNCHANGED <<peers, next_index>>
        /\ UNCHANGED role \/ role' = [role EXCEPT ![m.to] = Follower]
    BY <1>4, Zenon DEF HandleRequestVote, AdoptTerm, stateVars, leaderVars
  <2>2. \A j \in Server : role'[j] = Leader => role[j] = Leader
    BY <2>1, Zenon DEF TypeInv, TypeOK, RequestVoteMsg, Follower, Leader
  <2>3. QED
    BY <2>1, <2>2, SameTracked
<1>5. ASSUME NEW m \in voteResponses, HandleVoteResponse(m) PROVE ProgressForPeers'
  <2>1. m.to \in Server
    BY DEF TypeInv, TypeOK, VoteResponseMsg
  <2>2. /\ UNCHANGED stateVars
        /\ \/ BecomeLeader(m.to)
           \/ UNCHANGED <<role, next_index>>
           \/ role' = [role EXCEPT ![m.to] = Follower] /\ UNCHANGED next_index
    BY <1>5, Zenon DEF HandleVoteResponse, StepDown, AdoptTerm, leaderVars
  <2>3. CASE BecomeLeader(m.to)
    BY <2>1, <2>2, <2>3, BecomeLeaderTracked
  <2>4. CASE (UNCHANGED role \/ role' = [role EXCEPT ![m.to] = Follower]) /\ UNCHANGED next_index
    <3>1. UNCHANGED peers
      BY <2>2, Zenon DEF stateVars
    <3>2. \A j \in Server : role'[j] = Leader => role[j] = Leader
      BY <2>1, <2>4, Zenon DEF TypeInv, TypeOK, Follower, Leader
    <3>3. QED
      BY <2>4, <3>1, <3>2, SameTracked
  <2>5. QED
    BY <2>2, <2>3, <2>4
<1>6. ASSUME NEW i \in Server, NEW payload, Propose(i, payload) PROVE ProgressForPeers'
  <2>1. CASE UNCHANGED <<peers, next_index, role>>
    BY <2>1, SameTracked
  <2>2. QED
    BY <1>6, <2>1, AppendEntryTracked, Zenon DEF Propose, stateVars, leaderVars
<1>7. ASSUME NEW i \in Server, NEW x, ClientRequest(i, x) PROVE ProgressForPeers'
  <2>1. CASE UNCHANGED <<peers, next_index, role>>
    BY <2>1, SameTracked
  <2>2. QED
    BY <1>7, <2>1, AppendEntryTracked, Zenon DEF ClientRequest, SubmitStoreWrite, stateVars, leaderVars
<1>8. ASSUME NEW m \in forwarded, HandleForwarded(m) PROVE ProgressForPeers'
  <2>1. m.to \in Server
    BY DEF TypeInv, TypeOK
  <2>2. QED
    BY <1>6, <1>8, <2>1 DEF HandleForwarded
<1>9. CASE UNCHANGED vars
  BY <1>9, SameTracked DEF vars
<1>10. QED
  BY <1>1, <1>2, <1>3, <1>4, <1>5, <1>6, <1>7, <1>8, <1>9, HandleAppendEntriesTracked,
     HandleAppendResponseTracked, Zenon
     DEF MembershipNext, Next, NodeStep, ElectionTimeout, TimeoutMessage, ClientCommand

\* However entries that add and remove peers are committed, applied in batches, cut off
\* again or overtaken by elections, a leader has a next_index for every one of its peers:
\* make_append_entries finds one for each peer that send_heartbeats sends to.
THEOREM PeersAlwaysTracked == MembershipSpec => []ProgressForPeers
<1>1. Init => ProgressForPeers
  BY DEF Init, ProgressForPeers, Follower, Leader
<1>2. TypeInv /\ TypeInv' /\ ProgressForPeers /\ [MembershipNext]_vars => ProgressForPeers'
  BY ProgressForPeersStep
<1>3. MembershipSpec => []TypeInv
  BY MembershipTypeCorrect, PTL DEF TypeInv
<1>4. QED
  BY <1>1, <1>2, <1>3, PTL DEF MembershipSpec

-----------------------------------------------------------------------------
(* The gateway: no node is asked twice, and a membership handler's check   *)
(* holds until it answers                                                  *)

\* A set of natural numbers that is not empty has a least element.
LEMMA LeastIndex ==
    ASSUME NEW T \in SUBSET Nat, T # {}
    PROVE  \E k \in T : \A j \in T : ~(j < k)
<1>1. \E k \in T : \A j \in T : <<j, k>> \notin OpToRel(<, Nat)
  BY NatLessThanWellFounded, WFMin, Zenon
<1>2. \A j, k \in Nat : j < k => <<j, k>> \in OpToRel(<, Nat)
  BY DEF OpToRel
<1>3. QED
  BY <1>1, <1>2, Zenon

\* The node that executeRust asks next is one it has not tried.
LEMMA TargetUntried ==
    ASSUME GatewayTypes, NEW c \in Call, Candidates(c) # {}
    PROVE  NextTarget(c) \in untried[c] /\ NextTarget(c) \in Server
<1> DEFINE T == {k \in DOMAIN Ids : Ids[k] \in untried[c]}
           Least(k) == Ids[k] \in untried[c] /\ \A j \in 1 .. k - 1 : Ids[j] \notin untried[c]
<1>1. untried[c] \in SUBSET Server /\ untried[c] # {}
  BY Zenon DEF GatewayTypes, Candidates
<1>2. DOMAIN Ids = 1 .. Len(Ids) /\ Len(Ids) \in Nat
  BY OperationType, LenProperties
<1>3. T \in SUBSET Nat /\ T # {}
  <2>1. PICK x \in Server : x \in untried[c]
    BY <1>1, Zenon
  <2>2. PICK k \in DOMAIN Ids : Ids[k] = x
    BY OperationType, Zenon
  <2>3. T \in SUBSET Nat
    BY <1>2
  <2>4. QED
    BY <2>1, <2>2, <2>3, Zenon
<1>4. PICK k \in T : \A j \in T : ~(j < k)
  BY <1>3, LeastIndex, Zenon
<1>5. ASSUME NEW j \in 1 .. k - 1 PROVE Ids[j] \notin untried[c]
  <2>1. j \in DOMAIN Ids /\ j < k
    BY <1>2, <1>4
  <2>2. QED
    BY <1>4, <2>1, Zenon
<1>6. \E n \in DOMAIN Ids : Least(n)
  BY <1>4, <1>5, Zenon
<1>7. Ids[CHOOSE n \in DOMAIN Ids : Least(n)] \in untried[c]
  BY <1>6, Zenon
<1>8. QED
  BY <1>1, <1>7, Zenon DEF NextTarget, Candidates

\* What a step of call c keeps, as far as the other calls are concerned.
OthersKept(c) ==
    /\ op' = op
    /\ \A d \in Call \ {c} : stage'[d] = stage[d] /\ untried'[d] = untried[d]
    /\ \A d \in Call \ {c} : op[d].kind \in {"add", "remove"} /\ membershipMu = d =>
          membershipMu' = d /\ registry' = registry
    /\ \A d \in Call \ {c} : conn'[d] = conn[d]

\* A step that leaves the other calls alone is right if it is for call c.
LEMMA OneCallKeeps ==
    ASSUME GatewayInv, GatewayTypes', NEW c \in Call, OthersKept(c),
           /\ stage'[c] \in {"body", "loop", "wait"} /\ op[c].kind \in {"add", "remove"}
           => membershipMu' = c,
           stage'[c] \in {"loop", "wait"} => ~Refused(op[c])',
           \A i \in Server :
              stage'[c] \in {"new", "body"} \/ i \in untried'[c] => conn'[c][i].at = "none"
    PROVE  GatewayInv'
<1>1. ASSUME NEW d \in Call \ {c}
      PROVE  /\ stage'[d] \in {"body", "loop", "wait"} /\ op'[d].kind \in {"add", "remove"}
                => membershipMu' = d
             /\ stage'[d] \in {"loop", "wait"} => ~Refused(op[d])'
  <2>1. op' = op /\ stage'[d] = stage[d]
    BY Zenon DEF OthersKept
  <2>2. CASE op[d].kind \in {"add", "remove"}
    <3>1. ASSUME stage[d] \in {"body", "loop", "wait"}
          PROVE  membershipMu' = d /\ registry' = registry
      <4>1. membershipMu = d
        BY <2>2, <3>1, Zenon DEF GatewayInv, ChangeHoldsMutex
      <4>2. QED
        BY <2>2, <4>1, Zenon DEF OthersKept
    <3>2. stage[d] \in {"loop", "wait"} => ~Refused(op[d])
      BY Zenon DEF GatewayInv, CheckedUntilDone
    <3>3. QED
      BY <2>1, <3>1, <3>2, Zenon DEF Refused
  <2>3. CASE op[d].kind \notin {"add", "remove"}
    BY <2>1, <2>3, Zenon DEF Refused
  <2>4. QED
    BY <2>2, <2>3, Zenon
<1>2. ASSUME NEW d \in Call \ {c}, NEW i \in Server,
             stage'[d] \in {"new", "body"} \/ i \in untried'[d]
      PROVE  conn'[d][i].at = "none"
  <2>1. stage[d] \in {"new", "body"} \/ i \in untried[d]
    BY <1>2, Zenon DEF OthersKept
  <2>2. conn[d][i].at = "none"
    BY <2>1, Zenon DEF GatewayInv, UntriedNotAsked
  <2>3. QED
    BY <2>2, Zenon DEF OthersKept
<1>0. op' = op
  BY Zenon DEF OthersKept
<1>3. ChangeHoldsMutex'
  BY <1>0, <1>1, Zenon DEF ChangeHoldsMutex
<1>4. CheckedUntilDone'
  BY <1>1, Zenon DEF CheckedUntilDone
<1>5. UntriedNotAsked'
  BY <1>2, Zenon DEF UntriedNotAsked
<1>6. QED
  BY <1>3, <1>4, <1>5, Zenon DEF GatewayInv

\* No connection that exists is used for another request.
KeepsConnections ==
    \A c \in Call, i \in Server :
        conn[c][i].at # "none" /\ conn'[c][i] # conn[c][i] => conn'[c][i].at # "sent"

\* A handler that answers gives up the mutex only if it holds it, and changes the
\* registry only if it asked for a membership change, when no other call does.
LEMMA FinishKeeps ==
    ASSUME GatewayInv, NEW c \in Call, NEW s, Finish(c, s), UNCHANGED <<op, untried, conn>>,
           stage[c] \in {"body", "loop", "wait"} \/ \A d \in Call : membershipMu # d
    PROVE  GatewayInv'
<1>1. /\ stage' = [stage EXCEPT ![c] = "done"] /\ registry' \subseteq Server
      /\ stage \in [Call -> {"new", "body", "loop", "wait", "done"}]
  BY Zenon DEF Finish, GatewayInv, GatewayTypes
<1>2. GatewayTypes'
  BY <1>1, Zenon DEF GatewayInv, GatewayTypes
<1>3. ASSUME NEW d \in Call \ {c}, membershipMu = d
      PROVE  membershipMu' = d /\ registry' = registry
  <2>1. op[c].kind \notin {"add", "remove"}
    BY <1>3, Zenon DEF GatewayInv, ChangeHoldsMutex
  <2>2. \A x : op[c] # [kind |-> "add", id |-> x] /\ op[c] # [kind |-> "remove", id |-> x]
    BY <2>1
  <2>3. QED
    BY <1>3, <2>2, Zenon DEF Finish
<1>4. OthersKept(c)
  BY <1>1, <1>3, Zenon DEF OthersKept
<1>5. stage'[c] = "done"
  BY <1>1, Zenon
<1>6. stage'[c] \notin {"new", "body", "loop", "wait"}
  BY <1>5
<1>7. \A i \in Server : i \in untried'[c] => conn'[c][i].at = "none"
  BY Zenon DEF GatewayInv, UntriedNotAsked
<1>8. QED
  BY <1>2, <1>4, <1>6, <1>7, OneCallKeeps, Zenon

\* executeRust begins, for a call that no check of another call depends on.
LEMMA BeginKeeps ==
    ASSUME GatewayInv, NEW c \in Call, Begin(c), stage[c] \in {"new", "body"}, ~Refused(op[c]),
           op[c].kind \in {"add", "remove"} => membershipMu' = c,
           \A d \in Call \ {c} : membershipMu = d => membershipMu' = d
    PROVE  GatewayInv' /\ KeepsConnections
<1>1. /\ stage' = [stage EXCEPT ![c] = "loop"] /\ op' = op
      /\ untried' = [untried EXCEPT ![c] = registry] /\ registry' = registry /\ conn' = conn
  BY Zenon DEF Begin
<1>2. /\ stage \in [Call -> {"new", "body", "loop", "wait", "done"}]
      /\ untried \in [Call -> SUBSET Server] /\ registry \subseteq Server
  BY Zenon DEF GatewayInv, GatewayTypes
<1>3. GatewayTypes'
  BY <1>1, <1>2, Zenon DEF GatewayInv, GatewayTypes
<1>4. OthersKept(c)
  BY <1>1, <1>2, Zenon DEF OthersKept
<1>5. ~Refused(op[c])'
  BY <1>1, Zenon DEF Refused
<1>6. \A i \in Server : conn'[c][i].at = "none"
  BY <1>1, Zenon DEF GatewayInv, UntriedNotAsked
<1>7. GatewayInv'
  BY <1>3, <1>4, <1>5, <1>6, OneCallKeeps, Zenon
<1>8. QED
  BY <1>1, <1>7, Zenon DEF KeepsConnections

\* A call waits no longer for an answer, or not yet.
LEMMA GoesOnKeeps ==
    ASSUME GatewayInv, NEW c \in Call, stage[c] \in {"loop", "wait"}, NEW to \in {"loop", "wait"},
           stage' = [stage EXCEPT ![c] = to], UNCHANGED <<registry, membershipMu, op, untried, conn>>
    PROVE  GatewayInv'
<1>1. stage \in [Call -> {"new", "body", "loop", "wait", "done"}]
  BY Zenon DEF GatewayInv, GatewayTypes
<1>2. stage'[c] \notin {"new", "body"}
  BY <1>1
<1>3. GatewayTypes'
  BY <1>1, Zenon DEF GatewayInv, GatewayTypes
<1>4. OthersKept(c)
  BY <1>1, Zenon DEF OthersKept
<1>5. ~Refused(op[c])'
  BY Zenon DEF Refused, GatewayInv, CheckedUntilDone
<1>6. op[c].kind \in {"add", "remove"} => membershipMu' = c
  BY Zenon DEF GatewayInv, ChangeHoldsMutex
<1>7. \A i \in Server : i \in untried'[c] => conn'[c][i].at = "none"
  BY Zenon DEF GatewayInv, UntriedNotAsked
<1>8. QED
  BY <1>2, <1>3, <1>4, <1>5, <1>6, <1>7, OneCallKeeps, Zenon

LEMMA CallRustKeeps ==
    ASSUME GatewayInv, NEW c \in Call, CallRust(c)
    PROVE  GatewayInv' /\ KeepsConnections
<1> DEFINE n == NextTarget(c)
<1>1. n \in untried[c] /\ n \in Server /\ conn[c][n].at = "none"
  BY TargetUntried, Zenon DEF CallRust, GatewayInv, UntriedNotAsked
<1>2. /\ untried' = [untried EXCEPT ![c] = @ \ {n}]
      /\ stage[c] = "loop" /\ UNCHANGED <<registry, membershipMu, op>>
      /\ \/ /\ stage' = [stage EXCEPT ![c] = "wait"]
            /\ conn' = [conn EXCEPT ![c][n] = Conn("sent", FALSE, None)]
         \/ UNCHANGED <<stage, conn>>
  BY Zenon DEF CallRust
<1> HIDE DEF n
<1>3. /\ stage \in [Call -> {"new", "body", "loop", "wait", "done"}] /\ untried \in [Call -> SUBSET Server]
      /\ DOMAIN conn = Call /\ \A d \in Call : DOMAIN conn[d] = Server
  BY Zenon DEF GatewayInv, GatewayTypes
<1>4. /\ untried' \in [Call -> SUBSET Server] /\ untried'[c] = untried[c] \ {n}
      /\ \A d \in Call \ {c} : untried'[d] = untried[d]
  BY <1>2, <1>3, Zenon
<1>5. /\ DOMAIN conn' = Call /\ \A d \in Call : DOMAIN conn'[d] = Server
      /\ \A d \in Call \ {c} : conn'[d] = conn[d]
      /\ \A i \in Server \ {n} : conn'[c][i] = conn[c][i]
  BY <1>1, <1>2, <1>3, Zenon
<1>6. /\ stage' \in [Call -> {"new", "body", "loop", "wait", "done"}]
      /\ stage'[c] \in {"loop", "wait"}
      /\ \A d \in Call \ {c} : stage'[d] = stage[d]
  BY <1>2, <1>3, Zenon
<1>7. GatewayTypes'
  BY <1>2, <1>4, <1>5, <1>6, Zenon DEF GatewayInv, GatewayTypes
<1>8. OthersKept(c)
  BY <1>2, <1>4, <1>5, <1>6, Zenon DEF OthersKept
<1>9. ~Refused(op[c])'
  BY <1>2, Zenon DEF Refused, GatewayInv, CheckedUntilDone
<1>10. op[c].kind \in {"add", "remove"} => membershipMu' = c
  BY <1>2, Zenon DEF GatewayInv, ChangeHoldsMutex
<1>11. ASSUME NEW i \in Server, i \in untried'[c] PROVE conn'[c][i].at = "none"
  <2>1. i \in untried[c] /\ i \in Server \ {n}
    BY <1>4, <1>11, Zenon
  <2>2. conn[c][i].at = "none"
    BY <2>1, Zenon DEF GatewayInv, UntriedNotAsked
  <2>3. QED
    BY <1>5, <2>1, <2>2, Zenon
<1>a. stage'[c] \notin {"new", "body"}
  BY <1>6
<1>12. GatewayInv'
  BY <1>2, <1>a, <1>7, <1>8, <1>9, <1>10, <1>11, OneCallKeeps, Zenon
<1>13. KeepsConnections
  BY <1>1, <1>5, Zenon DEF KeepsConnections
<1>14. QED
  BY <1>12, <1>13, Zenon

\* A node answers a request that was sent to it, or takes it.
LEMMA ServiceRequestKeeps ==
    ASSUME GatewayInv, NEW c \in Call, NEW i \in Server, HandleServiceRequest(c, i)
    PROVE  GatewayInv' /\ KeepsConnections
<1>1. PICK r : conn' = [conn EXCEPT ![c][i] = r] /\ r.at # "sent"
  <2>1. \/ conn' = [conn EXCEPT ![c][i] = Conn("answered", TRUE, leader_id[i])]
        \/ conn' = [conn EXCEPT ![c][i] = Conn("submitted", FALSE, None)]
        \/ conn' = [conn EXCEPT ![c][i] = Conn("answered", FALSE, leader_id[i])]
        \/ conn' = [conn EXCEPT ![c][i] = Conn("answered", TRUE, None)]
    BY Zenon DEF HandleServiceRequest
  <2>2. \A ok, l : Conn("answered", ok, l).at # "sent" /\ Conn("submitted", ok, l).at # "sent"
    BY DEF Conn
  <2>3. QED
    BY <2>1, <2>2, Zenon
<1>2. conn[c][i].at = "sent" /\ UNCHANGED <<registry, membershipMu, op, stage, untried>>
  BY Zenon DEF HandleServiceRequest, callVars
<1>3. DOMAIN conn = Call /\ \A d \in Call : DOMAIN conn[d] = Server
  BY Zenon DEF GatewayInv, GatewayTypes
<1>4. /\ DOMAIN conn' = Call /\ \A d \in Call : DOMAIN conn'[d] = Server
      /\ \A d \in Call \ {c} : conn'[d] = conn[d]
      /\ \A j \in Server \ {i} : conn'[c][j] = conn[c][j]
      /\ conn'[c][i] = r
  BY <1>1, <1>3, Zenon
<1>5. stage[c] \notin {"new", "body"} /\ i \notin untried[c]
  <2>1. conn[c][i].at # "none"
    BY <1>2
  <2>2. QED
    BY <2>1, Zenon DEF GatewayInv, UntriedNotAsked
<1>6. GatewayTypes'
  BY <1>2, <1>4, Zenon DEF GatewayInv, GatewayTypes
<1>7. OthersKept(c)
  BY <1>2, <1>4, Zenon DEF OthersKept
<1>8. stage'[c] \in {"loop", "wait"} => ~Refused(op[c])'
  BY <1>2, Zenon DEF Refused, GatewayInv, CheckedUntilDone
<1>9. stage'[c] \in {"body", "loop", "wait"} /\ op[c].kind \in {"add", "remove"} => membershipMu' = c
  BY <1>2, Zenon DEF GatewayInv, ChangeHoldsMutex
<1>10. ASSUME NEW j \in Server, stage'[c] \in {"new", "body"} \/ j \in untried'[c]
       PROVE  conn'[c][j].at = "none"
  <2>1. j \in untried[c] /\ j \in Server \ {i}
    BY <1>2, <1>5, <1>10, Zenon
  <2>2. conn[c][j].at = "none"
    BY <2>1, Zenon DEF GatewayInv, UntriedNotAsked
  <2>3. QED
    BY <1>4, <2>1, <2>2, Zenon
<1>11. GatewayInv'
  BY <1>6, <1>7, <1>8, <1>9, <1>10, OneCallKeeps, Zenon
<1>12. KeepsConnections
  BY <1>1, <1>4, Zenon DEF KeepsConnections
<1>13. QED
  BY <1>11, <1>12, Zenon

LEMMA GatewayStep == GatewayInv /\ [GatewayNext]_allVars => GatewayInv' /\ KeepsConnections
<1> SUFFICES ASSUME GatewayInv, [GatewayNext]_allVars PROVE GatewayInv' /\ KeepsConnections
  OBVIOUS
<1>1. CASE UNCHANGED gatewayVars
  <2>1. UNCHANGED <<registry, membershipMu, op, stage, untried, conn>>
    BY <1>1, Zenon DEF gatewayVars, callVars
  <2>2. GatewayTypes' /\ ChangeHoldsMutex' /\ UntriedNotAsked'
    BY <2>1, Zenon DEF GatewayInv, GatewayTypes, ChangeHoldsMutex, UntriedNotAsked
  <2>3. CheckedUntilDone'
    BY <2>1, Zenon DEF GatewayInv, CheckedUntilDone, Refused
  <2>4. QED
    BY <2>1, <2>2, <2>3, Zenon DEF GatewayInv, KeepsConnections
<1>r. ASSUME NEW c \in Call, NEW s, Refuse(c, s),
             stage[c] = "body" \/ \A d \in Call : membershipMu # d
      PROVE  GatewayInv' /\ KeepsConnections
  <2>1. Finish(c, s) /\ UNCHANGED <<op, untried, conn>>
    BY <1>r, Zenon DEF Refuse
  <2>2. GatewayInv'
    BY <1>r, <2>1, FinishKeeps, Zenon
  <2>3. QED
    BY <2>1, <2>2, Zenon DEF KeepsConnections
<1>2. ASSUME NEW c \in Call, HandleKV(c) PROVE GatewayInv' /\ KeepsConnections
  <2>1. op[c].kind \notin {"add", "remove"} /\ ~Refused(op[c])
    BY <1>2 DEF HandleKV, Refused
  <2>2. Begin(c) /\ stage[c] = "new" /\ UNCHANGED membershipMu
    BY <1>2, Zenon DEF HandleKV
  <2>3. QED
    BY <2>1, <2>2, BeginKeeps, Zenon
<1>3. ASSUME NEW c \in Call, HandleRemoveNode(c) PROVE GatewayInv' /\ KeepsConnections
  <2>1. stage[c] = "new" /\ \A d \in Call : membershipMu # d
    BY <1>3, OperationType, Zenon DEF HandleRemoveNode, Unlocked
  <2>2. CASE ~Refused(op[c]) /\ Begin(c) /\ membershipMu' = c
    BY <2>1, <2>2, BeginKeeps, Zenon
  <2>3. CASE Refuse(c, 404)
    BY <1>r, <2>1, <2>3, Zenon
  <2>4. QED
    BY <1>3, <2>2, <2>3, Zenon DEF HandleRemoveNode
<1>a. ASSUME NEW c \in Call, HandleAddNode(c) PROVE GatewayInv' /\ KeepsConnections
  <2>1. /\ stage[c] = "new" /\ \A d \in Call : membershipMu # d
        /\ stage' = [stage EXCEPT ![c] = "body"] /\ membershipMu' = c
        /\ UNCHANGED <<registry, op, untried, conn>>
    BY <1>a, OperationType, Zenon DEF HandleAddNode, Unlocked
  <2>2. stage \in [Call -> {"new", "body", "loop", "wait", "done"}]
    BY Zenon DEF GatewayInv, GatewayTypes
  <2>3. GatewayTypes'
    BY <2>1, <2>2, Zenon DEF GatewayInv, GatewayTypes
  <2>4. OthersKept(c)
    BY <2>1, <2>2, Zenon DEF OthersKept
  <2>5. stage'[c] = "body"
    BY <2>1, <2>2, Zenon
  <2>6. stage'[c] \notin {"loop", "wait"}
    BY <2>5
  <2>7. \A i \in Server : conn'[c][i].at = "none"
    BY <2>1, Zenon DEF GatewayInv, UntriedNotAsked
  <2>8. GatewayInv'
    BY <2>1, <2>3, <2>4, <2>6, <2>7, OneCallKeeps, Zenon
  <2>9. QED
    BY <2>1, <2>8, Zenon DEF KeepsConnections
<1>b. ASSUME NEW c \in Call, ReadBody(c) PROVE GatewayInv' /\ KeepsConnections
  <2>1. stage[c] = "body"
    BY <1>b, Zenon DEF ReadBody
  <2>2. op[c].kind \in {"add", "remove"} => membershipMu = c
    BY <2>1, Zenon DEF GatewayInv, ChangeHoldsMutex
  <2>3. CASE ~Refused(op[c]) /\ Begin(c) /\ UNCHANGED membershipMu
    BY <2>1, <2>2, <2>3, BeginKeeps, Zenon
  <2>4. CASE Refuse(c, 400) \/ Refuse(c, 409)
    BY <1>r, <2>1, <2>4, Zenon
  <2>5. QED
    BY <1>b, <2>3, <2>4, Zenon DEF ReadBody
<1>4. ASSUME NEW c \in Call, CallRust(c) PROVE GatewayInv' /\ KeepsConnections
  BY <1>4, CallRustKeeps, Zenon
<1>5. ASSUME NEW c \in Call, HandleAnswer(c) PROVE GatewayInv' /\ KeepsConnections
  <2>1. stage[c] = "wait" /\ UNCHANGED <<op, untried, conn>>
    BY <1>5, Zenon DEF HandleAnswer
  <2>2. CASE Finish(c, 200)
    BY <2>1, <2>2, FinishKeeps, Zenon DEF KeepsConnections
  <2>3. CASE stage' = [stage EXCEPT ![c] = "loop"] /\ UNCHANGED <<registry, membershipMu>>
    BY <2>1, <2>3, GoesOnKeeps, Zenon DEF KeepsConnections
  <2>4. QED
    BY <1>5, <2>2, <2>3, Zenon DEF HandleAnswer
<1>6. ASSUME NEW c \in Call, ConnectionLost(c) \/ Deadline(c) PROVE GatewayInv' /\ KeepsConnections
  <2>1. /\ stage[c] \in {"loop", "wait"} /\ stage' = [stage EXCEPT ![c] = "loop"]
        /\ UNCHANGED <<registry, membershipMu, op, untried, conn>>
    BY <1>6, Zenon DEF ConnectionLost, Deadline, GiveUp
  <2>2. QED
    BY <2>1, GoesOnKeeps, Zenon DEF KeepsConnections
<1>7. ASSUME NEW c \in Call, Return(c) PROVE GatewayInv' /\ KeepsConnections
  <2>1. stage[c] = "loop" /\ UNCHANGED <<op, untried, conn>>
    BY <1>7, Zenon DEF Return
  <2> PICK s : Finish(c, s)
    BY <1>7 DEF Return
  <2>2. GatewayInv'
    BY <2>1, FinishKeeps, Zenon
  <2>3. QED
    BY <2>1, <2>2, Zenon DEF KeepsConnections
<1>8. ASSUME NEW c \in Call, NEW i \in Server, HandleServiceRequest(c, i)
      PROVE  GatewayInv' /\ KeepsConnections
  BY <1>8, ServiceRequestKeeps, Zenon
<1>9. QED
  BY <1>1, <1>2, <1>3, <1>a, <1>b, <1>4, <1>5, <1>6, <1>7, <1>8, Zenon
     DEF GatewayNext, CallStep, allVars

LEMMA GatewayStart == GatewayInit => GatewayInv
<1> SUFFICES ASSUME GatewayInit PROVE GatewayInv
  OBVIOUS
<1>1. \A c \in Call : stage[c] = "new"
  BY Zenon DEF GatewayInit
<1>2. \A c \in Call, i \in Server : conn[c][i].at = "none"
  BY DEF GatewayInit, Conn
<1>3. GatewayTypes
  BY MembersServer, Zenon DEF GatewayInit, GatewayTypes
<1>4. \A c \in Call : stage[c] \notin {"body", "loop", "wait"}
  BY <1>1
<1>5. QED
  BY <1>2, <1>3, <1>4, Zenon
     DEF GatewayInv, ChangeHoldsMutex, CheckedUntilDone, UntriedNotAsked

\* Until a membership handler answers, the registry says what the handler has checked
\* before it called executeRust: membershipMu keeps every other change out.
THEOREM ChecksStayTrue == GatewaySpec => []CheckedUntilDone
<1>1. QED
  BY GatewayStart, GatewayStep, PTL DEF GatewaySpec, GatewayInv

\* executeRust never sends a call's request twice to one node, whatever leaders the
\* nodes name, however many nodes there are and however connections fail.
THEOREM NeverAskedTwice == GatewaySpec => AskedOnce
<1>1. GatewayInv /\ [GatewayNext]_allVars => [KeepsConnections]_allVars
  BY GatewayStep, Zenon
<1>2. QED
  BY <1>1, GatewayStart, GatewayStep, PTL DEF GatewaySpec, AskedOnce, KeepsConnections

-----------------------------------------------------------------------------
(* Logs hold commands only, so the peer set is never changed               *)

LEMMA SubLogCommands ==
    ASSUME NEW l \in Seq(Entry), Commands(l), NEW a \in Nat \ {0}
    PROVE  Commands(SubSeq(l, a, Len(l)))
<1> DEFINE s == SubSeq(l, a, Len(l))
<1>1. Len(l) \in Nat
  BY LenProperties
<1>2. \A k \in a .. Len(l) : l[k] \in Entry
  BY ElementOfSeq
<1>3. /\ Len(s) = IF a <= Len(l) THEN Len(l) - a + 1 ELSE 0
      /\ \A k \in 1 .. Len(l) - a + 1 : s[k] = l[a + k - 1]
  BY <1>1, <1>2, SubSeqProperties
<1>4. \A k \in 1 .. Len(s) : k \in 1 .. Len(l) - a + 1 /\ a + k - 1 \in 1 .. Len(l)
  BY <1>1, <1>3
<1>5. QED
  BY <1>3, <1>4 DEF Commands

LEMMA MergedLogCommands ==
    ASSUME NEW l \in Seq(Entry), Commands(l), NEW es \in Seq(Entry), Commands(es),
           NEW prev \in Nat, prev <= Len(l)
    PROVE  Commands(MergedLog(l, prev, es))
<1> DEFINE Present(k) == k <= Len(l) /\ l[k].term = es[k - prev].term
           n == prev + Len(es)
           merged == [k \in 1 .. n |->
                        IF \A j \in prev + 1 .. k : Present(j) THEN l[k] ELSE es[k - prev]]
<1>1. n \in Nat /\ Len(l) \in Nat /\ Len(es) \in Nat
  BY LenProperties
<1>2. CASE \A k \in prev + 1 .. prev + Len(es) : Present(k)
  BY <1>2 DEF MergedLog
<1>3. CASE ~(\A k \in prev + 1 .. prev + Len(es) : Present(k))
  <2>1. MergedLog(l, prev, es) = merged
    BY <1>3 DEF MergedLog
  <2>2. Len(merged) = n
    BY <1>1
  <2>3. ASSUME NEW k \in 1 .. n PROVE merged[k].payload.kind = "command"
    <3>1. CASE \A j \in prev + 1 .. k : Present(j)
      <4>1. k \in 1 .. Len(l)
        <5>1. CASE k <= prev
          BY <1>1, <5>1
        <5>2. CASE k > prev
          BY <1>1, <3>1, <5>2
        <5>3. QED
          BY <1>1, <5>1, <5>2
      <4>2. merged[k] = l[k]
        BY <3>1
      <4>3. QED
        BY <4>1, <4>2, Zenon DEF Commands
    <3>2. CASE ~(\A j \in prev + 1 .. k : Present(j))
      <4>1. k - prev \in 1 .. Len(es)
        BY <1>1, <3>2
      <4>2. merged[k] = es[k - prev]
        BY <3>2
      <4>3. QED
        BY <4>1, <4>2 DEF Commands
    <3>3. QED
      BY <3>1, <3>2, Zenon
  <2>4. QED
    BY <2>1, <2>2, <2>3, Zenon DEF Commands
<1>4. QED
  BY <1>2, <1>3

\* Applying commands leaves every peer set alone.
LEMMA ApplyKeepsPeers ==
    ASSUME TypeInv, CommandsOnly, NEW i \in Server, log'[i] \in Seq(Entry), Commands(log'[i]),
           commit_index'[i] \in Nat, commit_index'[i] <= Len(log'[i]),
           NEW next, NEW match, NEW pending, NEW responses,
           ApplyCommittedEntries(i, next, match, pending, responses)
    PROVE  peers' = peers
<1> DEFINE l  == log'[i]
           ks == last_applied[i] + 1 .. commit_index'[i]
<1>1. ks \subseteq 1 .. Len(l)
  <2>1. last_applied[i] \in Nat
    BY Zenon DEF TypeInv, TypeOK
  <2>2. Len(l) \in Nat
    BY LenProperties, Zenon
  <2>3. QED
    BY <2>1, <2>2
<1>2. \A p : ~Removes(l, ks, p) /\ ~Adds(l, ks, p)
  <2>1. ASSUME NEW p, NEW k \in ks
        PROVE  /\ l[k].payload # [kind |-> "remove", id |-> p]
               /\ l[k].payload # [kind |-> "add", id |-> p]
    <3>1. l[k].payload.kind = "command"
      BY <1>1, Zenon DEF Commands
    <3>2. QED
      BY <3>1
  <2>2. QED
    BY <2>1, Zenon DEF Removes, Adds
<1>3. peers' = [peers EXCEPT ![i] =
          {p \in Server \ {i} : Adds(l, ks, p) \/ (p \in peers[i] /\ ~Removes(l, ks, p))}]
  BY Zenon DEF ApplyCommittedEntries
<1>4. {p \in Server \ {i} : Adds(l, ks, p) \/ (p \in peers[i] /\ ~Removes(l, ks, p))} = peers[i]
  BY <1>2, Zenon DEF CommandsOnly
<1>5. QED
  BY <1>3, <1>4, Zenon DEF TypeInv, TypeOK

LEMMA BecomeLeaderCommands ==
    ASSUME TypeInv, CommandsOnly, NEW i \in Server, BecomeLeader(i)
    PROVE  \A m \in appendEntries' : Commands(m.entries)
<1> DEFINE next == Len(log[i]) + 1
           Msg(p) == MakeAppendEntries(i, p, current_term'[i], log[i], next, commit_index[i])
<1>1. log[i] \in Seq(Entry) /\ Commands(log[i]) /\ next \in Nat \ {0}
  BY LenProperties DEF TypeInv, TypeOK, CommandsOnly
<1>2. \A p : Commands(Msg(p).entries)
  BY <1>1, SubLogCommands, Zenon DEF MakeAppendEntries
<1>3. appendEntries' = appendEntries \cup Sent(i, {Msg(p) : p \in peers[i]})
  BY Zenon DEF BecomeLeader
<1>4. QED
  BY <1>2, <1>3, Zenon DEF CommandsOnly, Sent

LEMMA SendAppendsCommands ==
    ASSUME TypeInv, CommandsOnly, NEW i \in Server, NEW ps, NEW next,
           log'[i] \in Seq(Entry), Commands(log'[i]), SendAppends(i, ps, next)
    PROVE  \A m \in appendEntries' : Commands(m.entries)
<1> DEFINE Msg(p) == MakeAppendEntries(i, p, current_term[i], log'[i], next[p], commit_index[i])
<1>1. CASE \A p \in ps : next[p] \in 1 .. Len(log'[i]) + 1
  <2>1. \A p \in ps : next[p] \in Nat \ {0}
    BY <1>1, LenProperties
  <2>2. \A p \in ps : Commands(Msg(p).entries)
    BY <2>1, SubLogCommands, Zenon DEF MakeAppendEntries
  <2>3. appendEntries' = appendEntries \cup Sent(i, {Msg(p) : p \in ps})
    BY <1>1, Zenon DEF SendAppends
  <2>4. QED
    BY <2>2, <2>3, Zenon DEF CommandsOnly, Sent
<1>2. CASE ~(\A p \in ps : next[p] \in 1 .. Len(log'[i]) + 1)
  BY <1>2, Zenon DEF SendAppends, CommandsOnly
<1>3. QED
  BY <1>1, <1>2

LEMMA AppendEntryCommands ==
    ASSUME TypeInv, CommandsOnly, NEW i \in Server, NEW payload \in Payload,
           payload.kind = "command",
           NEW pending \in SUBSET [index : Nat, term : Nat, request : Request],
           AppendEntry(i, payload, pending), UNCHANGED forwarded
    PROVE  CommandsOnly'
<1> DEFINE e == [term |-> current_term[i], payload |-> payload]
<1>1. log' = [log EXCEPT ![i] = Append(@, e)]
  BY Zenon DEF AppendEntry
<1>2. e \in Entry /\ log[i] \in Seq(Entry) /\ Commands(log[i]) /\ Len(log[i]) \in Nat
  BY LenProperties, Zenon DEF TypeInv, TypeOK, Entry, CommandsOnly
<1>3. /\ Append(log[i], e) \in Seq(Entry)
      /\ Len(Append(log[i], e)) = Len(log[i]) + 1
      /\ \A k \in 1 .. Len(log[i]) : Append(log[i], e)[k] = log[i][k]
      /\ Append(log[i], e)[Len(log[i]) + 1] = e
  BY <1>2, AppendProperties
<1>4. Commands(Append(log[i], e))
  BY <1>2, <1>3 DEF Commands
<1>5. /\ log' \in [Server -> Seq(Entry)] /\ Commands(log'[i])
      /\ \A j \in Server : Commands(log'[j])
  BY <1>1, <1>3, <1>4, Zenon DEF TypeInv, TypeOK, CommandsOnly
<1>6. CASE /\ UpdateCommitIndex(i, next_index[i], match_index[i], pending)
           /\ UNCHANGED <<panicked, appendEntries>>
  <2>1. next_index[i] \in [Server -> Nat] /\ match_index[i] \in [Server -> Nat]
    BY DEF TypeInv, TypeOK
  <2>2. /\ commit_index' \in [Server -> Nat] /\ commit_index'[i] <= Len(log'[i])
        /\ ApplyCommittedEntries(i, next_index[i], match_index[i], pending, clientResponses)
    BY <1>5, <1>6, <2>1, UpdateCommitType, Zenon
  <2>3. peers' = peers
    BY <1>5, <2>2, ApplyKeepsPeers, Zenon
  <2>4. QED
    BY <1>5, <1>6, <2>3, Zenon DEF CommandsOnly
<1>7. CASE SendAppends(i, peers[i], next_index[i]) /\ UNCHANGED stateVars
  <2>1. \A m \in appendEntries' : Commands(m.entries)
    BY <1>5, <1>7, SendAppendsCommands, Zenon
  <2>2. QED
    BY <1>5, <1>7, <2>1, Zenon DEF CommandsOnly, stateVars
<1>8. QED
  BY <1>6, <1>7, Zenon DEF AppendEntry

LEMMA ProposeCommands ==
    ASSUME TypeInv, CommandsOnly, NEW i \in Server, NEW payload \in Payload,
           payload.kind = "command", Propose(i, payload)
    PROVE  CommandsOnly'
<1>1. CASE AppendEntry(i, payload, pending_requests[i]) /\ UNCHANGED forwarded
  <2>1. pending_requests[i] \in SUBSET [index : Nat, term : Nat, request : Request]
    BY DEF TypeInv, TypeOK
  <2>2. QED
    BY <1>1, <2>1, AppendEntryCommands
<1>2. CASE /\ forwarded' = forwarded \cup Sent(i, {[to |-> leader_id[i], payload |-> payload]})
           /\ UNCHANGED <<log, stateVars, raftMsgs>>
  <2>1. \A m \in forwarded' : m.payload.kind = "command"
    <3>1. ASSUME NEW m \in forwarded' PROVE m \in forwarded \/ m.payload = payload
      BY <1>2 DEF Sent
    <3>2. QED
      BY <3>1, Zenon DEF CommandsOnly
  <2>2. QED
    BY <1>2, <2>1, Zenon DEF CommandsOnly, stateVars, raftMsgs
<1>3. QED
  BY <1>1, <1>2, Zenon DEF Propose

LEMMA HandleAppendEntriesCommands ==
    ASSUME TypeInv, CommandsOnly, NEW m \in appendEntries, HandleAppendEntries(m)
    PROVE  CommandsOnly'
<1> DEFINE i == m.to
<1>1. /\ m \in AppendEntriesMsg /\ i \in Server /\ m.prev_log_index \in Nat
      /\ m.entries \in Seq(Entry) /\ Commands(m.entries)
      /\ log[i] \in Seq(Entry) /\ Commands(log[i])
  BY Zenon DEF TypeInv, TypeOK, AppendEntriesMsg, CommandsOnly
<1>2. UNCHANGED <<appendEntries, forwarded>>
  BY Zenon DEF HandleAppendEntries
<1>3. CASE UNCHANGED <<log, stateVars>>
  BY <1>2, <1>3, Zenon DEF CommandsOnly, stateVars
<1>4. ASSUME m.prev_log_index <= Len(log[i]),
             log' = [log EXCEPT ![i] = MergedLog(@, m.prev_log_index, m.entries)],
             commit_index' = [commit_index EXCEPT ![i] = FollowerCommit(m, log'[i])],
             NEW pending, NEW responses,
             ApplyCommittedEntries(i, next_index[i], match_index[i], pending, responses)
      PROVE  CommandsOnly'
  <2>1. /\ MergedLog(log[i], m.prev_log_index, m.entries) \in Seq(Entry)
        /\ Commands(MergedLog(log[i], m.prev_log_index, m.entries))
    BY <1>1, <1>4, MergedLogType, MergedLogCommands, Zenon
  <2>2. /\ log'[i] \in Seq(Entry) /\ Commands(log'[i])
        /\ \A j \in Server : Commands(log'[j])
    BY <1>1, <1>4, <2>1, Zenon DEF TypeInv, TypeOK, CommandsOnly
  <2>3. commit_index'[i] \in 0 .. Len(log'[i])
    BY <1>1, <1>4, <2>2, FollowerCommitType, Zenon DEF TypeInv, TypeOK
  <2>4. commit_index'[i] \in Nat /\ commit_index'[i] <= Len(log'[i])
    BY <2>2, <2>3, LenProperties
  <2>5. peers' = peers
    BY <1>1, <1>4, <2>2, <2>4, ApplyKeepsPeers, Zenon
  <2>6. QED
    BY <1>2, <2>2, <2>5 DEF CommandsOnly
<1>5. QED
  BY <1>3, <1>4, Zenon DEF HandleAppendEntries, PrevMatches

LEMMA HandleAppendResponseCommands ==
    ASSUME TypeInv, CommandsOnly, NEW m \in appendResponses, HandleAppendResponse(m)
    PROVE  CommandsOnly'
<1> DEFINE i == m.to
           p == m.follower_id
           next == [next_index[i] EXCEPT ![p] = m.match_index + 1]
           match == [match_index[i] EXCEPT ![p] = m.match_index]
           lower == [next_index[i] EXCEPT ![p] = StepBack(@)]
<1>1. i \in Server /\ p \in Server /\ m.match_index \in Nat
  BY Zenon DEF TypeInv, TypeOK, AppendResponseMsg
<1>2. UNCHANGED <<log, forwarded>>
  BY Zenon DEF HandleAppendResponse
<1>3. log'[i] \in Seq(Entry) /\ Commands(log'[i]) /\ log' \in [Server -> Seq(Entry)]
  BY <1>1, <1>2, Zenon DEF TypeInv, TypeOK, CommandsOnly
<1>4. CASE UNCHANGED <<stateVars, appendEntries>>
  BY <1>2, <1>4 DEF CommandsOnly, stateVars
<1>5. CASE UpdateCommitIndex(i, next, match, pending_requests[i]) /\ UNCHANGED appendEntries
  <2>1. next_index[i] \in [Server -> Nat] /\ match_index[i] \in [Server -> Nat]
    BY <1>1, Zenon DEF TypeInv, TypeOK
  <2>2. next \in [Server -> Nat] /\ match \in [Server -> Nat]
    BY <1>1, <2>1
  <2>3. pending_requests[i] \in SUBSET [index : Nat, term : Nat, request : Request]
    BY <1>1, Zenon DEF TypeInv, TypeOK
  <2> HIDE DEF next, match
  <2>4. /\ commit_index' \in [Server -> Nat] /\ commit_index'[i] <= Len(log'[i])
        /\ ApplyCommittedEntries(i, next, match, pending_requests[i], clientResponses)
    BY <1>1, <1>3, <1>5, <2>2, <2>3, UpdateCommitType, Zenon
  <2>5. peers' = peers
    BY <1>1, <1>3, <2>4, ApplyKeepsPeers, Zenon
  <2>6. QED
    BY <1>2, <1>5, <2>5, Zenon DEF CommandsOnly
<1>6. CASE SendAppends(i, {p}, lower) /\ UNCHANGED stateVars
  <2> HIDE DEF lower
  <2>1. \A a \in appendEntries' : Commands(a.entries)
    BY <1>1, <1>3, <1>6, SendAppendsCommands, Zenon
  <2>2. QED
    BY <1>2, <1>6, <2>1, Zenon DEF CommandsOnly, stateVars
<1>7. QED
  BY <1>4, <1>5, <1>6, Zenon DEF HandleAppendResponse

\* No step puts a membership change into a log, or changes a peer set.
LEMMA CommandsStep == TypeInv /\ CommandsOnly /\ [Next]_vars => CommandsOnly'
<1> SUFFICES ASSUME TypeInv, CommandsOnly, [Next]_vars PROVE CommandsOnly'
  OBVIOUS
<1>1. ASSUME NEW i \in Server, StartElection(i) PROVE CommandsOnly'
  <2>1. UNCHANGED <<log, stateVars, forwarded>>
    BY <1>1, Zenon DEF StartElection
  <2>2. \A m \in appendEntries' : Commands(m.entries)
    BY <1>1, BecomeLeaderCommands, Zenon DEF StartElection, CommandsOnly
  <2>3. QED
    BY <2>1, <2>2, Zenon DEF CommandsOnly, stateVars
<1>2. ASSUME NEW i \in Server, SendHeartbeats(i) PROVE CommandsOnly'
  <2>1. UNCHANGED <<log, stateVars, forwarded>> /\ SendAppends(i, peers[i], next_index[i])
    BY <1>2, Zenon DEF SendHeartbeats
  <2>2. log'[i] \in Seq(Entry) /\ Commands(log'[i])
    BY <2>1 DEF TypeInv, TypeOK, CommandsOnly
  <2>3. \A m \in appendEntries' : Commands(m.entries)
    BY <2>1, <2>2, SendAppendsCommands, Zenon
  <2>4. QED
    BY <2>1, <2>3, Zenon DEF CommandsOnly, stateVars
<1>3. ASSUME NEW i \in Server, Restart(i) PROVE CommandsOnly'
  BY <1>3, Zenon DEF Restart, CommandsOnly, stateVars, raftMsgs
<1>4. ASSUME NEW m \in requestVotes, HandleRequestVote(m) PROVE CommandsOnly'
  BY <1>4, Zenon DEF HandleRequestVote, CommandsOnly, stateVars
<1>5. ASSUME NEW m \in voteResponses, HandleVoteResponse(m) PROVE CommandsOnly'
  <2>1. m.to \in Server
    BY DEF TypeInv, TypeOK, VoteResponseMsg
  <2>2. UNCHANGED <<log, stateVars, forwarded>>
    BY <1>5, Zenon DEF HandleVoteResponse
  <2>3. \A a \in appendEntries' : Commands(a.entries)
    BY <1>5, <2>1, BecomeLeaderCommands, Zenon DEF HandleVoteResponse, CommandsOnly
  <2>4. QED
    BY <2>2, <2>3, Zenon DEF CommandsOnly, stateVars
<1>6. ASSUME NEW m \in appendEntries, HandleAppendEntries(m) PROVE CommandsOnly'
  BY <1>6, HandleAppendEntriesCommands
<1>7. ASSUME NEW m \in appendResponses, HandleAppendResponse(m) PROVE CommandsOnly'
  BY <1>7, HandleAppendResponseCommands
<1>8. ASSUME NEW m \in forwarded, HandleForwarded(m) PROVE CommandsOnly'
  <2>1. m.to \in Server /\ m.payload \in Payload /\ m.payload.kind = "command"
    BY DEF TypeInv, TypeOK, CommandsOnly
  <2>2. QED
    BY <1>8, <2>1, ProposeCommands DEF HandleForwarded
<1>9. ASSUME NEW i \in Server, NEW c \in Command, ClientCommand(i, CommandPayload(c))
      PROVE  CommandsOnly'
  <2>1. CommandPayload(c) \in Payload /\ CommandPayload(c).kind = "command"
    BY DEF CommandPayload, Payload
  <2>2. QED
    BY <1>9, <2>1, ProposeCommands DEF ClientCommand
<1>10. ASSUME NEW i \in Server, NEW x \in Request, ClientRequest(i, x) PROVE CommandsOnly'
  <2> DEFINE pending == pending_requests[i] \cup
                 {[index |-> Len(log[i]) + 1, term |-> current_term[i], request |-> x]}
  <2>1. CASE AppendEntry(i, CommandPayload(x), pending)
    <3>1. CommandPayload(x) \in Payload /\ CommandPayload(x).kind = "command"
      BY DEF CommandPayload, Payload
    <3>2. Len(log[i]) + 1 \in Nat /\ current_term[i] \in Nat
      BY LenProperties DEF TypeInv, TypeOK
    <3>3. pending \in SUBSET [index : Nat, term : Nat, request : Request]
      BY <3>2 DEF TypeInv, TypeOK
    <3>4. UNCHANGED forwarded
      BY <1>10, Zenon DEF ClientRequest, SubmitStoreWrite
    <3>5. QED
      BY <2>1, <3>1, <3>3, <3>4, AppendEntryCommands, Zenon
  <2>2. CASE UNCHANGED <<log, stateVars, raftMsgs, forwarded>>
    BY <2>2, Zenon DEF CommandsOnly, stateVars, raftMsgs
  <2>3. QED
    BY <1>10, <2>1, <2>2, Zenon DEF ClientRequest, SubmitStoreWrite
<1>11. CASE UNCHANGED vars
  BY <1>11, Zenon DEF vars, CommandsOnly
<1>12. QED
  BY <1>1, <1>2, <1>3, <1>4, <1>5, <1>6, <1>7, <1>8, <1>9, <1>10, <1>11
     DEF Next, NodeStep, ElectionTimeout, TimeoutMessage

-----------------------------------------------------------------------------
(* Votes                                                                   *)

\* Nothing that the votes depend on changes.
LEMMA VotesUntouched ==
    VoteInv /\ UNCHANGED <<current_term, voted_for, role, votes_received, voteResponses>> => VoteInv'
<1> SUFFICES ASSUME VoteInv, UNCHANGED <<current_term, voted_for, role, votes_received, voteResponses>>
             PROVE  VoteInv'
  OBVIOUS
<1>1. CandidatesVoteForThemselves'
  BY Zenon DEF VoteInv, CandidatesVoteForThemselves
<1>2. VotesRemembered'
  BY Zenon DEF VoteInv, VotesRemembered
<1>3. OneVotePerTerm'
  BY Zenon DEF VoteInv, OneVotePerTerm
<1>4. VotesCounted'
  <2>1. VotesCounted
    BY Zenon DEF VoteInv
  <2>2. QED
    BY <2>1 DEF VotesCounted
<1>5. QED
  BY <1>1, <1>2, <1>3, <1>4, Zenon DEF VoteInv

\* A node that goes back to being a follower, and forgets its vote only if it moves to
\* a newer term, hurts no vote.
LEMMA Retreat ==
    ASSUME TypeInv, VoteInv, NEW i \in Server,
           current_term' \in [Server -> Nat], current_term'[i] >= current_term[i],
           current_term'[i] = current_term[i] => voted_for'[i] = voted_for[i],
           role'[i] = Follower,
           \A j \in Server \ {i} :
               /\ current_term'[j] = current_term[j] /\ voted_for'[j] = voted_for[j]
               /\ role'[j] = role[j] /\ votes_received'[j] = votes_received[j],
           voteResponses' = voteResponses
    PROVE  VoteInv'
<1>1. CandidatesVoteForThemselves'
  BY Zenon DEF VoteInv, CandidatesVoteForThemselves
<1>2. VotesRemembered'
  <2> SUFFICES ASSUME NEW m \in voteResponses, m.vote_granted
               PROVE  /\ m.term <= current_term'[m.voter_id]
                      /\ m.term = current_term'[m.voter_id] => voted_for'[m.voter_id] = m.to
    BY Zenon DEF VotesRemembered
  <2>1. /\ m.voter_id \in Server /\ m.term \in Nat
        /\ m.term <= current_term[m.voter_id]
        /\ m.term = current_term[m.voter_id] => voted_for[m.voter_id] = m.to
    BY Zenon DEF TypeInv, TypeOK, VoteResponseMsg, VoteInv, VotesRemembered
  <2>2. current_term \in [Server -> Nat]
    BY Zenon DEF TypeInv, TypeOK
  <2>3. CASE m.voter_id = i
    BY <2>1, <2>2, <2>3
  <2>4. CASE m.voter_id # i
    BY <2>1, <2>4, Zenon
  <2>5. QED
    BY <2>3, <2>4, Zenon
<1>3. OneVotePerTerm'
  BY Zenon DEF VoteInv, OneVotePerTerm
<1>4. VotesCounted'
  BY DEF VoteInv, VotesCounted
<1>5. QED
  BY <1>1, <1>2, <1>3, <1>4, Zenon DEF VoteInv

LEMMA StartElectionVotes ==
    ASSUME TypeInv, VoteInv, NEW i \in Server, StartElection(i)
    PROVE  VoteInv'
<1>1. /\ current_term' = [current_term EXCEPT ![i] = @ + 1]
      /\ voted_for' = [voted_for EXCEPT ![i] = i]
      /\ votes_received' = [votes_received EXCEPT ![i] = {i}]
      /\ voteResponses' = voteResponses
      /\ \E r \in {Candidate, Leader} : role' = [role EXCEPT ![i] = r]
  BY Zenon DEF StartElection, BecomeLeader
<1>2. /\ current_term \in [Server -> Nat] /\ voted_for \in [Server -> Server \cup {None}]
      /\ votes_received \in [Server -> SUBSET Server]
      /\ role \in [Server -> {Follower, Candidate, Leader}]
  BY Zenon DEF TypeInv, TypeOK
<1>3. CandidatesVoteForThemselves'
  BY <1>1, <1>2 DEF VoteInv, CandidatesVoteForThemselves
<1>4. VotesRemembered'
  <2> SUFFICES ASSUME NEW m \in voteResponses, m.vote_granted
               PROVE  /\ m.term <= current_term'[m.voter_id]
                      /\ m.term = current_term'[m.voter_id] => voted_for'[m.voter_id] = m.to
    BY <1>1, Zenon DEF VotesRemembered
  <2>1. /\ m.voter_id \in Server /\ m.term \in Nat
        /\ m.term <= current_term[m.voter_id]
        /\ m.term = current_term[m.voter_id] => voted_for[m.voter_id] = m.to
    BY Zenon DEF TypeInv, TypeOK, VoteResponseMsg, VoteInv, VotesRemembered
  <2>2. CASE m.voter_id = i
    BY <1>1, <1>2, <2>1, <2>2
  <2>3. CASE m.voter_id # i
    BY <1>1, <1>2, <2>1, <2>3, Zenon
  <2>4. QED
    BY <2>2, <2>3
<1>5. OneVotePerTerm'
  BY <1>1 DEF VoteInv, OneVotePerTerm
<1>6. VotesCounted'
  <2> SUFFICES ASSUME NEW j \in Server, role'[j] # Follower, NEW v \in votes_received'[j], v # j
               PROVE  \E m \in voteResponses : /\ m.vote_granted /\ m.voter_id = v
                                               /\ m.term = current_term'[j] /\ m.to = j
    BY <1>1 DEF VotesCounted
  <2>1. j # i
    <3>1. votes_received'[i] = {i}
      BY <1>1, <1>2, Zenon
    <3>2. QED
      BY <3>1, Zenon
  <2>2. role[j] # Follower /\ v \in votes_received[j] /\ current_term'[j] = current_term[j]
    BY <1>1, <1>2, <2>1, Zenon
  <2>3. QED
    BY <2>2 DEF VoteInv, VotesCounted
<1>7. QED
  BY <1>3, <1>4, <1>5, <1>6 DEF VoteInv

LEMMA HandleRequestVoteVotes ==
    ASSUME TypeInv, VoteInv, NEW m \in requestVotes, HandleRequestVote(m)
    PROVE  VoteInv'
<1> DEFINE i     == m.to
           c     == m.candidate_id
           newer == m.term > current_term[i]
           vote  == IF newer THEN None ELSE voted_for[i]
<1>1. i \in Server /\ c \in Server /\ m.term \in Nat
  BY Zenon DEF TypeInv, TypeOK, RequestVoteMsg
<1>2. /\ current_term \in [Server -> Nat] /\ voted_for \in [Server -> Server \cup {None}]
      /\ role \in [Server -> {Follower, Candidate, Leader}]
      /\ votes_received' = votes_received
  BY Zenon DEF TypeInv, TypeOK, HandleRequestVote
<1>3. PICK g \in BOOLEAN :
         /\ g => m.term >= current_term[i] /\ vote \in {None, c}
         /\ voted_for' = [voted_for EXCEPT ![i] = IF g THEN c ELSE vote]
         /\ voteResponses' = voteResponses \cup Sent(i,
               {[term |-> current_term'[i], voter_id |-> i, vote_granted |-> g, to |-> c]})
  BY Zenon DEF HandleRequestVote, CanVote
<1>4. /\ current_term' = [current_term EXCEPT ![i] = IF newer THEN m.term ELSE @]
      /\ role' = [role EXCEPT ![i] = IF newer THEN Follower ELSE @]
  BY <1>1, <1>2, Zenon DEF HandleRequestVote, AdoptTerm
<1> DEFINE v == [term |-> current_term'[i], voter_id |-> i, vote_granted |-> g, to |-> c]
<1>5. /\ voteResponses \subseteq voteResponses'
      /\ \A n \in voteResponses' : n \in voteResponses \/ n = v
  BY <1>3, Zenon DEF Sent
<1>6. \A n \in voteResponses :
         n.vote_granted =>
            /\ n.voter_id \in Server /\ n.term \in Nat /\ n.to \in Server
            /\ n.term <= current_term[n.voter_id]
            /\ n.term = current_term[n.voter_id] => voted_for[n.voter_id] = n.to
  BY Zenon DEF TypeInv, TypeOK, VoteResponseMsg, VoteInv, VotesRemembered
<1>7. CandidatesVoteForThemselves'
  <2> SUFFICES ASSUME NEW j \in Server, role'[j] # Follower PROVE voted_for'[j] = j
    BY DEF CandidatesVoteForThemselves
  <2>1. role[j] # Follower /\ voted_for[j] = j /\ (j = i => ~newer)
    BY <1>1, <1>2, <1>4, Zenon DEF VoteInv, CandidatesVoteForThemselves
  <2>2. CASE j = i
    BY <1>1, <1>2, <1>3, <2>1, <2>2, ServerFinite, Zenon
  <2>3. CASE j # i
    BY <1>1, <1>2, <1>3, <2>1, <2>3, Zenon
  <2>4. QED
    BY <2>2, <2>3
<1>8. ASSUME NEW n \in voteResponses, n.vote_granted
      PROVE  /\ n.term <= current_term'[n.voter_id]
             /\ n.term = current_term'[n.voter_id] => voted_for'[n.voter_id] = n.to
  <2>1. CASE n.voter_id = i /\ newer
    <3>1. current_term'[i] = m.term /\ current_term[i] \in Nat /\ m.term > current_term[i]
      BY <1>1, <1>2, <1>4, <2>1, Zenon
    <3>2. n.term \in Nat /\ n.term <= current_term[i]
      BY <1>6, <1>8, <2>1
    <3>3. n.term < m.term
      BY <1>1, <3>1, <3>2
    <3>4. n.term <= m.term /\ n.term # m.term
      BY <1>1, <3>2, <3>3
    <3>5. QED
      BY <2>1, <3>1, <3>4, Zenon
  <2>2. CASE n.voter_id = i /\ ~newer
    <3>1. current_term'[i] = current_term[i]
      BY <1>1, <1>2, <1>4, <2>2, Zenon
    <3>2. voted_for[i] = n.to => voted_for'[i] = n.to
      BY <1>1, <1>2, <1>3, <1>6, <1>8, <2>2, ServerFinite, Zenon
    <3>3. QED
      BY <1>6, <1>8, <2>2, <3>1, <3>2, Zenon
  <2>3. CASE n.voter_id # i
    BY <1>1, <1>2, <1>3, <1>4, <1>6, <1>8, <2>3, Zenon
  <2>4. QED
    BY <2>1, <2>2, <2>3, Zenon
<1>9. VotesRemembered'
  <2>1. v.vote_granted => /\ v.term <= current_term'[v.voter_id]
                          /\ voted_for'[v.voter_id] = v.to
    <3>1. g => voted_for'[i] = c
      BY <1>1, <1>2, <1>3, Zenon
    <3>2. current_term'[i] \in Nat
      BY <1>1, <1>2, <1>4, Zenon
    <3>3. v.term = current_term'[i] /\ v.voter_id = i /\ v.to = c /\ (v.vote_granted <=> g)
      BY Zenon
    <3> HIDE DEF v
    <3>4. QED
      BY <3>1, <3>2, <3>3
  <2>2. QED
    BY <1>5, <1>8, <2>1, Zenon DEF VotesRemembered
<1>10. OneVotePerTerm'
  <2>1. ASSUME NEW n \in voteResponses, n.vote_granted, g, n.voter_id = i,
               n.term = current_term'[i]
        PROVE  n.to = c
    BY <1>1, <1>2, <1>3, <1>8, <2>1, Zenon
  <2>2. ASSUME NEW a \in voteResponses', NEW b \in voteResponses',
               a.vote_granted, b.vote_granted, a.voter_id = b.voter_id, a.term = b.term
        PROVE  a.to = b.to
    <3>1. CASE a \in voteResponses /\ b \in voteResponses
      BY <2>2, <3>1 DEF VoteInv, OneVotePerTerm
    <3>2. CASE a \in voteResponses /\ b = v
      BY <2>1, <2>2, <3>2, Zenon
    <3>3. CASE a = v /\ b \in voteResponses
      BY <2>1, <2>2, <3>3, Zenon
    <3>4. CASE a = v /\ b = v
      BY <3>4, Zenon
    <3>5. QED
      BY <1>5, <2>2, <3>1, <3>2, <3>3, <3>4, Zenon
  <2>3. QED
    BY <2>2 DEF OneVotePerTerm
<1>11. VotesCounted'
  <2>1. \A j \in Server : role'[j] # Follower =>
           role[j] # Follower /\ current_term'[j] = current_term[j]
    BY <1>1, <1>2, <1>4, Zenon
  <2>2. SUFFICES ASSUME NEW j \in Server, role'[j] # Follower,
                        NEW w \in votes_received[j], w # j
                 PROVE  \E n \in voteResponses' : /\ n.vote_granted /\ n.voter_id = w
                                                  /\ n.term = current_term'[j] /\ n.to = j
    BY <1>2 DEF VotesCounted
  <2>3. role[j] # Follower /\ current_term'[j] = current_term[j]
    BY <2>1, <2>2
  <2>4. PICK n \in voteResponses : /\ n.vote_granted /\ n.voter_id = w
                                   /\ n.term = current_term[j] /\ n.to = j
    BY <2>2, <2>3 DEF VoteInv, VotesCounted
  <2>5. n \in voteResponses'
    BY <1>5, Zenon
  <2>6. QED
    BY <2>3, <2>4, <2>5
<1>12. QED
  BY <1>7, <1>9, <1>10, <1>11 DEF VoteInv

LEMMA HandleVoteResponseVotes ==
    ASSUME TypeInv, VoteInv, NEW m \in voteResponses, HandleVoteResponse(m)
    PROVE  VoteInv'
<1> DEFINE i == m.to
           votes == votes_received[i] \cup (IF m.vote_granted THEN {m.voter_id} ELSE {})
<1>1. i \in Server /\ m.term \in Nat /\ m.voter_id \in Server
  BY Zenon DEF TypeInv, TypeOK, VoteResponseMsg
<1>2. /\ current_term \in [Server -> Nat] /\ voted_for \in [Server -> Server \cup {None}]
      /\ votes_received \in [Server -> SUBSET Server]
      /\ role \in [Server -> {Follower, Candidate, Leader}]
      /\ voteResponses' = voteResponses
  BY Zenon DEF TypeInv, TypeOK, HandleVoteResponse
<1>3. CASE /\ m.term > current_term[i]
           /\ StepDown(i, m.term)
           /\ UNCHANGED votes_received
  <2>1. /\ current_term' = [current_term EXCEPT ![i] = m.term]
        /\ role' = [role EXCEPT ![i] = Follower]
        /\ voted_for' = [voted_for EXCEPT ![i] = None]
    BY <1>3 DEF StepDown, AdoptTerm
  <2>2. current_term' \in [Server -> Nat] /\ current_term'[i] > current_term[i]
    BY <1>1, <1>2, <1>3, <2>1, Zenon
  <2>3. /\ current_term'[i] >= current_term[i]
        /\ current_term'[i] = current_term[i] => voted_for'[i] = voted_for[i]
    BY <1>1, <1>2, <2>2
  <2>4. QED
    BY <1>1, <1>2, <1>3, <2>1, <2>2, <2>3, Retreat, Zenon
<1>4. CASE /\ m.term = current_term[i]
           /\ role[i] = Candidate
           /\ votes_received' = [votes_received EXCEPT ![i] = votes]
           /\ UNCHANGED termVars
           /\ \E r \in {Candidate, Leader} : role' = [role EXCEPT ![i] = r]
  <2>1. \A j \in Server : role'[j] # Follower <=> role[j] # Follower
    BY <1>1, <1>2, <1>4, Zenon DEF Follower, Candidate, Leader
  <2>2. CandidatesVoteForThemselves' /\ VotesRemembered' /\ OneVotePerTerm'
    BY <1>2, <1>4, <2>1, Zenon DEF VoteInv, CandidatesVoteForThemselves, VotesRemembered,
                            OneVotePerTerm, termVars
  <2>3. VotesCounted'
    <3> SUFFICES ASSUME NEW j \in Server, role'[j] # Follower,
                        NEW w \in votes_received'[j], w # j
                 PROVE  \E n \in voteResponses : /\ n.vote_granted /\ n.voter_id = w
                                                 /\ n.term = current_term[j] /\ n.to = j
      <4>1. voteResponses' = voteResponses /\ current_term' = current_term
        BY <1>2, <1>4, Zenon DEF termVars
      <4>2. QED
        BY <4>1 DEF VotesCounted
    <3>1. CASE w \in votes_received[j]
      BY <2>1, <3>1 DEF VoteInv, VotesCounted
    <3>2. CASE w \notin votes_received[j]
      <4>1. j = i /\ m.vote_granted /\ w = m.voter_id
        BY <1>1, <1>2, <1>4, <3>2, Zenon
      <4>2. QED
        BY <1>4, <4>1, Zenon
    <3>3. QED
      BY <3>1, <3>2
  <2>4. QED
    BY <2>2, <2>3 DEF VoteInv
<1>5. role[i] = Candidate /\ UNCHANGED role => role' = [role EXCEPT ![i] = Candidate]
  BY <1>1, <1>2
<1>6. QED
  BY <1>3, <1>4, <1>5, Zenon DEF HandleVoteResponse, BecomeLeader

LEMMA VoteStep == TypeInv /\ VoteInv /\ [Next]_vars => VoteInv'
<1> SUFFICES ASSUME TypeInv, VoteInv, [Next]_vars PROVE VoteInv'
  OBVIOUS
<1> USE VotesUntouched
<1>1. ASSUME NEW i \in Server, StartElection(i) PROVE VoteInv'
  BY <1>1, StartElectionVotes
<1>2. ASSUME NEW i \in Server, SendHeartbeats(i) PROVE VoteInv'
  BY <1>2 DEF SendHeartbeats, termVars
<1>3. ASSUME NEW i \in Server, Restart(i) PROVE VoteInv'
  <2>1. /\ UNCHANGED <<current_term, voted_for, voteResponses>>
        /\ role' = [role EXCEPT ![i] = Follower]
        /\ votes_received' = [votes_received EXCEPT ![i] = {}]
    BY <1>3 DEF Restart, termVars, raftMsgs
  <2>2. /\ current_term \in [Server -> Nat] /\ votes_received \in [Server -> SUBSET Server]
        /\ role \in [Server -> {Follower, Candidate, Leader}]
    BY DEF TypeInv, TypeOK
  <2>3. current_term'[i] >= current_term[i]
    BY <2>1, <2>2
  <2>4. QED
    BY <2>1, <2>2, <2>3, Retreat
<1>4. ASSUME NEW m \in requestVotes, HandleRequestVote(m) PROVE VoteInv'
  BY <1>4, HandleRequestVoteVotes
<1>5. ASSUME NEW m \in voteResponses, HandleVoteResponse(m) PROVE VoteInv'
  BY <1>5, HandleVoteResponseVotes
<1>6. ASSUME NEW m \in appendEntries, HandleAppendEntries(m) PROVE VoteInv'
  <2> DEFINE i == m.to
  <2>1. i \in Server /\ m.term \in Nat
    BY Zenon DEF TypeInv, TypeOK, AppendEntriesMsg
  <2>2. UNCHANGED <<votes_received, voteResponses>>
    BY <1>6, Zenon DEF HandleAppendEntries
  <2>3. CASE UNCHANGED <<termVars, role>>
    BY <2>2, <2>3 DEF termVars
  <2>4. CASE /\ m.term >= current_term[i]
             /\ current_term' = [current_term EXCEPT ![i] = m.term]
             /\ voted_for' = [voted_for EXCEPT ![i] =
                                IF m.term > current_term[i] THEN None ELSE @]
             /\ role' = [role EXCEPT ![i] = Follower]
    <3>1. /\ current_term \in [Server -> Nat] /\ voted_for \in [Server -> Server \cup {None}]
          /\ role \in [Server -> {Follower, Candidate, Leader}]
      BY Zenon DEF TypeInv, TypeOK
    <3>2. /\ current_term' \in [Server -> Nat] /\ current_term'[i] >= current_term[i]
          /\ current_term'[i] = current_term[i] => voted_for'[i] = voted_for[i]
      BY <2>1, <2>4, <3>1
    <3>3. \A j \in Server \ {i} :
             /\ current_term'[j] = current_term[j] /\ voted_for'[j] = voted_for[j]
             /\ role'[j] = role[j] /\ votes_received'[j] = votes_received[j]
      BY <2>2, <2>4, <3>1, Zenon
    <3>4. QED
      BY <2>1, <2>2, <2>4, <3>1, <3>2, <3>3, Retreat, Zenon
  <2>5. QED
    BY <1>6, <2>3, <2>4, Zenon DEF HandleAppendEntries
<1>7. ASSUME NEW m \in appendResponses, HandleAppendResponse(m) PROVE VoteInv'
  <2> DEFINE i == m.to
  <2>1. i \in Server /\ m.term \in Nat
    BY Zenon DEF TypeInv, TypeOK, AppendResponseMsg
  <2>2. UNCHANGED <<votes_received, voteResponses>>
    BY <1>7, Zenon DEF HandleAppendResponse
  <2>3. CASE UNCHANGED <<termVars, role>>
    BY <2>2, <2>3 DEF termVars
  <2>4. CASE m.term > current_term[i] /\ StepDown(i, m.term)
    <3>1. /\ current_term \in [Server -> Nat] /\ voted_for \in [Server -> Server \cup {None}]
          /\ role \in [Server -> {Follower, Candidate, Leader}]
      BY DEF TypeInv, TypeOK
    <3>2. /\ current_term' = [current_term EXCEPT ![i] = m.term]
          /\ role' = [role EXCEPT ![i] = Follower]
          /\ voted_for' = [voted_for EXCEPT ![i] = None]
      BY <2>4 DEF StepDown, AdoptTerm
    <3>3. /\ current_term' \in [Server -> Nat] /\ current_term'[i] >= current_term[i]
          /\ current_term'[i] = current_term[i] => voted_for'[i] = voted_for[i]
      BY <2>1, <2>4, <3>1, <3>2
    <3>4. QED
      BY <2>1, <2>2, <3>1, <3>2, <3>3, Retreat, Zenon
  <2>5. QED
    BY <1>7, <2>3, <2>4, Zenon DEF HandleAppendResponse
<1>8. ASSUME NEW i, NEW payload, Propose(i, payload) PROVE VoteInv'
  BY <1>8, Zenon DEF Propose, AppendEntry, termVars, raftMsgs
<1>9. ASSUME NEW i, NEW x, ClientRequest(i, x) PROVE VoteInv'
  BY <1>9, Zenon DEF ClientRequest, SubmitStoreWrite, AppendEntry, termVars, raftMsgs
<1>10. CASE UNCHANGED vars
  BY <1>10 DEF vars
<1>11. QED
  BY <1>1, <1>2, <1>3, <1>4, <1>5, <1>6, <1>7, <1>8, <1>9, <1>10, Zenon
     DEF Next, NodeStep, ElectionTimeout, TimeoutMessage, HandleForwarded, ClientCommand
=============================================================================
