---------------------------- MODULE RaftTheorems ----------------------------
(***************************************************************************)
(* The safety properties of Raft that rest on its logs, for a fixed        *)
(* cluster of any size.  RaftLogProofs, RaftOrderProofs and                *)
(* RaftCommitProofs have the steps of the argument; here they are put      *)
(* together with the type invariant and the election invariant.            *)
(***************************************************************************)
EXTENDS RaftProofs, RaftLogProofs, RaftCommitProofs, FiniteSetTheorems

\* A leaf that names no prover is tried with each of these, in this order.
USE SMT, Zenon, SMTT(60), ZenonT(60)

-----------------------------------------------------------------------------
(* Majorities                                                              *)

\* While only commands are applied, a majority is a majority of the whole cluster.
LEMMA MajorityOfServer ==
    ASSUME CommandsOnly, NEW i \in Server
    PROVE  Majority(i) = Cardinality(Server) \div 2 + 1
<1>1. /\ IsFiniteSet(Server)
      /\ Cardinality(Server \ {i}) = Cardinality(Server) - 1
  BY ServerFinite, FS_RemoveElement
<1>2. Cardinality(Server) \in Nat
  BY <1>1, FS_CardinalityType
<1>3. Cardinality(Server \ {i}) + 1 = Cardinality(Server)
  BY <1>1, <1>2
<1>4. peers[i] = Server \ {i}
  BY Zenon DEF CommandsOnly
<1>5. QED
  BY <1>3, <1>4, Zenon DEF Majority

LEMMA MajorityStep ==
    TypeInv /\ ElectionInv /\ CommandsOnly' /\ [Next]_vars => LeaderHasMajority'
<1> SUFFICES ASSUME TypeInv, ElectionInv, CommandsOnly', [Next]_vars
             PROVE  LeaderHasMajority'
  OBVIOUS
<1>m. ASSUME NEW k \in Server PROVE Majority(k)' = Majority(k)
  <2>1. peers[k] = Server \ {k} /\ peers'[k] = Server \ {k}
    BY DEF ElectionInv, CommandsOnly
  <2>2. QED
    BY <2>1, Zenon DEF Majority
<1> SUFFICES ASSUME NEW j \in Server, role'[j] = Leader
             PROVE  Cardinality(votes_received'[j]) >= Majority(j)
  BY <1>m DEF LeaderHasMajority
<1> DEFINE Kept == role[j] = Leader /\ votes_received'[j] = votes_received[j]
<1>0. Kept => Cardinality(votes_received'[j]) >= Majority(j)
  BY DEF ElectionInv, LeaderHasMajority
<1>t. /\ role \in [Server -> {Follower, Candidate, Leader}]
      /\ votes_received \in [Server -> SUBSET Server]
  BY Zenon DEF TypeInv, TypeOK
<1> USE DEF Follower, Candidate, Leader
<1>1. ASSUME NEW i \in Server, StartElection(i)
      PROVE  Kept \/ Cardinality(votes_received'[j]) >= Majority(j)
  <2>1. /\ votes_received' = [votes_received EXCEPT ![i] = {i}]
        /\ \/ 1 >= Majority(i) /\ role' = [role EXCEPT ![i] = Leader]
           \/ role' = [role EXCEPT ![i] = Candidate]
    BY <1>1, Zenon DEF StartElection, BecomeLeader
  <2>2. CASE i = j
    <3>1. votes_received'[j] = {i} /\ 1 >= Majority(j)
      BY <1>t, <2>1, <2>2
    <3>2. Cardinality({i}) = 1
      BY FS_Singleton, Zenon
    <3>3. QED
      BY <3>1, <3>2
  <2>3. CASE i # j
    BY <1>t, <2>1, <2>3
  <2>4. QED
    BY <2>2, <2>3, Zenon
<1>2. ASSUME NEW i \in Server, SendHeartbeats(i) PROVE Kept
  BY <1>2, Zenon DEF SendHeartbeats
<1>3. ASSUME NEW i \in Server, Restart(i) PROVE Kept
  BY <1>3, <1>t DEF Restart
<1>4. ASSUME NEW m \in requestVotes, HandleRequestVote(m) PROVE Kept
  BY <1>4, <1>t, Zenon DEF HandleRequestVote, AdoptTerm
<1>5. ASSUME NEW m \in voteResponses, HandleVoteResponse(m)
      PROVE  Kept \/ Cardinality(votes_received'[j]) >= Majority(j)
  <2> DEFINE i == m.to
             votes == votes_received[i] \cup (IF m.vote_granted THEN {m.voter_id} ELSE {})
  <2>1. i \in Server
    BY DEF TypeInv, TypeOK, VoteResponseMsg
  <2>2. \/ /\ UNCHANGED votes_received
           /\ role' = [role EXCEPT ![i] = Follower]
        \/ /\ role[i] = Candidate
           /\ votes_received' = [votes_received EXCEPT ![i] = votes]
           /\ \/ Cardinality(votes) >= Majority(i) /\ role' = [role EXCEPT ![i] = Leader]
              \/ UNCHANGED role
    BY <1>5, Zenon DEF HandleVoteResponse, BecomeLeader, StepDown, AdoptTerm
  <2>3. CASE i = j
    BY <1>t, <2>1, <2>2, <2>3, Zenon
  <2>4. CASE i # j
    BY <1>t, <2>1, <2>2, <2>4, Zenon
  <2>5. QED
    BY <2>3, <2>4, Zenon
<1>6. ASSUME NEW m \in appendEntries, HandleAppendEntries(m) PROVE Kept
  BY <1>6, <1>t, Zenon DEF HandleAppendEntries
<1>7. ASSUME NEW m \in appendResponses, HandleAppendResponse(m) PROVE Kept
  BY <1>7, <1>t, Zenon DEF HandleAppendResponse, StepDown, AdoptTerm
<1>8. ASSUME NEW i, NEW payload, Propose(i, payload) PROVE Kept
  BY <1>8, Zenon DEF Propose, AppendEntry
<1>9. ASSUME NEW i, NEW x, ClientRequest(i, x) PROVE Kept
  BY <1>9, Zenon DEF ClientRequest, SubmitStoreWrite, AppendEntry
<1>10. CASE UNCHANGED vars
  BY <1>10, <1>0, Zenon DEF vars
<1>11. QED
  BY <1>0, <1>1, <1>2, <1>3, <1>4, <1>5, <1>6, <1>7, <1>8, <1>9, <1>10, Zenon
     DEF Next, NodeStep, ElectionTimeout, TimeoutMessage, HandleForwarded, ClientCommand

\* Two majorities of the cluster share a node.
LEMMA MajoritiesMeet ==
    ASSUME NEW A \in SUBSET Server, NEW B \in SUBSET Server,
           Cardinality(A) >= Cardinality(Server) \div 2 + 1,
           Cardinality(B) >= Cardinality(Server) \div 2 + 1
    PROVE  A \cap B # {}
<1>1. IsFiniteSet(Server) /\ IsFiniteSet(A) /\ IsFiniteSet(B) /\ IsFiniteSet(A \cap B)
  BY ServerFinite, FS_Subset
<1>2. Cardinality(A \cup B) = Cardinality(A) + Cardinality(B) - Cardinality(A \cap B)
  BY <1>1, FS_Union
<1>3. Cardinality(A \cup B) <= Cardinality(Server)
  BY <1>1, FS_Subset
<1>4. /\ Cardinality(A) \in Nat /\ Cardinality(B) \in Nat /\ Cardinality(Server) \in Nat
      /\ Cardinality(A \cap B) \in Nat
  BY <1>1, FS_CardinalityType
<1>5. Cardinality(A \cap B) # 0
  BY <1>2, <1>3, <1>4
<1>6. QED
  BY <1>5, FS_EmptySet

\* The invariant excludes two leaders in one term.
LEMMA InvImpliesElectionSafety == TypeOK /\ ElectionInv => ElectionSafety
<1> SUFFICES ASSUME TypeOK, ElectionInv, NEW i \in Server, NEW j \in Server,
                    role[i] = Leader, role[j] = Leader, current_term[i] = current_term[j],
                    i # j
             PROVE  FALSE
  BY DEF ElectionSafety
<1> USE DEF Follower, Candidate, Leader
<1>1. /\ votes_received[i] \in SUBSET Server /\ votes_received[j] \in SUBSET Server
      /\ Cardinality(votes_received[i]) >= Cardinality(Server) \div 2 + 1
      /\ Cardinality(votes_received[j]) >= Cardinality(Server) \div 2 + 1
  BY MajorityOfServer, Zenon DEF TypeOK, ElectionInv, LeaderHasMajority
<1>2. PICK v \in Server : v \in votes_received[i] /\ v \in votes_received[j]
  BY <1>1, MajoritiesMeet, Zenon
<1>3. \A k \in {i, j} : v # k =>
         \E m \in voteResponses : /\ m.vote_granted /\ m.voter_id = v
                                  /\ m.term = current_term[i] /\ m.to = k
  <2>1. VotesCounted /\ role[i] # Follower /\ role[j] # Follower
    BY Zenon DEF ElectionInv, VoteInv
  <2>2. v # i => \E m \in voteResponses : /\ m.vote_granted /\ m.voter_id = v
                                          /\ m.term = current_term[i] /\ m.to = i
    BY <1>2, <2>1 DEF VotesCounted
  <2>3. v # j => \E m \in voteResponses : /\ m.vote_granted /\ m.voter_id = v
                                          /\ m.term = current_term[j] /\ m.to = j
    BY <1>2, <2>1 DEF VotesCounted
  <2>4. QED
    BY <2>2, <2>3, Zenon
<1>4. voted_for[i] = i /\ voted_for[j] = j
  BY Zenon DEF ElectionInv, VoteInv, CandidatesVoteForThemselves
<1>5. CASE v = i
  BY <1>3, <1>4, <1>5 DEF ElectionInv, VoteInv, VotesRemembered
<1>6. CASE v = j
  BY <1>3, <1>4, <1>6 DEF ElectionInv, VoteInv, VotesRemembered
<1>7. CASE v # i /\ v # j
  BY <1>3, <1>7 DEF ElectionInv, VoteInv, OneVotePerTerm
<1>8. QED
  BY <1>5, <1>6, <1>7

-----------------------------------------------------------------------------
\* In a cluster of any size, however votes are lost, duplicated, delayed or reordered
\* and whenever nodes restart, the votes that become_leader relies on were given to
\* that candidate alone.
THEOREM ElectionInvariant == Spec => []ElectionInv
<1>1. Init => TypeInv /\ ElectionInv
  <2>1. Init => TypeInv
    BY TypeInit DEF TypeInv
  <2>2. Init => CommandsOnly
    <3> SUFFICES ASSUME Init PROVE CommandsOnly
      OBVIOUS
    <3>1. \A i \in Server : Len(log[i]) = 0 /\ peers[i] = Server \ {i}
      BY FixedMembership DEF Init
    <3>2. \A i \in Server : Commands(log[i])
      BY <3>1 DEF Commands
    <3>3. appendEntries = {} /\ forwarded = {}
      BY DEF Init
    <3>4. QED
      BY <3>1, <3>2, <3>3 DEF CommandsOnly
  <2>3. Init => VoteInv /\ LeaderHasMajority
    BY Zenon DEF Init, VoteInv, CandidatesVoteForThemselves, VotesRemembered, OneVotePerTerm,
           VotesCounted, LeaderHasMajority, Follower, Candidate, Leader
  <2>4. QED
    BY <2>1, <2>2, <2>3 DEF ElectionInv
<1>2. TypeInv /\ ElectionInv /\ [Next]_vars => (TypeInv /\ ElectionInv)'
  BY TypeStep, CommandsStep, VoteStep, MajorityStep DEF ElectionInv
<1>3. QED
  BY <1>1, <1>2, PTL DEF Spec

\* Election Safety, for a cluster of any size: start_election, handle_request_vote and
\* handle_vote_response never make two leaders of one term.
THEOREM ElectionSafetyHolds == Spec => []ElectionSafety
<1>1. TypeOK /\ CommitInLog /\ ElectionInv => ElectionSafety
  BY InvImpliesElectionSafety
<1>2. QED
  BY <1>1, TypeCorrect, ElectionInvariant, PTL

-----------------------------------------------------------------------------
(* The facts of mathematics that Base takes for granted                    *)

LEMMA DescentHolds == Descent
<1> SUFFICES ASSUME NEW S \in SUBSET Nat, S # {}
             PROVE  \E n \in S : \A k \in S : n <= k
  BY DEF Descent
<1> DEFINE R == {ss \in Nat \X Nat : ss[1] < ss[2]}
<1>1. IsWellFoundedOn(R, Nat)
  BY NatLessThanWellFounded DEF OpToRel
<1> HIDE DEF R
<1>2. PICK n \in S : \A k \in S : <<k, n>> \notin R
  BY <1>1, WFMin, Zenon
<1>3. \A k \in S : ~(k < n)
  BY <1>2, Zenon DEF R
<1>4. QED
  BY <1>3

LEMMA QuorumsHold == Quorums
<1>1. IsFiniteSet(Server) /\ Cardinality(Server) \in Nat
  BY ServerFinite, FS_CardinalityType
<1>2. \A i \in Server : Cardinality({i}) = 1
  BY FS_Singleton, Zenon
<1>3. ASSUME NEW i \in Server PROVE Cardinality(Server \ {i}) + 1 = Cardinality(Server)
  <2>1. Cardinality(Server \ {i}) = Cardinality(Server) - 1
    BY <1>1, FS_RemoveElement
  <2>2. QED
    BY <1>1, <2>1
<1>4. ASSUME NEW A \in SUBSET Server, NEW i \in Server \ A
      PROVE  Cardinality(A \cup {i}) = Cardinality(A) + 1
  <2>1. IsFiniteSet(A)
    BY <1>1, FS_Subset
  <2>2. QED
    BY <2>1, FS_AddElement
<1>5. ASSUME NEW i \in Server, IsQuorum({i}) PROVE Server = {i}
  <2>1. {i} \subseteq Server /\ Cardinality({i}) = 1 /\ Cardinality({i}) <= Cardinality(Server)
    <3>1. {i} \subseteq Server
      OBVIOUS
    <3>2. QED
      BY <1>1, <1>2, <3>1, FS_Subset
  <2>2. Cardinality(Server) = Cardinality({i})
    BY <1>1, <1>5, <2>1 DEF IsQuorum
  <2>3. QED
    BY <1>1, <2>1, <2>2, FS_Subset
<1>6. ASSUME NEW A \in SUBSET Server, NEW B \in SUBSET Server, IsQuorum(A), A \subseteq B
      PROVE  IsQuorum(B)
  <2>1. IsFiniteSet(A) /\ IsFiniteSet(B) /\ Cardinality(A) <= Cardinality(B)
    BY <1>1, <1>6, FS_Subset
  <2>2. Cardinality(A) \in Nat /\ Cardinality(B) \in Nat
    BY <2>1, FS_CardinalityType
  <2>3. QED
    BY <1>1, <1>6, <2>1, <2>2 DEF IsQuorum
<1>7. ASSUME NEW A \in SUBSET Server, NEW B \in SUBSET Server, IsQuorum(A), IsQuorum(B)
      PROVE  \E q \in Server : q \in A /\ q \in B
  BY <1>7, MajoritiesMeet DEF IsQuorum
<1>8. QED
  BY <1>1, <1>2, <1>3, <1>4, <1>5, <1>6, <1>7, Zenon DEF Quorums

LEMMA BaseInvariant == Spec => []Base
BY TypeCorrect, ElectionInvariant, DescentHolds, QuorumsHold, PTL DEF Base, Typed

-----------------------------------------------------------------------------
\* The invariant behind Log Matching holds in every reachable state, whatever votes and
\* AppendEntries are lost, late or delivered twice and whoever restarts.
THEOREM LogInvariant == Spec => []LogInv
<1>1. Init => LogInv
  BY LogInvInit
<1>2. Base /\ Base' /\ LogInv /\ [Next]_vars => LogInv'
  BY LogInvStep
<1>3. QED
  BY <1>1, <1>2, BaseInvariant, PTL DEF Spec

\* Log Matching (Simulation::check_invariants): however handle_append_entries merged and
\* cut the logs, two logs with the same term at an index are the same up to it.
THEOREM LogMatchingHolds == Spec => []LogMatching
BY LogInvMatching, BaseInvariant, LogInvariant, PTL

\* A leader's log is cut only by a leader of a later term: whatever AppendEntries reach
\* it, late, twice or from a deposed leader, truncate_log leaves the entries that it goes on
\* to send and to count.
THEOREM LeadersAppendOnly == Spec => LeaderAppendOnly
<1> DEFINE Kept == \A i \in Server :
              role[i] = Leader /\ ~Prefix(log[i], log'[i]) => current_term'[i] > current_term[i]
<1>1. Base /\ LogInv /\ [Next]_vars => Kept
  <2> SUFFICES ASSUME Base, LogInv, [Next]_vars PROVE Kept
    OBVIOUS
  <2>1. Shape
    BY StepShape, Zenon DEF LogInv
  <2>2. QED
    BY <2>1, LeaderKeepsLog, Zenon
<1>2. Base /\ LogInv /\ [Next]_vars => [Kept]_vars
  BY <1>1, Zenon
<1>3. QED
  BY <1>2, BaseInvariant, LogInvariant, PTL DEF Spec, LeaderAppendOnly

\* The leader that the nodes of a term name to clients, and forward commands to, is one
\* and the same.
THEOREM HintsAgree == Spec => []LeaderHintAgreement
BY LogInvHints, BaseInvariant, LogInvariant, PTL

-----------------------------------------------------------------------------
\* The invariant behind the leader's bookkeeping: next_index stays inside the log, a
\* match_index is what the follower acknowledged in this very term, and what it
\* acknowledged is in both logs, however the responses are delayed or repeated.
THEOREM ProgressInvariant == Spec => []ProgressInv
<1>1. Init => ProgressInv
  BY ProgressInvInit
<1>2. Base /\ Base' /\ LogInv /\ ProgressInv /\ [Next]_vars => ProgressInv'
  <2>1. Base /\ LogInv /\ [Next]_vars => Grows /\ Shape
    BY StepShape, Zenon DEF LogInv
  <2>2. QED
    BY <2>1, ProgressInvStep
<1>3. QED
  BY <1>1, <1>2, BaseInvariant, LogInvariant, PTL DEF Spec

\* The entries a leader counts as replicated to a follower (match_index) are in the
\* follower's log, so that update_commit_index counts real copies.
THEOREM MatchIndexHolds == Spec => []MatchIndexTruthful
BY ProgressInvMatch, BaseInvariant, LogInvariant, ProgressInvariant, PTL

\* No node dies on the expects of make_append_entries: every peer of a leader has a
\* next_index, and it points into the log or just behind it.
THEOREM NeverPanics == Spec => []NoPanic
<1>1. ProgressInv => NoPanic
  BY DEF ProgressInv, NoPanic
<1>2. QED
  BY <1>1, ProgressInvariant, PTL

-----------------------------------------------------------------------------
(* Commitment                                                              *)

LEMMA StepFacts == Base /\ Base' /\ LogInv /\ [Next]_vars => Grows /\ Shape /\ Commits /\ Serves
<1> SUFFICES ASSUME Base, Base', LogInv, [Next]_vars
             PROVE  Grows /\ Shape /\ Commits /\ Serves
  OBVIOUS
<1>1. RepliesFromOthers
  BY Zenon DEF LogInv
<1>2. Grows /\ Shape
  BY <1>1, StepShape, Zenon
<1>3. Commits /\ Serves
  BY CommitsStep, ServesStep, Zenon
<1>4. QED
  BY <1>2, <1>3

\* The order of the entries: terms never fall along a log, the entries of a term follow
\* one another, and a log that has an entry of a later term than another entry's has that
\* entry too, unless a leader was elected without it; whatever elections and deliveries
\* overlap.
THEOREM OrderInvariant == Spec => []OrderInv
<1>1. Init => OrderInv
  BY OrderInvInit
<1>2. Base /\ Base' /\ LogInv /\ LogInv' /\ ProgressInv /\ OrderInv /\ [Next]_vars => OrderInv'
  BY StepFacts, OrderInvStep, Zenon
<1>3. QED
  BY <1>1, <1>2, BaseInvariant, LogInvariant, ProgressInvariant, PTL DEF Spec

\* The invariant behind commitment: what a follower acknowledged stays in its log until
\* a leader without it is elected, a voter of a later term holds what it acknowledged
\* before, and every commit index and every applied entry is covered by an entry that a
\* majority acknowledged to the leader of its term.
THEOREM CommitInvariant == Spec => []CommitInv
<1>1. Init => CommitInv
  BY OrderInvInit
<1>2. Base /\ Base' /\ LogInv /\ LogInv' /\ ProgressInv /\ ProgressInv' /\ OrderInv /\ OrderInv'
         /\ CommitInv /\ [Next]_vars => CommitInv'
  BY StepFacts, CommitInvStep, Zenon
<1>3. QED
  BY <1>1, <1>2, BaseInvariant, LogInvariant, ProgressInvariant, OrderInvariant, PTL DEF Spec

\* No applied entry is ever cut from the log it was applied from, by whatever
\* handle_append_entries merges; last_applied counts the applied entries.
THEOREM AppliedStaysInLog == Spec => []AppliedInLog
<1>1. CommitInv => AppliedInLog
  BY Zenon DEF CommitInv
<1>2. QED
  BY <1>1, CommitInvariant, PTL

\* apply_committed_entries applies the same entries in the same order on every node.
THEOREM StateMachinesAgree == Spec => []StateMachineSafety
BY CommitInvStateMachine, BaseInvariant, LogInvariant, OrderInvariant, CommitInvariant, PTL

\* A leader has every entry that a node of no later term has applied in its log.
THEOREM LeadersComplete == Spec => []LeaderCompleteness
BY CommitInvComplete, BaseInvariant, LogInvariant, OrderInvariant, CommitInvariant, PTL

-----------------------------------------------------------------------------
(* Clients                                                                 *)

\* A pending write is at its index wherever an entry of its term is, and a write that
\* was answered with success is applied on some node.
THEOREM ClientInvariant == Spec => []ClientInv
<1>1. Init => ClientInv
  BY ClientInvInit
<1>2. Base /\ Base' /\ LogInv /\ LogInv' /\ CommitInv' /\ ClientInv /\ [Next]_vars => ClientInv'
  BY StepFacts, ClientInvStep, Zenon
<1>3. QED
  BY <1>1, <1>2, BaseInvariant, LogInvariant, CommitInvariant, PTL DEF Spec

\* A write that submit_store_write acknowledged is in the log of the leader of the newest
\* term, with its own term and command, whatever crashes, elections and lost messages
\* follow the acknowledgement.
THEOREM WritesDurable == Spec => []AcknowledgedWriteDurable
BY ClientInvDurable, BaseInvariant, LogInvariant, OrderInvariant, CommitInvariant,
   ClientInvariant, PTL
=============================================================================
